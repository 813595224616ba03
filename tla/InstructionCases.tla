-------------------------- MODULE InstructionCases --------------------------
(***************************************************************************)
(* The programs MCProcessor runs without memory management: for each group *)
(* of instructions the operands, addressing modes and processor states     *)
(* that make its cases different.  A case has the code at 1000, R0 to R5,  *)
(* the kernel's stack pointer, the processor status, the vectors that      *)
(* devices will request at some moment, and the number of instructions and *)
(* traps to run.                                                           *)
(***************************************************************************)
EXTENDS Words, Sequences

Code == \o1000
WordsIn(first, last) == {a \in first..last : a % 2 = 0}

-----------------------------------------------------------------------------
(* Memory: vectors, the end of the kernel's stack, the kernel's and the    *)
(* user's stack, the code, data, and pointers to data.                     *)

VectorWords == WordsIn(0, \o36) \cup WordsIn(\o60, \o62) \cup WordsIn(\o100, \o102)
MemoryMap == VectorWords \cup WordsIn(\o364, \o404) \cup WordsIn(\o660, \o714)
             \cup WordsIn(Code, \o1006) \cup WordsIn(\o1100, \o1110)
             \cup WordsIn(\o2000, \o2036)

\* The handlers are at 1004, that of TRAP in user mode.
Handler(a) == IF a % 4 = 0 THEN \o1004 ELSE IF a = \o36 THEN \o170000 ELSE \o340
KernelStack == <<\o2030, \o1004, \o20>>
UserStack   == <<\o2032, \o1002, \o177777>>
Data        == <<\o123456, \o377, \o100200, \o77777, 1, \o54321, \o177601>>
Pointers    == <<\o2004, \o2006, \o2011, \o2003, \o2012, \o2014, \o2017, \o2000>>

Contents ==
  [a \in MemoryMap |->
     CASE a \in VectorWords -> Handler(a)
       [] a \in WordsIn(\o704, \o710) -> KernelStack[(a - \o704) \div 2 + 1]
       [] a \in WordsIn(\o1104, \o1110) -> UserStack[(a - \o1104) \div 2 + 1]
       [] a \in WordsIn(\o2000, \o2014) -> Data[(a - \o2000) \div 2 + 1]
       [] a \in WordsIn(\o2020, \o2036) -> Pointers[(a - \o2020) \div 2 + 1]
       [] OTHER -> 0]

MemoryOf(map, code) ==
  [a \in map |->
     IF a \in {Code + 2 * (i - 1) : i \in DOMAIN code} THEN code[(a - Code) \div 2 + 1]
     ELSE IF a \in MemoryMap THEN Contents[a] ELSE 0]

\* One instruction, with its immediate words, R0 to R5 and the status.
Case(code, r, p) ==
  [code |-> code, r |-> r, sp |-> \o704, psw |-> p, due |-> {}, n |-> 1]

Pointing  == <<\o40123, \o2002, \o2012, \o2022, \o2032, \o1004>>
Modes     == {0, \o140000}                  \* kernel and user
PswAt     == \o177776

-----------------------------------------------------------------------------
(* Operations on boundary values.                                          *)

Boundaries == {0, 1, \o177, \o200, \o77777, \o100000, \o177777}

Doubles ==                   \* every double operand operation, on R1 and R2
  {Case(<<4096 * op + \o102>>, <<0, x, y, 0, 0, 0>>, f) :
     op \in 1..14 \ {7, 8}, x \in Boundaries, y \in Boundaries, f \in {0, \o17}}

Singles ==                   \* every single operand operation, on R1
  {Case(<<32768 * b + 64 * op + 1>>, <<0, x, 0, 0, 0, 0>>, f) :
     b \in {0, 1}, op \in \o50..\o63, x \in Boundaries, f \in {0, \o17}}

Multiplies ==                \* to an even and to an odd register
  {Case(<<\o70001 + 64 * n>>, <<0, x, y, y, 0, 0>>, 0) :
     n \in {2, 3}, x \in Boundaries, y \in {1, \o77777, \o100000, \o177777}}

Divides ==
  {Case(<<\o71204>>, <<0, 0, h, l, y, 0>>, 0) :
     h \in {0, 1, \o177777, \o177776}, l \in {0, 7, \o177777},
     y \in {0, 1, 2, \o77777, \o177777, \o177771, \o100000}}

Shifts ==                    \* ASH and ASHC, of R2 and of R3
  {Case(<<\o72204 + 512 * both + 64 * n>>, <<0, 0, h, l, k, 0>>, f) :
     both \in {0, 1}, n \in {0, 1}, h \in {1, \o177777, \o77777},
     l \in {\o100001, \o77777}, k \in {0, 1, 15, 31, 32, 48, 63}, f \in {1}}

Sobs    == {Case(<<\o77102>>, [Pointing EXCEPT ![2] = x], 0) : x \in {0, 1, 2}}
CcOps   == {Case(<<i>>, Pointing, f) : i \in \o240..\o277, f \in {0, 5, 10, 15}}
Branches ==
  {Case(<<256 * k + offset>>, Pointing, f) :
     k \in (1..7) \cup (128..135), offset \in {\o203}, f \in 0..15}
  \cup {Case(<<\o403>>, Pointing, 0)}

-----------------------------------------------------------------------------
(* Addressing: the modes with R1 and R2 or R3 and R4, with SP and with PC. *)

SrcSpecs == {\o01, \o11, \o21, \o33, \o41, \o53, \o61, \o73,
             \o16, \o26, \o36, \o46, \o66, \o27, \o37, \o67, \o77}
DstSpecs == {\o02, \o12, \o22, \o34, \o42, \o54, \o62, \o74,
             \o16, \o26, \o36, \o46, \o56, \o37, \o67, \o77}

Extension(spec) ==
  CASE spec = \o27 -> <<\o100200>>
    [] spec = \o37 -> <<\o2006>>
    [] spec = \o67 -> <<\o1000>>
    [] spec = \o77 -> <<\o1014>>
    [] spec \div 8 \in {6, 7} /\ spec % 8 # 7 -> <<\o177776>>
    [] OTHER -> <<>>
Coded(op, src, dst) == <<op + 64 * src + dst>> \o Extension(src) \o Extension(dst)

Moves ==                     \* MOV and SUB through every pair of modes
  {Case(Coded(op, src, dst), Pointing, 0) :
     op \in {\o10000, \o160000}, src \in SrcSpecs, dst \in DstSpecs}

ByteMoves ==                 \* MOVB, CMPB and BISB, of even and odd bytes
  {Case(Coded(op, src, dst), [Pointing EXCEPT ![2] = \o2003, ![3] = \o2012 + odd], 0) :
     op \in {\o110000, \o120000, \o150000}, src \in SrcSpecs,
     dst \in {\o02, \o12, \o22, \o34, \o42, \o67}, odd \in {0, 1}}

OneOperand ==                \* JMP SWAB CLR(B) INCB ROR(B) MTPS MFPI MTPI SXT MFPS JSR MUL XOR
  {Case(Coded(op, 0, spec), [Pointing EXCEPT ![3] = a], \o17) :
     op \in {\o100, \o300, \o5000, \o105000, \o105200, \o6000, \o106000, \o106400, \o6500,
             \o6600, \o6700, \o106700, \o4100, \o4700, \o70000, \o74000},
     spec \in DstSpecs \cup {\o06, \o27}, a \in {\o2012, \o2013}}

-----------------------------------------------------------------------------
(* Control: calls, returns, traps and the processor status as an operand.  *)

Calls ==                     \* RTS, MARK, SOB, JSR
  {Case(<<i>>, [Pointing EXCEPT ![6] = x], p) :
     x \in {\o1002, \o1004, \o2002}, p \in {0, \o140017, \o170000},
     i \in (\o200..\o205) \cup {\o207, \o6400, \o6401, \o6402, \o77501, \o77002, \o77103,
                               \o4711, \o4112, \o4513}}

Traced == {0, \o20}                         \* the T bit

Returns ==
  {[Case(<<i>>, Pointing, p) EXCEPT !.n = 2] :
     i \in {2, 6}, p \in {0, \o340, \o140000, \o170340, \o20, \o140020}}

Trapping ==
  {Case(<<i>>, Pointing, p) :
     i \in {0, 1, 5, 3, 4, 7, \o10, \o77, \o100, \o107, \o210, \o227, \o230, \o237, \o4000,
            \o4707, \o7000, \o7777, \o75000, \o75037, \o75040, \o76000, \o76777, \o104000,
            \o104377, \o104400, \o104777, \o107000, \o107777, \o170000, \o177777, \o240,
            \o10102},
     p \in {0, \o140000, \o170357, \o20, \o140020}}

PswStores ==
  {Case(<<i, x>>, Pointing, p) :
     i \in {\o10137, \o110137, \o40137, \o50137, \o150137, \o5137, \o105037, \o5237, \o6337,
            \o106737, \o6637, \o337, \o6737, \o4437, \o105137, \o74137},
     x \in {PswAt, PswAt + 1}, p \in {0, \o357, \o140017}}

PswLoads ==
  {Case(<<i, PswAt>>, Pointing, p) :
     i \in {\o13702, \o113702, \o23702, \o6537, \o106437, \o106402},
     p \in {0, \o377, \o140017, \o30005}}

\* Pushes near 400: JSR, MOV, MFPI, MOVB and CLR @-(SP), EMT, in either mode.
StackLimit ==
  {[Case(<<i>>, Pointing, m + t) EXCEPT !.sp = top, !.n = 4] :
     i \in {\o4111, \o10046, \o6501, \o110046, \o5056, \o104000, \o5766}, m \in Modes,
     t \in Traced, top \in {\o376, \o400, \o402, \o404}}

-----------------------------------------------------------------------------
(* Interrupts, at any moment of two instructions: vector 60 is of level 4  *)
(* and 100 of level 6.                                                     *)

\* WAIT, RTI, RESET, MTPS #0, TRAP, MOV (R1)+,-(R2), MUL (R1),R2, JSR, BPT and
\* a reserved one.
Interrupted ==
  {[Case(code, Pointing, m + t + pri) EXCEPT !.due = d, !.n = 3] :
     code \in {<<1, \o240>>, <<2, \o240>>, <<5, \o240>>, <<\o106427, 0>>, <<\o104400>>,
               <<\o12142, 3>>, <<\o70211, 7>>, <<\o4111>>},
     m \in Modes, t \in Traced, pri \in {\o200}, d \in {{\o60}, {\o100}}}
  \cup
  {[Case(code, Pointing, pri) EXCEPT !.due = {\o60, \o100}, !.n = 3] :
     code \in {<<\o10102, 1>>, <<1, 1>>}, pri \in {0, \o200, \o300}}

Cases == Doubles \cup Singles \cup Multiplies \cup Divides \cup Shifts \cup Sobs \cup CcOps
         \cup Branches \cup Moves \cup ByteMoves \cup OneOperand \cup Calls \cup Returns
         \cup Trapping \cup PswStores \cup PswLoads \cup StackLimit \cup Interrupted
=============================================================================
