--------------------------- MODULE RelocationCases --------------------------
(***************************************************************************)
(* Programs that run in user mode under memory management, and handlers    *)
(* for their traps.  Kernel page 0 is physical memory from 0 and kernel    *)
(* page 7 the I/O page.                                                    *)
(***************************************************************************)
EXTENDS InstructionCases

\* Physical memory: the vectors 244 and 250, the user's code and
\* stack, and the block of data that several of its pages lead to.
UserCode == \o1200
Map == MemoryMap \cup WordsIn(\o244, \o252) \cup WordsIn(UserCode, \o1210)
       \cup WordsIn(\o1230, \o1242) \cup WordsIn(\o1300, \o1302) \cup {\o1376, \o1400}

RW == 6   RO == 2   Downward == \o10   Full == \o77400

\* User pages: 0 is code and stack, of one block; 1 read only; 2 not resident;
\* 3 one block of the same data; 4 the same block, expanding downward; 7 the
\* I/O page, or not resident.
Mapping(io) ==
  [par |-> [i \in 0..15 |->
              CASE i \in {7, 15} -> \o7600 [] i = 8 -> \o12 [] i \in {9, 10, 11} -> \o13
                [] i = 12 -> 4096 + \o13 - 127 [] OTHER -> 0],
   pdr |-> [i \in 0..15 |->
              CASE i \in {0, 7} -> Full + RW [] i \in {8, 11} -> RW [] i = 9 -> RO
                [] i = 12 -> Full + Downward + RW [] i = 15 /\ io -> Full + RW [] OTHER -> 0],
   sr0 |-> 1, sr2 |-> 0, page |-> 0, mode |-> 0]

\* R1 to R5 point to pages 1, 2, 3, the end of 3, and the start of page 4's block.
UserRegisters == <<5, \o20000, \o40000, \o60000, \o60076, \o117700>>

\* A program and its handler, the kernel's and the user's stack pointer.
UserCase(code, handler) ==
  [code |-> code, handler |-> handler, sp |-> \o704, usp |-> \o40, io |-> FALSE,
   psw |-> \o140000, due |-> {}, n |-> 4]

UserMemory(c) ==
  [a \in Map |->
     CASE a \in VectorWords \cup WordsIn(\o244, \o252) -> IF a % 4 = 0 THEN Code ELSE \o340
       [] a \in {Code + 2 * (i - 1) : i \in DOMAIN c.handler} ->
            c.handler[(a - Code) \div 2 + 1]
       [] a \in {UserCode + 2 * (i - 1) : i \in DOMAIN c.code} ->
            c.code[(a - UserCode) \div 2 + 1]
       [] a = \o1240 -> 2                  \* for RTI: PC 2, kernel mode
       [] OTHER -> 0]

\* RTI; MFPI from page 2; MTPI to page 1 and to page 3; relocation off, or the
\* abort flags cleared, and RTI.
Rti      == <<2>>
Unfreeze == <<\o12737, 1, \o177572, 2>>
UserHandlers == {Rti, <<\o6512>>, <<\o6611>>, <<\o6613>>, <<\o5037, \o177572, 2>>, Unfreeze}

\* MOV (R1)+,(R3)+ then MOV R0,(R5); MOV R0,(R1); MOV (R3)+,(R2); INC (R4)+ twice;
\* MOVB R0,1(R1); BIS (R3),(R1); JSR PC,(R3); JMP (R2); MOV R0,-(R5).
References == {<<\o12123, \o10015>>, <<\o10011>>, <<\o12312>>, <<\o5224, \o5224>>, <<\o110061, 1>>,
               <<\o51311>>, <<\o4713>>, <<\o112>>, <<\o10045>>}

\* TRAP, RTI, HALT, RESET, WAIT
Privileged == {<<\o104400>>, <<2>>, <<0>>, <<5>>, <<1>>}

\* MOV R0,@#PSW; page 1 made writable and written; page 3 closed and written;
\* relocation turned off.
IoPageUses == {<<\o10037, \o177776>>, <<\o12737, RW, \o177602, \o10011>>,
               <<\o5037, \o177606, \o10013>>, <<\o5037, \o177572, \o240>>}

UserCases ==
  {UserCase(code, h) : code \in References \cup Privileged, h \in UserHandlers}
  \cup {[UserCase(code, h) EXCEPT !.io = TRUE] : code \in IoPageUses, h \in {Rti, Unfreeze}}
  \cup {[UserCase(<<\o4713>>, h) EXCEPT !.usp = u] : h \in UserHandlers, u \in {\o40000, \o40002, 1}}
  \cup {[UserCase(<<\o104400>>, Rti) EXCEPT !.sp = \o600]}      \* no kernel stack
  \cup {[UserCase(code, h) EXCEPT !.due = {v}, !.n = 3] :
          code \in {<<\o12312>>, <<1>>}, h \in {Rti, Unfreeze}, v \in {\o60}}
  \cup {[UserCase(<<\o240>>, <<5, 2>>) EXCEPT !.due = {\o60, \o100}, !.n = 3]}  \* RESET
=============================================================================
