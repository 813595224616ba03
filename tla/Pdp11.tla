------------------------------- MODULE Pdp11 --------------------------------
(***************************************************************************)
(* What the KD11-EA promises: the PDP-11/34 instruction set without        *)
(* relocation (docs/KD11-EA/chapter-02-instruction-set.md), one step to an *)
(* instruction or to the entry of a trap or interrupt.  A state holds the  *)
(* registers (6 is the kernel's stack pointer and 8 the user's), the       *)
(* processor status and the words of memory; cause is the trap that must   *)
(* come next, or "none".                                                   *)
(***************************************************************************)
EXTENDS Words

CONSTANTS Memory,        \* the addresses of the words of memory
          Sources,       \* the vectors of the devices that may interrupt
          LevelOf        \* and their priority levels

VARIABLES state, cause

\* The traps and their vectors.
VectorOf == [bus |-> \o4, overflow |-> \o4, reserved |-> \o10, trace |-> \o14, bpt |-> \o14,
             iot |-> \o20, emt |-> \o30, trap |-> \o34]

W == 65536

\* Bitwise operations on words.
And(x, y) ==
  LET Low[n \in 0..16] ==
        IF n = 0 THEN 0 ELSE Low[n - 1] + 2^(n - 1) * Bit(x, n - 1) * Bit(y, n - 1)
  IN  Low[16]
Or(x, y)     == x + y - And(x, y)
Differ(x, y) == x + y - 2 * And(x, y)
AndNot(x, y) == x - And(x, y)

PswAddr == \o177776

-----------------------------------------------------------------------------
(* Registers and memory.  In a state being computed ok is FALSE from the   *)
(* first access that fails, low says that the kernel's stack pointer was   *)
(* decremented below 400, and the registers of free and the condition      *)
(* codes of freeCC are not specified.                                      *)

Start(st) == [reg |-> st.reg, psw |-> st.psw, mem |-> st.mem, ok |-> TRUE, low |-> FALSE,
              free |-> {}, freeCC |-> 0]

RegOf(n, mode) == IF n = 6 /\ mode = 3 THEN 8 ELSE n
Mode(s)      == Slice(s.psw, 15, 14)
Previous(s)  == Slice(s.psw, 13, 12)
Get(s, n)    == s.reg[RegOf(n, Mode(s))]
Set(s, n, v) == [s EXCEPT !.reg[RegOf(n, Mode(s))] = (v + W) % W]
Lower(s, n, step) ==
  LET v == (Get(s, n) - step + W) % W
  IN  [Set(s, n, v) EXCEPT !.low = @ \/ (n = 6 /\ Mode(s) = 0 /\ v < 256)]

Even(a)       == a - (a % 2)
Answers(a, byte) == Even(a) \in Memory \cup {PswAddr} /\ (byte \/ a % 2 = 0)
WordAt(s, a)  == IF Even(a) = PswAddr THEN s.psw
                 ELSE IF Even(a) \in Memory THEN s.mem[Even(a)] ELSE 0
Load(s, a, byte) ==
  IF ~byte THEN WordAt(s, a)
  ELSE IF a % 2 = 1 THEN WordAt(s, a) \div 256 ELSE WordAt(s, a) % 256
Check(s, a, byte) == [s EXCEPT !.ok = @ /\ Answers(a, byte)]

\* The bits of the processor status: T cannot be written in memory.
WithBits(old, new, mask) == AndNot(old, mask) + And(new, mask)
Store(s, a, v, byte) ==
  LET old == WordAt(s, a)
      new == IF ~byte THEN v ELSE IF a % 2 = 1 THEN (old % 256) + 256 * v
             ELSE 256 * (old \div 256) + v
  IN  IF ~Answers(a, byte) THEN [s EXCEPT !.ok = FALSE]
      ELSE IF Even(a) = PswAddr THEN [s EXCEPT !.psw = WithBits(@, new, \hF0EF)]
      ELSE [s EXCEPT !.mem[Even(a)] = new]

Push(s, v) == LET t == Lower(s, 6, 2) IN Store(t, Get(t, 6), v, FALSE)
Pop(s)     == [v |-> Load(s, Get(s, 6), FALSE),
               s |-> Set(Check(s, Get(s, 6), FALSE), 6, Get(s, 6) + 2)]

-----------------------------------------------------------------------------
(* Addressing: the address of an operand that is not in a register.        *)

Effective(s, spec, byte) ==
  LET mode == spec \div 8
      n    == spec % 8
      step == IF byte /\ n < 6 /\ mode \in {2, 4} THEN 1 ELSE 2
      indexed == mode \in {6, 7}
      x    == Load(s, Get(s, 7), FALSE)
      t    == CASE mode = 1 -> s
                [] mode \in {2, 3} -> Set(s, n, Get(s, n) + step)
                [] mode \in {4, 5} -> Lower(s, n, step)
                [] indexed -> Set(Check(s, Get(s, 7), FALSE), 7, Get(s, 7) + 2)
      at   == CASE mode \in {1, 2, 3} -> Get(s, n)
                [] mode \in {4, 5} -> Get(t, n)
                [] indexed -> (x + Get(t, n)) % W
  IN  IF mode \in {3, 5, 7} THEN [s |-> Check(t, at, FALSE), addr |-> Load(t, at, FALSE)]
      ELSE [s |-> t, addr |-> at]

\* The operand of a specifier: its place, and the value there.
Operand(s, spec, byte) ==
  IF spec < 8
  THEN [s |-> s, addr |-> -1, v |-> Get(s, spec) % (IF byte THEN 256 ELSE W)]
  ELSE LET At(e) == [s |-> Check(e.s, e.addr, byte), addr |-> e.addr, v |-> Load(e.s, e.addr, byte)]
       IN  At(Effective(s, spec, byte))

Extend(v) == IF v >= 128 THEN v + 65280 ELSE v

\* Put v where the operand came from: a byte in a register keeps the upper
\* half, unless it is extended.
Replace(s, spec, addr, v, byte, extend) ==
  IF spec >= 8 THEN Store(s, addr, v, byte)
  ELSE Set(s, spec, CASE ~byte -> v
                      [] byte /\ extend -> Extend(v)
                      [] OTHER -> 256 * (Get(s, spec) \div 256) + v)

-----------------------------------------------------------------------------
(* Condition codes and arithmetic, on words of top values.                 *)

CarryIn(s) == s.psw % 2
Negative(v, top) == v >= top \div 2
Signed(v, top) == IF Negative(v, top) THEN v - top ELSE v
WithCC(s, n, z, v, c) ==
  [s EXCEPT !.psw = @ - (@ % 16) + 8 * Flag(n) + 4 * Flag(z) + 2 * Flag(v) + Flag(c)]

\* A result: its value, V and C, and whether it is stored.
Res(v, ov, c) == [v |-> v, ov |-> ov, c |-> c, kept |-> TRUE]
Plus(x, y, top) ==
  LET v == (x + y) % top
  IN  Res(v, Negative(x, top) = Negative(y, top) /\ Negative(v, top) # Negative(x, top),
          x + y >= top)
Minus(x, y, top) ==
  LET v == (x - y + top) % top
  IN  Res(v, Negative(x, top) # Negative(y, top) /\ Negative(v, top) = Negative(y, top), x < y)

\* MOV CMP BIT BIC BIS ADD or SUB of a source x and a destination y.
DoubleOp(op, sub, x, y, carry, top) ==
  CASE op = 1 -> Res(x, FALSE, carry)
    [] op = 2 -> [Minus(x, y, top) EXCEPT !.kept = FALSE]
    [] op = 3 -> [Res(And(x, y), FALSE, carry) EXCEPT !.kept = FALSE]
    [] op = 4 -> Res(AndNot(y, x), FALSE, carry)
    [] op = 5 -> Res(Or(x, y), FALSE, carry)
    [] op = 6 -> IF sub THEN Minus(y, x, top) ELSE Plus(x, y, top)

\* A shift by one place that gives v and shifts c out: V is N xor C.
Shifted(v, c, top) == Res(v, Negative(v, top) # c, c)

\* CLR COM INC DEC NEG ADC SBC TST ROR ROL ASR ASL of y.
SingleOp(op, y, carry, top) ==
  LET c == Flag(carry) IN
  CASE op = \o50 -> Res(0, FALSE, FALSE)
    [] op = \o51 -> Res(top - 1 - y, FALSE, TRUE)
    [] op = \o52 -> [Plus(y, 1, top) EXCEPT !.c = carry]
    [] op = \o53 -> [Minus(y, 1, top) EXCEPT !.c = carry]
    [] op = \o54 -> Minus(0, y, top)
    [] op = \o55 -> Plus(y, c, top)
    [] op = \o56 -> Minus(y, c, top)
    [] op = \o57 -> [Res(y, FALSE, FALSE) EXCEPT !.kept = FALSE]
    [] op = \o60 -> Shifted((y \div 2) + c * (top \div 2), y % 2 = 1, top)
    [] op = \o61 -> Shifted(((2 * y) % top) + c, Negative(y, top), top)
    [] op = \o62 -> Shifted((y \div 2) + (IF Negative(y, top) THEN top \div 2 ELSE 0),
                            y % 2 = 1, top)
    [] op = \o63 -> Shifted((2 * y) % top, Negative(y, top), top)

\* The condition codes of a result, unless the instruction stored it in the
\* low byte of the processor status.
Finish(s, r, top, spec, addr) ==
  IF r.kept /\ spec >= 8 /\ addr = PswAddr THEN s
  ELSE WithCC(s, Negative(r.v, top), r.v = 0, r.ov, r.c)

-----------------------------------------------------------------------------
(* The instructions: each maps the state after the fetch of i.             *)

Double(s, i) ==
  LET op   == Slice(i, 14, 12)
      byte == i >= 32768 /\ op # 6
      top  == IF byte THEN 256 ELSE W
      src  == Operand(s, Slice(i, 11, 6), byte)
      dst  == Operand(src.s, i % 64, byte)
      r    == DoubleOp(op, i >= 32768, src.v, dst.v, CarryIn(s) = 1, top)
      t    == IF r.kept THEN Replace(dst.s, i % 64, dst.addr, r.v, byte, op = 1) ELSE dst.s
  IN  Finish(t, r, top, i % 64, dst.addr)

\* An instruction that replaces its operand d by the value of the result r,
\* with the condition codes of c.
Modify(i, d, r, c, byte, ctop) ==
  LET t == IF r.kept THEN Replace(d.s, i % 64, d.addr, r.v, byte, FALSE) ELSE d.s
  IN  Finish(t, c, ctop, i % 64, d.addr)

Single(s, i) ==
  LET byte == i >= 32768
      top  == IF byte THEN 256 ELSE W
      d    == Operand(s, i % 64, byte)
      r    == SingleOp(Slice(i, 11, 6), d.v, CarryIn(s) = 1, top)
  IN  Modify(i, d, r, r, byte, top)

Swab(s, i) ==
  LET d == Operand(s, i % 64, FALSE)
      v == 256 * (d.v % 256) + d.v \div 256
  IN  Modify(i, d, Res(v, FALSE, FALSE), Res(v % 256, FALSE, FALSE), FALSE, 256)

Sxt(s, i) ==
  LET r == Res(IF Bit(s.psw, 3) = 1 THEN W - 1 ELSE 0, FALSE, CarryIn(s) = 1)
  IN  Modify(i, Operand(s, i % 64, FALSE), r, r, FALSE, W)

Xor(s, i) ==
  LET d == Operand(s, i % 64, FALSE)
      r == Res(Differ(Get(s, Slice(i, 8, 6)), d.v), FALSE, CarryIn(s) = 1)
  IN  Modify(i, d, r, r, FALSE, W)

Mfps(s, i) ==
  LET d == Operand(s, i % 64, TRUE)
      t == Replace(d.s, i % 64, d.addr, s.psw % 256, TRUE, TRUE)
  IN  Finish(t, Res(s.psw % 256, FALSE, CarryIn(s) = 1), 256, i % 64, d.addr)

Mtps(s, i) ==
  LET d == Operand(s, i % 64, TRUE)
  IN  [d.s EXCEPT !.psw = WithBits(@, d.v, \h00EF)]

\* MFPI and MTPI: a register of the previous mode, or a word of memory.
Mfpi(s, i) ==
  LET d == Operand(s, i % 64, FALSE)
      v == IF i % 64 < 8 THEN s.reg[RegOf(i % 64, Previous(s))] ELSE d.v
      t == Push(d.s, v)
  IN  WithCC(t, Negative(v, W), v = 0, FALSE, CarryIn(s) = 1)
Mtpi(s, i) ==
  LET p == Pop(s)
      d == Operand(p.s, i % 64, FALSE)
      t == IF i % 64 < 8 THEN [d.s EXCEPT !.reg[RegOf(i % 64, Previous(s))] = p.v]
           ELSE Store(d.s, d.addr, p.v, FALSE)
  IN  Finish(t, Res(p.v, FALSE, CarryIn(s) = 1), W, i % 64, d.addr)

Jmp(s, i) == LET e == Effective(s, i % 64, FALSE) IN Set(e.s, 7, e.addr)
Jsr(s, i) ==
  LET n == Slice(i, 8, 6)
      e == Effective(s, i % 64, FALSE)
      t == Push(e.s, Get(e.s, n))
  IN  Set(Set(t, n, Get(t, 7)), 7, e.addr)
Rts(s, i) ==
  LET p == Pop(Set(s, 7, Get(s, i % 8))) IN Set(p.s, i % 8, p.v)
Mark(s, i) ==
  LET t == Set(s, 6, Get(s, 7) + 2 * (i % 64))
      p == Pop(Set(t, 7, Get(s, 5)))
  IN  Set(p.s, 5, p.v)
Sob(s, i) ==
  LET t == Set(s, Slice(i, 8, 6), Get(s, Slice(i, 8, 6)) - 1)
  IN  IF Get(t, Slice(i, 8, 6)) = 0 THEN t ELSE Set(t, 7, Get(t, 7) - 2 * (i % 64))

\* The condition of the branch, and of the one after it, which is the inverse.
Condition(k, n, z, v, c) ==
  CASE k = 0 -> TRUE [] k = 1 -> z [] k = 2 -> n # v [] k = 3 -> z \/ n # v
    [] k = 4 -> n [] k = 5 -> c \/ z [] k = 6 -> v [] k = 7 -> c
Branch(s, i) ==
  LET On(b) == Bit(s.psw, b) = 1
      holds == Condition(Slice(i, 10, 9) + 4 * Bit(i, 15), On(3), On(2), On(1), On(0))
      off   == Signed(i % 256, 256)
  IN  IF (Bit(i, 8) = 1) = holds THEN Set(s, 7, Get(s, 7) + 2 * off) ELSE s

\* RTI and RTT: in user mode the modes and the priority stay.
Return(s) ==
  LET p == Pop(s)
      q == Pop(p.s)
      t == Set(q.s, 7, p.v)
      kept == IF Mode(s) = 3 THEN \hF0E0 ELSE 0
  IN  [t EXCEPT !.psw = And(\hF0FF, WithBits(q.v, s.psw, kept))]

ConditionCodes(s, i) ==
  [s EXCEPT !.psw = IF Bit(i, 4) = 1 THEN Or(@, i % 16) ELSE AndNot(@, i % 16)]

-----------------------------------------------------------------------------
(* Extended instructions.  They work on register n and on n with bit 0 set. *)

SetPair(s, n, high, low) == Set(Set(s, n, high), n + 1 - (n % 2), low)

Mul(s, i) ==
  LET n == Slice(i, 8, 6)
      d == Operand(s, i % 64, FALSE)
      p == Signed(Get(s, n), W) * Signed(d.v, W)
      t == SetPair(d.s, n, (p \div W) % W, p % W)
  IN  WithCC(t, Negative(Get(t, n), W), p = 0, FALSE, p \notin -32768..32767)

\* N is the sign of register n, so of the low half of the product if n is odd.
Abs(x) == IF x < 0 THEN -x ELSE x

\* DIV: what a quotient that does not fit leaves is not specified.
Div(s, i) ==
  LET n == Slice(i, 8, 6)
      d == Operand(s, i % 64, FALSE)
      x == Signed(Get(s, n), W) * W + Get(s, n + 1 - (n % 2))
      y == Signed(d.v, W)
      q == IF (x < 0) = (y < 0) THEN Abs(x) \div Abs(y) ELSE -(Abs(x) \div Abs(y))
  IN  IF y = 0 \/ q \notin -32768..32767
      THEN [WithCC(d.s, FALSE, FALSE, TRUE, y = 0) EXCEPT !.free = {n, n + 1 - (n % 2)},
                                                          !.freeCC = 12]
      ELSE WithCC(SetPair(d.s, n, q % W, (x - q * y) % W), q < 0, q = 0, FALSE, FALSE)

\* ASH and ASHC: h, and l below it if the shift is of both, by count places.
Shift(both, count, h0, l0) ==
  LET left == count < 32
      S[k \in 0..63] ==
        IF k = 0 THEN [h |-> h0, l |-> l0, c |-> FALSE, v |-> FALSE]
        ELSE LET p == S[k - 1] IN
             IF left
             THEN LET h == ((2 * p.h) % W) + (IF both THEN p.l \div 32768 ELSE 0)
                  IN  [h |-> h, l |-> (2 * p.l) % W, c |-> Negative(p.h, W),
                       v |-> p.v \/ Negative(h, W) # Negative(p.h, W)]
             ELSE [h |-> (p.h \div 2) + 32768 * Bit(p.h, 15),
                   l |-> (p.l \div 2) + 32768 * (p.h % 2),
                   c |-> (IF both THEN p.l ELSE p.h) % 2 = 1, v |-> p.v]
  IN  S[IF left THEN count ELSE 64 - count]

Ash(s, i) ==
  LET n == Slice(i, 8, 6)
      d == Operand(s, i % 64, FALSE)
      r == Shift(FALSE, d.v % 64, Get(s, n), 0)
  IN  WithCC(Set(d.s, n, r.h), Negative(r.h, W), r.h = 0, r.v, r.c)
Ashc(s, i) ==
  LET n == Slice(i, 8, 6)
      d == Operand(s, i % 64, FALSE)
      r == Shift(TRUE, d.v % 64, Get(s, n), Get(s, n + 1 - (n % 2)))
  IN  WithCC(SetPair(d.s, n, r.h, r.l), Negative(r.h, W), r.h = 0 /\ r.l = 0, r.v, r.c)

-----------------------------------------------------------------------------
(* The steps.                                                              *)

Op(i, hi, lo, code) == Slice(i, hi, lo) = code

\* The trap an instruction asks for, if any.
TrapOf(s, i) ==
  CASE Op(i, 15, 8, \o210) \* EMT, octal 104000
         -> "emt"
    [] Op(i, 15, 8, \o211) -> "trap"
    [] i = 3 -> "bpt"
    [] i = 4 -> "iot"
    [] \/ i = 0 /\ Mode(s) = 3               \* HALT in user mode
       \/ i \in \o7..\o107                   \* with JMP to a register
       \/ i \in \o210..\o237
       \/ Op(i, 15, 9, 4) /\ Op(i, 5, 3, 0)  \* JSR to a register
       \/ i \in \o7000..\o7777 \cup \o75000..\o76777 \cup \o107000..\o107777
       \/ Op(i, 15, 12, 15) -> "reserved"
    [] OTHER -> "none"

\* What the instruction i makes of the state after its fetch.
Executed(s, i) ==
  CASE TrapOf(s, i) # "none" \/ i \in {0, 1, 5} -> s          \* HALT WAIT RESET
    [] i \in {2, 6} -> Return(s)
    [] Op(i, 15, 6, 1) -> Jmp(s, i)
    [] Op(i, 15, 3, \o20) -> Rts(s, i)
    [] Op(i, 15, 5, \o5) -> ConditionCodes(s, i)
    [] Op(i, 15, 6, 3) -> Swab(s, i)
    [] Slice(i, 14, 11) = 0 /\ i >= \o400 -> Branch(s, i)
    [] Op(i, 15, 9, 4) -> Jsr(s, i)
    [] Slice(i, 14, 6) \in \o50..\o63 -> Single(s, i)
    [] Op(i, 15, 6, \o64) -> Mark(s, i)
    [] Op(i, 15, 6, \o1064) -> Mtps(s, i)
    [] Op(i, 14, 6, \o65) -> Mfpi(s, i)
    [] Op(i, 14, 6, \o66) -> Mtpi(s, i)
    [] Op(i, 15, 6, \o67) -> Sxt(s, i)
    [] Op(i, 15, 6, \o1067) -> Mfps(s, i)
    [] Op(i, 15, 9, \o70) -> Mul(s, i)
    [] Op(i, 15, 9, \o71) -> Div(s, i)
    [] Op(i, 15, 9, \o72) -> Ash(s, i)
    [] Op(i, 15, 9, \o73) -> Ashc(s, i)
    [] Op(i, 15, 9, \o74) -> Xor(s, i)
    [] Op(i, 15, 9, \o77) -> Sob(s, i)
    [] Slice(i, 14, 12) \in 1..6 -> Double(s, i)

Fetched(st) ==
  LET s == Check(Start(st), st.reg[7], FALSE)
  IN  [s |-> Set(s, 7, st.reg[7] + 2), i |-> Load(s, st.reg[7], FALSE)]

\* The trap that follows the instruction i when it ends in s.
CauseAfter(before, s, i) ==
  LET asked  == TrapOf(before, i)
      traced == Bit(s.psw, 4) = 1 /\ i # 6
  IN  IF asked # "none" THEN asked
      ELSE IF traced THEN "trace" ELSE IF s.low THEN "overflow" ELSE "none"

\* What the next instruction comes to.  If it meets an odd address or one where
\* nothing answers, it changes neither memory nor the processor status.
Completed(st) ==
  LET Ended(f, s) == IF s.ok THEN [s |-> s, cause |-> CauseAfter(f.s, s, f.i)]
                     ELSE [s |-> [Start(st) EXCEPT !.free = 0..8], cause |-> "bus"]
      Run(f) == Ended(f, IF f.s.ok THEN Executed(f.s, f.i) ELSE f.s)
  IN  Run(Fetched(st))

\* A trap or interrupt: the new status keeps the old mode as the previous one,
\* and the old status and PC go to the stack of the new mode.
Entered(st, vector, from) ==
  LET new == WithBits(WordAt(st, vector + 2), st.psw \div 4, \h3000)
      top == [Start(st) EXCEPT !.psw = And(\hF0FF, new)]
      s   == Set(Push(Push(top, st.psw), st.reg[7]), 7, WordAt(st, vector))
  IN  [s |-> s,
       cause |-> IF Bit(s.psw, 4) = 1 THEN "trace"
                 ELSE IF s.low /\ from # "overflow" THEN "overflow" ELSE "none"]

\* The outcomes of the next instruction, trap or interrupt.
Outcomes(st, from) ==
  IF from # "none" THEN {Entered(st, VectorOf[from], from)}
  ELSE {Completed(st)}
       \cup {Entered(st, v, from) : v \in {u \in Sources : LevelOf[u] > Slice(st.psw, 7, 5)}}

Matches(s, st) ==
  /\ st.mem = s.mem
  /\ \A n \in DOMAIN s.reg \ s.free : st.reg[n] = s.reg[n]
  /\ AndNot(st.psw, s.freeCC) = AndNot(s.psw, s.freeCC)

Proceed == \E o \in Outcomes(state, cause) : Matches(o.s, state') /\ cause' = o.cause

Next == <<state, cause>>' # <<state, cause>> /\ Proceed
Spec == [][Next]_<<state, cause>>
=============================================================================
