------------------------------ MODULE DataPath ------------------------------
(***************************************************************************)
(* The data path of the KD11-EA (kd11ea/kd11ea.c, kd11ea.h): the ALU, the  *)
(* multiplexers around it, the shift registers B and BX and the addressing *)
(* of the scratchpad, as functions of 16-bit words.                        *)
(***************************************************************************)
EXTENDS ControlStore, DecodeProms

Word == 2^16

LogicFunction ==
  <<NOTX, NOR, NOTXANDY, ZERO, NAND, NOTY, XOR, ANDNOT,
    ORNOTX, XNOR, Y, AND, ONES, ORNOTY, OR, X>>

\* An arithmetic function is the sum of two logic functions and the carry.
ArithFunction ==
  <<<<X, ZERO>>, <<OR, ZERO>>, <<ORNOTY, ZERO>>, <<ONES, ZERO>>,
    <<X, ANDNOT>>, <<OR, ANDNOT>>, <<X, NOTY>>, <<ANDNOT, ONES>>,
    <<X, AND>>, <<X, Y>>, <<ORNOTY, AND>>, <<AND, ONES>>,
    <<X, X>>, <<OR, X>>, <<ORNOTY, X>>, <<X, ONES>>>>

\* alu_74s181: the result and the carry out, for a function op of E82.
Alu(op, a, b) ==
  IF op.logic THEN [out |-> Logic(LogicFunction[op.s + 1], a, b), cout |-> 0]
  ELSE LET f == ArithFunction[op.s + 1]
           sum == Logic(f[1], a, b) + Logic(f[2], a, b) + op.cin
       IN  [out |-> sum % Word, cout |-> Bit(sum, 16)]

\* AUX CONTROL: the instruction and not the micro-word chooses the function.
AluControl(uw, ir, psw) ==
  IF ~uw.aux THEN E82Rom[uw.aluFunc]
  ELSE LET fc == IF Sop(ir) THEN E61(ir, Bit(psw, 0), Bit(psw, 3)) ELSE E83(ir)
       IN  E82Rom[(uw.aluFunc % 2) + 2 * Gather(fc, <<3, 2, 1, 0>>)]

\* bmux_select
BMux(bleg, b, bx) == <<b, bx, 14, 1>>[bleg + 1]

\* amux_select: selected low.
AMux(amuxL, data, alu, psw) == <<psw, alu, 0, data>>[amuxL + 1]

SwapBytes(w)  == 256 * (w % 256) + w \div 256
SignExtend(w) == (w % 256) + (IF Bit(w, 7) = 1 THEN 256 * 255 ELSE 0)

\* ssmux_select
SsMux(w, e80) ==
  IF e80.swap THEN SwapBytes(w) ELSE IF e80.sex THEN SignExtend(w) ELSE w

\* breg_update: hold, shift left, shift right, load.
ShiftRegister(mode, r, load, in, in07) ==
  CASE mode = 0 -> r
    [] mode = 1 -> ((2 * r) % Word) + in
    [] mode = 2 -> (r \div 2) - 128 * Bit(r, 8) + 128 * in07 + 32768 * in
    [] mode = 3 -> load

\* reg_to_spa: register n is in slot 15 - n, the user's R6 in slot 1.
RegSlot(n, user) == IF n = 6 /\ user = 1 THEN 1 ELSE 15 - n

\* Mutant of SpaResolve: R6 addressed by the micro-word is the kernel's.
SpaResolveKernel(uw, sel, ir, psw, ba) ==
  LET user == Bit(psw, IF uw.prevMode THEN 12 ELSE 14)
      rs == Slice(ir, 8, 6)
  IN  CASE sel = SPA_ROM -> uw.romSpa
        [] sel = SPA_RS -> RegSlot(IF uw.forceRsv1 /\ rs % 2 = 0 THEN rs + 1 ELSE rs, user)
        [] sel = SPA_RD -> RegSlot(ir % 8, user)
        [] sel = SPA_RBA -> Slice(ba, 4, 1)

\* spa_resolve
SpaResolve(uw, sel, ir, psw, ba) ==
  LET user == Bit(psw, IF uw.prevMode THEN 12 ELSE 14)
      rs == Slice(ir, 8, 6)
  IN  CASE sel = SPA_ROM -> IF uw.romSpa = 9 /\ user = 1 THEN 1 ELSE uw.romSpa
        [] sel = SPA_RS -> RegSlot(IF uw.forceRsv1 /\ rs % 2 = 0 THEN rs + 1 ELSE rs, user)
        [] sel = SPA_RD -> RegSlot(ir % 8, user)
        [] sel = SPA_RBA -> Slice(ba, 4, 1)

\* K2-4: DISABLE MSYN+1 (bus_wiring.h): an odd word address, or a byte step
\* of a register other than R6 and R7.
DisableMsynPlus1(e80, slot, bdt) ==
  e80.disableMsynL = 0 /\ (Slice(15 - slot, 2, 1) # 3 \/ bdt)
=============================================================================
