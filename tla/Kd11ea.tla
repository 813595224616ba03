------------------------------- MODULE Kd11ea -------------------------------
(***************************************************************************)
(* The KD11-EA at the level of its micro-cycles (kd11ea/kd11ea.c): one     *)
(* action, Ustep, runs the micro-word at the MPC over the data path, the   *)
(* bus and the service logic, as kd11ea_ustep does.  Time and the probe    *)
(* are left out.  The bus (unibus.c, ram.c, the PSW and memory management  *)
(* registers of machine.c) has memory at the addresses of Memory only.     *)
(***************************************************************************)
EXTENDS DataPath, Mmu, IntQueue

CONSTANT Memory        \* the physical addresses of the words of memory

VARIABLES
  mpc,                 \* address of the next micro-word
  sp,                  \* the scratchpad: R0 to R7 are in slots 15 to 8
  ir, servIr,          \* the instruction, and whether SERV IR hides it
  irValid,             \* the next cycle decodes
  bReg, bxReg, count, ovx, rotCbit,
  ba, vba, unibusData,
  psw,
  irCode,              \* the trap the instruction asks for
  haltRqst, busError, stov, stovEn,
  mmu, mmuKte,
  resetInst,           \* RESET's INIT pulse was given
  halted,
  mem,                 \* the words of memory
  intc                 \* the interrupt controller

cpuVars == <<mpc, sp, ir, servIr, irValid, bReg, bxReg, count, ovx, rotCbit, ba, vba,
             unibusData, psw, irCode, haltRqst, busError, stov, stovEn, mmu, mmuKte,
             resetInst, halted, mem, intc>>

PswAddr == \o777776
PswBits == \hF0FF

LOCAL Or(a, b) == Logic(OR, a, b)
LOCAL And(a, b) == Logic(AND, a, b)
\* a, with the bits of mask from b
LOCAL Merge(a, b, mask) == And(a, \hFFFF - mask) + And(b, mask)

\* kd11ea_ir_pins
Pins(i, serv) == IF serv THEN \o100000 ELSE i

-----------------------------------------------------------------------------
(* The bus. *)

\* The address ranges of machine_init; a byte is looked up at its own address.
MmuRegister(a) == a \in \o772200..\o772776 \/ a \in \o777572..\o777576 \/ a \in \o777600..\o777676

\* bus_read_at: the data, and whether a device answered.
BusRead(a) ==
  LET w == a - (a % 2)
  IN  CASE w \in Memory -> [ok |-> TRUE, data |-> mem[w]]
        [] w = PswAddr -> [ok |-> TRUE, data |-> psw]
        [] MmuRegister(w) -> [ok |-> TRUE, data |-> MmuRead(mmu, w)]
        [] OTHER -> [ok |-> FALSE, data |-> 0]

\* ram_write: a byte is on the data lines of its half of the word.
WriteLane(old, a, data, byte) ==
  IF ~byte THEN data
  ELSE IF a % 2 = 1 THEN (old % 256) + 256 * (data \div 256)
  ELSE 256 * (old \div 256) + (data % 256)

\* psw_write: the T bit cannot be written.
PswWrite(a, data, byte) ==
  Merge(psw, data, IF ~byte THEN \hF0EF ELSE IF a % 2 = 1 THEN \hF000 ELSE \h00EF)

\* bus_write_at, with m the memory management state before it.
BusWrite(a, data, byte, m) ==
  LET w == a - (a % 2)
      at == IF byte THEN a ELSE w
  IN  CASE w \in Memory ->
             [ok |-> TRUE, mem |-> [mem EXCEPT ![w] = WriteLane(@, a, data, byte)],
              psw |-> psw, mmu |-> m]
        [] w = PswAddr -> [ok |-> TRUE, mem |-> mem, psw |-> PswWrite(a, data, byte), mmu |-> m]
        [] MmuRegister(at) ->
             [ok |-> TRUE, mem |-> mem, psw |-> psw, mmu |-> MmuWrite(m, at, data, Flag(byte))]
        [] OTHER -> [ok |-> FALSE, mem |-> mem, psw |-> psw, mmu |-> m]

\* The W bit: a relocated write that does not go to a register of the MMU.
SetW(m, a, byte) ==
  IF m.page >= 0 /\ ~KtWrite(a, Flag(byte))
  THEN [m EXCEPT !.pdr[m.page] = Or(@, PDR_W)] ELSE m

\* The bus cycle, or none, of an address a with data ss to write.
Transfer(cycle, bus, a, ss, m) ==
  LET r == BusRead(a)
      w == BusWrite(a, ss, bus = DATOB, m)
  IN  CASE ~cycle ->
             [ok |-> TRUE, data |-> unibusData, mem |-> mem, psw |-> psw, mmu |-> m]
        [] cycle /\ bus \in {DATI, DATIP} ->
             [ok |-> r.ok, data |-> r.data, mem |-> mem, psw |-> psw, mmu |-> m]
        [] OTHER ->
             [ok |-> w.ok, data |-> unibusData, mem |-> w.mem, psw |-> w.psw,
              mmu |-> IF w.ok THEN SetW(w.mmu, a, bus = DATOB) ELSE w.mmu]

\* The mode of a reference: kernel, the previous mode, or the current one.
ReferenceMode(uw) ==
  IF uw.forceKernel THEN 0 ELSE IF uw.prevMode THEN Slice(psw, 13, 12) ELSE Slice(psw, 15, 14)

\* RELOCATE H: enabled, or in maintenance mode for a destination.
RelocateH(uw) == Bit(mmu.sr0, 0) = 1 \/ (Bit(mmu.sr0, 8) = 1 /\ uw.enabMaint)

-----------------------------------------------------------------------------
(* The processor status. *)

\* Mutant of LoadPsw: RTI and RTT in user mode load all of the status.
LoadPswTrusting(uw, d54, old, data) ==
  And(PswBits, IF uw.forceKernel THEN Merge(data, And(old, \hC000) \div 4, \h3000) ELSE data)

\* MISC LOAD PSW: a trap keeps the old mode as the previous one, and RTI and
\* RTT in user mode keep modes and priority.
LoadPsw(uw, d54, old, data) ==
  LET trapped == IF uw.forceKernel THEN Merge(data, And(old, \hC000) \div 4, \h3000) ELSE data
  IN  And(PswBits, IF d54.disableLoadPsw THEN Merge(trapped, old, \hF0E0) ELSE trapped)

\* MISC LOAD CC: from the condition code logic under AUX CONTROL, and from the
\* data when not, or when the instruction writes the PSW itself.
LoadCc(uw, pswLow, old, a, b, alu, ss) ==
  LET d68 == E68(ir)
      sign == IF d68.byte THEN 7 ELSE 15
      vc == E107(Bit(alu, sign), Bit(a, sign), Bit(b, sign), rotCbit, Bit(old, 0), d68.ccCode)
      z == Flag(Slice(alu, sign, 0) = 0)
      cc == IF uw.aux /\ ~pswLow THEN Pack(<<vc.c, vc.v, z, Bit(alu, sign)>>) ELSE ss % 16
  IN  (old - (old % 16)) + cc

-----------------------------------------------------------------------------
(* Decoding and the next address. *)

\* The trap code LOAD IR latches: a wired OR of E53, E59, E74 and E70.
LoadedIrCode(i, user) ==
  LET code53 == IF E53Enabled(i) THEN E53(i, user).irCode ELSE 0
      code59 == IF Sop(i) THEN E59(i).irCode ELSE 0
      code00 == \/ Bit(i, 15) = 0 /\ E74(i, TRUE).irCode00
                \/ E70(i, FALSE, TRUE).irCode00
  IN  Logic(OR, Logic(OR, code53, code59), Flag(code00))

\* ir_decode_entry: the decoders wired together on the MPC lines.
DecodeEntry(i, p) ==
  LET d69 == E69(i, FALSE, TRUE)
      d74 == E74(i, TRUE)
      dop == 8 * d69.mpc + (IF d69.src THEN SrcMode(i) ELSE 0) + 32 * E70(i, FALSE, TRUE).mpc
      sop == IF Sop(i) THEN 8 * E60(i) + (IF E59(i).dest THEN DstMode(i) ELSE 0) ELSE 0
      operate == IF i < 256 THEN E63(i) ELSE 0
      eis == IF i < \o100000 THEN 8 * d74.mpc + (IF d74.dest THEN DstMode(i) ELSE 0) ELSE 0
      branch == IF Sop(i) /\ Bit(i, 11) = 0 /\ E71(i, p) THEN 128 ELSE 0
  IN  Or(Or(dop, sop), Or(Or(operate, eis), branch))

\* BUT DEST: the entry of the destination's addressing mode.
DestEntry(i) ==
  8 * E69(i, TRUE, FALSE).mpc + 32 * E70(i, TRUE, FALSE).mpc + DstMode(i)

\* compute_next_mpc, up to the service: the conditions E102 selects.
BranchBits(uw, i, a, alu) ==
  LET t == E102Rom[uw.but]
      sign == IF E68(i).byte THEN 7 ELSE 15
  IN  Pack(<<t.ir09 * Bit(i, 9), t.ccZ * Flag(Slice(alu.out, sign, 0) = 0),
             t.count05 * Bit(count, 5), t.sp15 * Bit(a, 15), t.bx00 * Bit(bxReg, 0),
             t.bx01 * Bit(bxReg, 1), t.ccN * Bit(alu.out, sign), t.aluCout * alu.cout>>)

\* Mutant of TrapToService: a T bit trap is taken after every instruction.
TrapWithoutE54(i, serv, p, stv) ==
  E51(E52(Bit(p, 4) = 1, stv, busError, mmuKte, irCode))

\* service_roms: the trap with priority at BUT SERVICE.
TrapToService(i, serv, p, stv) ==
  LET tbit == Bit(p, 4) = 1 /\ E54(Pins(i, serv), Bit(p, 15)).enabTbit
  IN  E51(E52(tbit, stv, busError, mmuKte, irCode))

\* What BUT SERVICE does: nothing, a trap, a halt, or an interrupt's grant.
Service(uw, i, serv, p, stv) ==
  LET e51 == TrapToService(i, serv, p, stv)
      pri == Slice(p, 7, 5)
  IN  CASE ~uw.butService -> [do |-> "none", vector |-> 0, stovServ |-> FALSE]
        [] uw.butService /\ ~e51.enabGrants ->
             [do |-> "trap", vector |-> ServiceVector(e51, mmuKte), stovServ |-> e51.stovServ]
        [] uw.butService /\ e51.enabGrants /\ haltRqst ->
             [do |-> "halt", vector |-> 0, stovServ |-> e51.stovServ]
        [] uw.butService /\ e51.enabGrants /\ ~haltRqst /\ Grantable(intc, pri) # {} ->
             [do |-> "interrupt", vector |-> intc[FirstGrantable(intc, pri)],
              stovServ |-> e51.stovServ]
        [] OTHER -> [do |-> "none", vector |-> 0, stovServ |-> e51.stovServ]

-----------------------------------------------------------------------------
(* The micro-cycle. *)

\* Mutant of ClockCount: the counter stops at zero.
ClockCountStops(c) == IF Bit(c, 5) = 1 THEN (c + 1) % 64 ELSE IF c = 0 THEN 0 ELSE c - 1

\* 74193 counter: up from a negative number, and down through zero to 63.
ClockCount(c) == IF Bit(c, 5) = 1 THEN (c + 1) % 64 ELSE (c + 63) % 64

\* A micro-cycle is computed in the order of kd11ea_ustep; each operator takes
\* the results of the ones before it.

\* The operands, the ALU and the byte control.
Operands(uw) ==
  LET pins    == Pins(ir, servIr)
      slot    == SpaResolve(uw, uw.spaSrc, ir, psw, ba)
      a       == sp[slot]
      byteH   == E68(pins).byte \/ irValid
      odd     == uw.bufDatTran /\ (IF uw.loadBa THEN a ELSE vba) % 2 = 1
      movL    == E69(pins, uw.misc = BUT_DEST, irValid).movL
      d80     == E80(uw.ssMux, uw.bufDatTran, uw.aux, byteH, odd, movL)
      disMsyn == DisableMsynPlus1(d80, slot, uw.bufDatTran)
      op      == AluControl(uw, ir, psw)
      b       == IF op.bleg = 3 /\ disMsyn THEN 0 ELSE BMux(op.bleg, bReg, bxReg)
  IN  [slot |-> slot, a |-> a, b |-> b, alu |-> Alu(op, a, b), e80 |-> d80, disMsyn |-> disMsyn,
       bus |-> IF uw.busCtl = DATOB /\ ~byteH THEN DATO ELSE uw.busCtl]

\* LOAD BA, with the address relocated.
LoadBa(uw, o) ==
  IF uw.loadBa
  THEN LET mapped == Translate(mmu, o.a, ReferenceMode(uw), MAP, RelocateH(uw))
       IN  [ba |-> mapped.pba, vba |-> o.a, mmu |-> mapped.mmu]
  ELSE [ba |-> ba, vba |-> vba, mmu |-> mmu]

\* The access check when the transfer starts, and whether there is one.
AccessCheck(uw, o, l) ==
  IF uw.bufDatTran /\ l.mmu.page >= 0
  THEN LET check == Relocate(l.mmu, l.vba, l.mmu.mode, o.bus)
       IN  [mmu |-> check.mmu, fault |-> check.abort,
            cycle |-> ~o.disMsyn /\ ~check.abort]
  ELSE [mmu |-> l.mmu, fault |-> FALSE, cycle |-> uw.bufDatTran /\ ~o.disMsyn]

\* The bus cycle, unless an odd word address or a fault cancels it.
SsOut(uw, o, d) == SsMux(AMux(uw.amuxL, d, o.alu.out, psw), o.e80)
BusCycle(uw, o, l, k) ==
  LET odd == uw.bufDatTran /\ o.disMsyn
  IN  [o |-> o, l |-> l, fault |-> k.fault, odd |-> odd, cancel |-> odd \/ k.fault,
       done |-> Transfer(k.cycle, o.bus, l.ba, SsOut(uw, o, unibusData), k.mmu),
       pswLow |-> k.cycle /\ LoadPswLow(l.ba, o.bus)]

\* The first half of kd11ea_ustep.
BusHalf(uw) ==
  LET Checked(o, l) == BusCycle(uw, o, l, AccessCheck(uw, o, l))
      Addressed(o) == Checked(o, LoadBa(uw, o))
  IN  Addressed(Operands(uw))

\* Mutant of InitPulse: INIT lasts as long as the RESET.
InitHeld(d54, given) == d54.startReset

\* RESET: INIT is a pulse, at the first micro-cycle that decodes it.
InitPulse(d54, given) == d54.startReset /\ ~given

\* Miscellaneous control, and what an aborted transfer leaves of it.  d54 is
\* E54 before the cycle.
MiscControl(uw, h, d54, d87) ==
  LET aborted == h.cancel \/ ~h.done.ok
      setBe   == h.odd \/ ~h.done.ok
      dbe     == setBe /\ d87.enabDbe
      misc    == IF aborted THEN NOP ELSE uw.misc
      loadIr  == misc = LOAD_IR
      ss      == SsOut(uw, h.o, h.done.data)
  IN  [misc |-> misc, aborted |-> aborted, setBe |-> setBe, dbe |-> dbe, loadIr |-> loadIr,
       ss |-> ss,
       ir |-> IF loadIr THEN h.done.data ELSE IF dbe THEN 0 ELSE ir,
       servIr |-> servIr /\ ~loadIr /\ ~dbe,
       psw |-> CASE misc = LOAD_PSW -> LoadPsw(uw, d54, h.done.psw, h.done.data)
                 [] misc = LOAD_CC ->
                      LoadCc(uw, h.pswLow, h.done.psw, h.o.a, h.o.b, h.o.alu.out, ss)
                 [] OTHER -> h.done.psw,
       stov |-> stov \/ /\ misc = ENAB_STOV /\ stovEn /\ Bit(psw, 15) = 0
                        /\ h.o.slot = 9 /\ h.o.alu.out < 256]

\* The next address (compute_next_mpc and ir_decode_entry): zero after an abort.
NextAddress(uw, h, x, taken) ==
  LET branch == Or(Or(uw.next, BranchBits(uw, x.ir, h.o.a, h.o.alu)),
                   IF uw.misc = BUT_DEST THEN DestEntry(x.ir) ELSE 0)
      next   == IF x.aborted THEN 0 ELSE Or(branch, Flag(taken))
  IN  IF irValid THEN Or(next, DecodeEntry(x.ir, x.psw)) ELSE next

\* E62, enabled by the AUX CONTROL of the next micro-word.
ShiftControl(next, alu, byte) ==
  IF Microword[next].aux /\ Sop(ir)
  THEN E62(ir, bReg % 2, psw % 2, Bit(alu.out, IF byte THEN 7 ELSE 15)) ELSE E62Off

\* The shift registers B and BX; a service loads its vector into B.
BregUpdate(h, x, svc, d62, d87, byte) ==
  LET taken == svc.do \in {"trap", "interrupt"}
      inB  == <<Bit(bReg, 15), d62.serial, 0, Bit(bxReg, 15)>>[d87.shiftMux + 1]
      inBx == IF d87.bxMode = 2 THEN bReg % 2
              ELSE <<h.o.alu.cout, ovx, 1, 0>>[d87.shiftMux + 1]
      load == IF taken THEN svc.vector ELSE x.ss
  IN  [b |-> IF taken THEN svc.vector
             ELSE ShiftRegister(Logic(AND, d87.bMode, d62.bModeMask), bReg, load, inB,
                                IF byte THEN d62.serial ELSE Bit(bReg, 8)),
       bx |-> ShiftRegister(d87.bxMode, bxReg, load, inBx, Bit(bxReg, 8)),
       rotCbit |-> d62.rotC]

\* The second half: what the cycle leaves, with x from MiscControl.
Leaves(uw, h, x, svc, mpc1, shift, d54, d87) ==
  LET done    == h.done
      taken   == svc.do \in {"trap", "interrupt"}
      dest    == SpaResolve(uw, uw.spaDst, x.ir, x.psw, h.l.ba)
      stovEn1 == IF svc.stovServ THEN ~stovEn ELSE uw.butService \/ stovEn
      pulse   == InitPulse(d54, resetInst)
  IN  [mpc |-> mpc1,
       sp |-> IF uw.spaDst = SPA_RBA \/ x.aborted THEN sp
              ELSE [sp EXCEPT ![dest] =
                      IF h.o.e80.disableUpper THEN (@ - (@ % 256)) + (x.ss % 256) ELSE x.ss],
       ir |-> x.ir,
       servIr |-> x.servIr \/ (uw.butService /\ svc.do # "halt"),
       irValid |-> x.loadIr,
       ba |-> h.l.ba,
       vba |-> h.l.vba,
       unibusData |-> IF svc.do = "interrupt" THEN svc.vector ELSE done.data,
       psw |-> x.psw,
       mem |-> done.mem,
       count |-> CASE x.misc = LOAD_COUNT -> x.ss % 64
                   [] x.misc = CLK_COUNT -> ClockCount(count)
                   [] OTHER -> count,
       ovx |-> IF x.loadIr THEN 0
               ELSE IF d87.enabOvx /\ Bit(bReg, 15) # Bit(bReg, 14) THEN 1 ELSE ovx,
       irCode |-> IF x.loadIr THEN LoadedIrCode(x.ir, Bit(psw, 15))
                  ELSE IF taken THEN 0 ELSE irCode,
       haltRqst |-> IF x.loadIr THEN E53Enabled(x.ir) /\ E53(x.ir, Bit(psw, 15)).haltRqst
                    ELSE (x.dbe \/ haltRqst) /\ ~taken,
       busError |-> (busError \/ x.setBe) /\ ~taken,
       stovEn |-> stovEn1,
       stov |-> x.stov /\ stovEn1,
       mmuKte |-> (mmuKte \/ h.fault) /\ svc.do # "trap",
       mmu |-> LET m == IF x.loadIr THEN MmuFetch(done.mmu, sp[8]) ELSE done.mmu
               IN  IF pulse THEN [m EXCEPT !.sr0 = 0] ELSE m,
       bReg |-> shift.b, bxReg |-> shift.bx, rotCbit |-> shift.rotCbit,
       resetInst |-> d54.startReset,
       halted |-> x.dbe \/ svc.do = "halt",
       intc |-> IF svc.do = "interrupt"
                THEN SwapOut(intc, FirstGrantable(intc, Slice(x.psw, 7, 5)))
                ELSE IF pulse THEN <<>> ELSE intc]

Cycle(uw, h, d54, d87) ==
  LET byte == E68(ir).byte
      Shifted(x, svc, next) ==
        Leaves(uw, h, x, svc, next,
               BregUpdate(h, x, svc, ShiftControl(next, h.o.alu, byte), d87, byte), d54, d87)
      Served(x, svc) ==
        Shifted(x, svc, NextAddress(uw, h, x, svc.do \in {"trap", "interrupt"}))
      Controlled(x) == Served(x, Service(uw, x.ir, x.servIr, x.psw, x.stov))
  IN  Controlled(MiscControl(uw, h, d54, d87))

\* kd11ea_ustep
Ustep ==
  /\ ~halted
  /\ \E uw \in {Microword[mpc]} : \E h \in {BusHalf(uw)} :
     \E c \in {Cycle(uw, h, E54(Pins(ir, servIr), Bit(psw, 15)), E87Rom[uw.bbx])} :
       /\ mpc' = c.mpc /\ sp' = c.sp
       /\ ir' = c.ir /\ servIr' = c.servIr /\ irValid' = c.irValid /\ irCode' = c.irCode
       /\ bReg' = c.bReg /\ bxReg' = c.bxReg /\ rotCbit' = c.rotCbit
       /\ count' = c.count /\ ovx' = c.ovx
       /\ ba' = c.ba /\ vba' = c.vba /\ unibusData' = c.unibusData /\ mem' = c.mem
       /\ psw' = c.psw /\ mmu' = c.mmu
       /\ haltRqst' = c.haltRqst /\ busError' = c.busError /\ mmuKte' = c.mmuKte
       /\ stov' = c.stov /\ stovEn' = c.stovEn
       /\ resetInst' = c.resetInst /\ halted' = c.halted /\ intc' = c.intc
=============================================================================
