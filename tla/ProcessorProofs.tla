--------------------------- MODULE ProcessorProofs ---------------------------
(***************************************************************************)
(* Proofs about the processor, for every program, memory and registers.    *)
(***************************************************************************)
EXTENDS MCProcessor, IntQueueProofs, SequenceTheorems

\* What a micro-cycle leaves in the memory management, the controller's queue
\* and the registers around them, from its first half h, its miscellaneous
\* control x and its service svc.
Leaving(uw, h, d54, d87, x, svc) ==
  /\ h = BusHalf(uw)
  /\ x = MiscControl(uw, h, d54, d87)
  /\ svc = Service(uw, x.ir, x.servIr, x.psw, x.stov)
  /\ svc.do \in {"trap", "interrupt"} => bReg' = svc.vector
  /\ ba' = h.l.ba
  /\ resetInst' = d54.startReset
  /\ intc' = (IF svc.do = "interrupt"
              THEN SwapOut(intc, FirstGrantable(intc, Slice(x.psw, 7, 5)))
              ELSE IF InitPulse(d54, resetInst) THEN <<>> ELSE intc)
  /\ mmu' = (LET m == IF x.loadIr THEN MmuFetch(h.done.mmu, sp[8]) ELSE h.done.mmu
             IN  IF InitPulse(d54, resetInst) THEN [m EXCEPT !.sr0 = 0] ELSE m)

\* Every micro-cycle is made of these parts.
LEMMA CycleParts ==
  ASSUME Ustep
  PROVE  \E uw, h, d54, d87, x, svc : Leaving(uw, h, d54, d87, x, svc)
<1>1. PICK uw \in {Microword[mpc]} : \E h \in {BusHalf(uw)} :
        \E c \in {Cycle(uw, h, E54(Pins(ir, servIr), Bit(psw, 15)), E87Rom[uw.bbx])} :
          ba' = c.ba /\ mmu' = c.mmu /\ bReg' = c.bReg /\ resetInst' = c.resetInst /\ intc' = c.intc
  BY DEF Ustep
<1> DEFINE h == BusHalf(uw)
           d54 == E54(Pins(ir, servIr), Bit(psw, 15))
           d87 == E87Rom[uw.bbx]
           byte == E68(ir).byte
           x == MiscControl(uw, h, d54, d87)
           svc == Service(uw, x.ir, x.servIr, x.psw, x.stov)
           next == NextAddress(uw, h, x, svc.do \in {"trap", "interrupt"})
           shift == BregUpdate(h, x, svc, ShiftControl(next, h.o.alu, byte), d87, byte)
           c == Leaves(uw, h, x, svc, next, shift, d54, d87)
<1>2. c = Cycle(uw, h, d54, d87)
  BY DEF Cycle
<1>3. ba' = c.ba /\ mmu' = c.mmu /\ bReg' = c.bReg /\ resetInst' = c.resetInst /\ intc' = c.intc
  BY <1>1, <1>2
<1>4. svc.do \in {"trap", "interrupt"} => shift.b = svc.vector
  BY DEF BregUpdate
<1> HIDE DEF h, d54, d87, x, svc, next, shift
<1>5. /\ c.ba = h.l.ba /\ c.bReg = shift.b /\ c.resetInst = d54.startReset
      /\ c.intc = (IF svc.do = "interrupt"
                   THEN SwapOut(intc, FirstGrantable(intc, Slice(x.psw, 7, 5)))
                   ELSE IF InitPulse(d54, resetInst) THEN <<>> ELSE intc)
      /\ c.mmu = (LET m == IF x.loadIr THEN MmuFetch(h.done.mmu, sp[8]) ELSE h.done.mmu
                  IN  IF InitPulse(d54, resetInst) THEN [m EXCEPT !.sr0 = 0] ELSE m)
  BY DEF Leaves
<1>6. h = BusHalf(uw) /\ x = MiscControl(uw, h, d54, d87)
      /\ svc = Service(uw, x.ir, x.servIr, x.psw, x.stov)
  BY DEF h, x, svc
<1> HIDE DEF c
<1>7. Leaving(uw, h, d54, d87, x, svc)
  BY <1>3, <1>4, <1>5, <1>6 DEF Leaving
<1> QED BY <1>7

-----------------------------------------------------------------------------
(* Requests *)

\* Powered on, with whatever program in memory and whatever in the registers,
\* and whatever devices request: the programs that are run are some of these.
Requested ==
  /\ \E v : intc' = Request(intc, v)
  /\ UNCHANGED <<bReg, ba, mmu, resetInst>>

\* The memory management unit has its registers.
HasRegisters(m) ==
  \E S : m \in [par : S, pdr : S, sr0 : S, sr2 : S, page : S, mode : S]

\* The request queue is an array.
IsQueue(q) == q \in Seq(Pending(q))

Processor ==
  /\ HasRegisters(mmu) /\ IsQueue(intc)
  /\ [][Ustep \/ Requested]_<<bReg, ba, mmu, resetInst, intc>>

\* A service that grants finds the request it takes out.
LEMMA ServiceGrants ==
  ASSUME IsQueue(intc), NEW uw, NEW i, NEW serv, NEW ps, NEW st,
         Service(uw, i, serv, ps, st).do = "interrupt"
  PROVE  LET g == FirstGrantable(intc, Slice(ps, 7, 5))
         IN  g \in DOMAIN intc /\ Service(uw, i, serv, ps, st).vector = intc[g]
<1> DEFINE pri == Slice(ps, 7, 5)
           g == FirstGrantable(intc, pri)
           e51 == TrapToService(i, serv, ps, st)
<1>1. Service(uw, i, serv, ps, st) =
        CASE ~uw.butService -> [do |-> "none", vector |-> 0, stovServ |-> FALSE]
          [] uw.butService /\ ~e51.enabGrants ->
               [do |-> "trap", vector |-> ServiceVector(e51, mmuKte), stovServ |-> e51.stovServ]
          [] uw.butService /\ e51.enabGrants /\ haltRqst ->
               [do |-> "halt", vector |-> 0, stovServ |-> e51.stovServ]
          [] uw.butService /\ e51.enabGrants /\ ~haltRqst /\ Grantable(intc, pri) # {} ->
               [do |-> "interrupt", vector |-> intc[g], stovServ |-> e51.stovServ]
          [] OTHER -> [do |-> "none", vector |-> 0, stovServ |-> e51.stovServ]
  BY DEF Service
<1> HIDE DEF pri, g, e51
<1>2. Grantable(intc, pri) # {} /\ Service(uw, i, serv, ps, st).vector = intc[g]
  BY <1>1
<1>3. g \in Grantable(intc, pri)
  BY <1>2, FirstGrantableFacts DEF IsQueue, g
<1>4. g \in DOMAIN intc
  BY <1>3 DEF Grantable
<1> QED BY <1>2, <1>4 DEF g, pri

\* What a step takes from the queue it gives to the microprogram in B, or the
\* step is the beginning of INIT.
LEMMA QueueStep ==
  ASSUME IsQueue(intc), Ustep \/ Requested
  PROVE  /\ IsQueue(intc')
         /\ \A v \in Pending(intc) \ Pending(intc') :
              bReg' = v \/ (resetInst' /\ ~resetInst)
<1> DEFINE S == Pending(intc)
<1>1. intc \in Seq(S)
  BY DEF IsQueue
<1>2. CASE Requested
  <2>1. PICK v : intc' = Request(intc, v)
    BY <1>2 DEF Requested
  <2>2. CASE intc' = intc
    BY <2>2
  <2>3. CASE intc' = Append(intc, v)
    <3>1. intc' \in Seq(S \cup {v})
      BY <1>1, <2>3
    <3>2. Len(intc) \in Nat /\ DOMAIN intc = 1..Len(intc) /\ DOMAIN intc' = 1..(Len(intc) + 1)
          /\ \A i \in 1..Len(intc) : intc'[i] = intc[i]
      BY <1>1, <2>3
    <3>3. \A w \in Pending(intc) : w \in Pending(intc')
      BY <3>2 DEF Pending
    <3>4. IsQueue(intc')
      BY <3>1, QueueOfPending DEF IsQueue
    <3> QED BY <3>3, <3>4
  <2> QED BY <2>1, <2>2, <2>3 DEF Request
<1>3. CASE Ustep
  <2>1. PICK uw, h, d54, d87, x, svc : Leaving(uw, h, d54, d87, x, svc)
    BY <1>3, CycleParts
  <2>2. CASE svc.do = "interrupt"
    <3> DEFINE g == FirstGrantable(intc, Slice(x.psw, 7, 5))
    <3>1. g \in DOMAIN intc /\ svc.vector = intc[g]
      BY <2>1, <2>2, ServiceGrants DEF Leaving
    <3>2. intc' = SwapOut(intc, g) /\ bReg' = svc.vector
      BY <2>1, <2>2 DEF Leaving
    <3> HIDE DEF g
    <3>3. intc' \in Seq(S) /\ \A v \in Pending(intc) : v # intc[g] => v \in Pending(intc')
      BY <1>1, <3>1, <3>2, SwapOutKeeps
    <3> QED BY <3>1, <3>2, <3>3, QueueOfPending DEF IsQueue
  <2>3. CASE svc.do # "interrupt" /\ InitPulse(d54, resetInst)
    <3>1. intc' = <<>> /\ resetInst' /\ ~resetInst
      BY <2>1, <2>3 DEF Leaving, InitPulse
    <3>2. intc' \in Seq(S)
      BY <3>1
    <3> QED BY <3>1, <3>2, QueueOfPending DEF IsQueue
  <2>4. CASE svc.do # "interrupt" /\ ~InitPulse(d54, resetInst)
    <3>1. intc' = intc
      BY <2>1, <2>4 DEF Leaving
    <3> QED BY <3>1
  <2> QED BY <2>2, <2>3, <2>4
<1> QED BY <1>2, <1>3

-----------------------------------------------------------------------------
(* The registers of the memory management unit *)

\* Relocating a reference keeps a fault that SR0 holds, and SR2.
LEMMA TranslateKeeps ==
  ASSUME NEW m, HasRegisters(m), NEW va, NEW mode, NEW bus, NEW relocate
  PROVE  LET n == Translate(m, va, mode, bus, relocate).mmu
         IN  HasRegisters(n) /\ n.sr2 = m.sr2 /\ (~NoFault(m.sr0) => n.sr0 = m.sr0)
<1>1. PICK S : m \in [par : S, pdr : S, sr0 : S, sr2 : S, page : S, mode : S]
  BY DEF HasRegisters
<1>2. CASE relocate
  <2> DEFINE pg    == Slice(va, 15, 13)
             index == pg + (IF mode = 3 THEN 8 ELSE 0)
             block == Slice(va, 12, 6)
             seen  == IF NoFault(m.sr0) THEN Reference(m.sr0, mode, pg) ELSE m.sr0
             fault == IF bus = MAP THEN 0 ELSE AccessFaults(m.pdr[index], block, mode, bus)
             new   == IF fault # 0 /\ NoFault(seen) THEN seen + fault ELSE seen
             n     == [m EXCEPT !.sr0 = new, !.page = index, !.mode = mode]
             T     == S \cup {new, index, mode}
  <2>1. Translate(m, va, mode, bus, relocate).mmu = n
    BY <1>2 DEF Translate, Relocate
  <2>2. ~NoFault(m.sr0) => new = m.sr0
    OBVIOUS
  <2> HIDE DEF index, new
  <2>3. n \in [par : T, pdr : T, sr0 : T, sr2 : T, page : T, mode : T]
        /\ n.sr0 = new /\ n.sr2 = m.sr2
    BY <1>1
  <2> HIDE DEF n, T
  <2> QED BY <2>1, <2>2, <2>3 DEF HasRegisters
<1>3. CASE ~relocate
  <2> DEFINE n == [m EXCEPT !.page = -1]
             T == S \cup {-1}
  <2>1. Translate(m, va, mode, bus, relocate).mmu = n
    BY <1>3 DEF Translate
  <2>2. n \in [par : T, pdr : T, sr0 : T, sr2 : T, page : T, mode : T]
        /\ n.sr0 = m.sr0 /\ n.sr2 = m.sr2
    BY <1>1
  <2> HIDE DEF n, T
  <2> QED BY <2>1, <2>2 DEF HasRegisters
<1> QED BY <1>2, <1>3

\* The weights of the bits.
LEMMA Weights ==
  /\ 2^0 = 1 /\ 2^1 = 2 /\ 2^2 = 4 /\ 2^3 = 8 /\ 2^4 = 16 /\ 2^5 = 32 /\ 2^6 = 64
  /\ 2^7 = 128 /\ 2^8 = 256 /\ 2^9 = 512 /\ 2^10 = 1024 /\ 2^11 = 2048
  /\ 2^12 = 4096 /\ 2^17 = 131072
OBVIOUS

\* Six pins of a word.
LEMMA SixPins ==
  ASSUME NEW w, NEW a, NEW b, NEW c, NEW d, NEW e, NEW f
  PROVE  Gather(w, <<a, b, c, d, e, f>>) =
           1 * Bit(w, a) + 2 * Bit(w, b) + 4 * Bit(w, c) + 8 * Bit(w, d) + 16 * Bit(w, e)
           + 32 * Bit(w, f) + 0 + 0 + 0
<1> DEFINE pins == <<a, b, c, d, e, f>>
           bits == [n \in 1..Len(pins) |-> Bit(w, pins[n])]
<1>1. Len(pins) = 6
  OBVIOUS
<1>2. bits = [n \in 1..6 |-> Bit(w, pins[n])]
  BY <1>1
<1>3. Len(bits) = 6
  BY <1>2
<1>4. /\ bits[1] = Bit(w, a) /\ bits[2] = Bit(w, b) /\ bits[3] = Bit(w, c)
      /\ bits[4] = Bit(w, d) /\ bits[5] = Bit(w, e) /\ bits[6] = Bit(w, f)
  BY <1>2
<1>5. Gather(w, pins) = Pack(bits)
  BY DEF Gather
<1> HIDE DEF bits
<1>6. Pack(bits) = 2^0 * bits[1] + 2^1 * bits[2] + 2^2 * bits[3] + 2^3 * bits[4] + 2^4 * bits[5]
                   + 2^5 * bits[6] + 0 + 0 + 0
  BY <1>3 DEF Pack
<1> QED BY <1>4, <1>5, <1>6, Weights

\* Five pins of a word.
LEMMA FivePins ==
  ASSUME NEW w, NEW a, NEW b, NEW c, NEW d, NEW e
  PROVE  Gather(w, <<a, b, c, d, e>>) =
           1 * Bit(w, a) + 2 * Bit(w, b) + 4 * Bit(w, c) + 8 * Bit(w, d) + 16 * Bit(w, e)
           + 0 + 0 + 0 + 0
<1> DEFINE pins == <<a, b, c, d, e>>
           bits == [n \in 1..Len(pins) |-> Bit(w, pins[n])]
<1>1. Len(pins) = 5
  OBVIOUS
<1>2. bits = [n \in 1..5 |-> Bit(w, pins[n])]
  BY <1>1
<1>3. Len(bits) = 5
  BY <1>2
<1>4. /\ bits[1] = Bit(w, a) /\ bits[2] = Bit(w, b) /\ bits[3] = Bit(w, c)
      /\ bits[4] = Bit(w, d) /\ bits[5] = Bit(w, e)
  BY <1>2
<1>5. Gather(w, pins) = Pack(bits)
  BY DEF Gather
<1> HIDE DEF bits
<1>6. Pack(bits) = 2^0 * bits[1] + 2^1 * bits[2] + 2^2 * bits[3] + 2^3 * bits[4] + 2^4 * bits[5]
                   + 0 + 0 + 0 + 0
  BY <1>3 DEF Pack
<1> QED BY <1>4, <1>5, <1>6, Weights

\* A bit of a number.
LEMMA BitOf ==
  ASSUME NEW w \in Nat
  PROVE  /\ Bit(w, 0) = w % 2 /\ Bit(w, 1) = (w \div 2) % 2 /\ Bit(w, 2) = (w \div 4) % 2
         /\ Bit(w, 3) = (w \div 8) % 2 /\ Bit(w, 4) = (w \div 16) % 2
         /\ Bit(w, 5) = (w \div 32) % 2 /\ Bit(w, 6) = (w \div 64) % 2
         /\ Bit(w, 7) = (w \div 128) % 2 /\ Bit(w, 8) = (w \div 256) % 2
         /\ Bit(w, 9) = (w \div 512) % 2 /\ Bit(w, 11) = (w \div 2048) % 2
  BY Weights DEF Bit

\* The pins that decode the general registers' addresses are all high.
LEMMA AllHigh ==
  ASSUME NEW a \in Nat, GeneralRegs(a)
  PROVE  Bit(a, 6) = 1 /\ Bit(a, 11) = 1
<1>1. Gather(a, <<4, 5, 6, 8, 9, 11>>) =
           1 * Bit(a, 4) + 2 * Bit(a, 5) + 4 * Bit(a, 6) + 8 * Bit(a, 8) + 16 * Bit(a, 9)
           + 32 * Bit(a, 11) + 0 + 0 + 0
  BY SixPins
<1>2. /\ Bit(a, 4) \in 0..1 /\ Bit(a, 5) \in 0..1 /\ Bit(a, 6) \in 0..1 /\ Bit(a, 8) \in 0..1
      /\ Bit(a, 9) \in 0..1 /\ Bit(a, 11) \in 0..1
  <2>1. Bit(a, 4) \in 0..1
    BY Weights DEF Bit
  <2>2. Bit(a, 5) \in 0..1
    BY Weights DEF Bit
  <2>3. Bit(a, 6) \in 0..1
    BY Weights DEF Bit
  <2>4. Bit(a, 8) \in 0..1
    BY Weights DEF Bit
  <2>5. Bit(a, 9) \in 0..1
    BY Weights DEF Bit
  <2>6. Bit(a, 11) \in 0..1
    BY Weights DEF Bit
  <2> QED BY <2>1, <2>2, <2>3, <2>4, <2>5, <2>6
<1>3. Gather(a, <<4, 5, 6, 8, 9, 11>>) = 63
  BY DEF GeneralRegs
<1> QED BY <1>1, <1>2, <1>3

\* The places of KTE75 that a write between SR0 and the user's descriptors looks
\* at have both of SR0's strobes high.
LEMMA Quiet ==
  ASSUME NEW c0 \in 0..1, NEW g \in {6, 22, 7}
  PROVE  Slice(Nibble(KTE75Image, 2 * g + (64 * c0 + 128)), 1, 0) = 3
<1>1. /\ 16^0 = 1 /\ 16^1 = 16 /\ 16^2 = 256 /\ 16^3 = 4096 /\ 16^4 = 65536
      /\ 16^5 = 1048576 /\ 16^6 = 16777216
  OBVIOUS
<1> DEFINE at == 2 * g + (64 * c0 + 128)
<1>2. at \in {140, 204, 172, 236, 142, 206}
  OBVIOUS
<1> HIDE DEF at
<1>3. Nibble(KTE75Image, at) % 4 = 3 /\ Nibble(KTE75Image, at) \in Nat
  <2>1. CASE at = 140
    BY <1>1, <2>1 DEF Nibble, KTE75Image
  <2>2. CASE at = 204
    BY <1>1, <2>2 DEF Nibble, KTE75Image
  <2>3. CASE at = 172
    BY <1>1, <2>3 DEF Nibble, KTE75Image
  <2>4. CASE at = 236
    BY <1>1, <2>4 DEF Nibble, KTE75Image
  <2>5. CASE at = 142
    BY <1>1, <2>5 DEF Nibble, KTE75Image
  <2>6. CASE at = 206
    BY <1>1, <2>6 DEF Nibble, KTE75Image
  <2> QED BY <1>2, <2>1, <2>2, <2>3, <2>4, <2>5, <2>6
<1> DEFINE d == Nibble(KTE75Image, at)
<1> HIDE DEF d
<1>4. Slice(d, 1, 0) = 3
  <2>1. d % 4 = 3 /\ d \in Nat
    BY <1>3 DEF d
  <2>2. 1 - 0 + 1 = 2
    OBVIOUS
  <2> QED BY <2>1, <2>2, Weights DEF Slice
<1> QED BY <1>4 DEF d, at

\* Of the addresses that a write to the unit may have, SR0's strobes answer to
\* SR0's own.
LEMMA Sr0Decode ==
  ASSUME NEW a, MmuRegister(a), NEW c0 \in 0..1,
         Slice(E74E75(KTE75Image, a, 1, c0, 0), 1, 0) # 3
  PROVE  a \in {SR0Addr, SR0Addr + 1}
<1>1. a \in Nat
  BY DEF MmuRegister
<1>2. IoPage(a) /\ GeneralRegs(a)
      /\ E74E75(KTE75Image, a, 1, c0, 0) =
           Nibble(KTE75Image, 0 + 2 * Gather(a, <<1, 2, 3, 7, 0>>) + (64 * c0 + 128 * 1))
  <2>1. Slice(15, 1, 0) = 3
    BY Weights DEF Slice
  <2> QED BY <2>1 DEF E74E75
<1>3. (a \div 64) % 2 = 1 /\ (a \div 2048) % 2 = 1
  BY <1>1, <1>2, AllHigh, BitOf
<1>4. a \in 262010..262014
  BY <1>1, <1>3 DEF MmuRegister
<1>5. ASSUME a \in 262012..262014 PROVE FALSE
  <2>1. Gather(a, <<1, 2, 3, 7, 0>>) =
          1 * Bit(a, 1) + 2 * Bit(a, 2) + 4 * Bit(a, 3) + 8 * Bit(a, 7) + 16 * Bit(a, 0)
          + 0 + 0 + 0 + 0
    BY FivePins
  <2>2. /\ Bit(a, 0) = a % 2 /\ Bit(a, 1) = (a \div 2) % 2 /\ Bit(a, 2) = (a \div 4) % 2
        /\ Bit(a, 3) = (a \div 8) % 2 /\ Bit(a, 7) = (a \div 128) % 2
    BY <1>1, BitOf
  <2> DEFINE g == Gather(a, <<1, 2, 3, 7, 0>>)
  <2>3. g \in {6, 22, 7}
    <3>1. CASE a = 262012
      BY <2>1, <2>2, <3>1
    <3>2. CASE a = 262013
      BY <2>1, <2>2, <3>2
    <3>3. CASE a = 262014
      BY <2>1, <2>2, <3>3
    <3> QED BY <1>5, <3>1, <3>2, <3>3
  <2> HIDE DEF g
  <2>4. 0 + 2 * g + (64 * c0 + 128 * 1) = 2 * g + (64 * c0 + 128)
    BY <2>3
  <2>5. Slice(Nibble(KTE75Image, 2 * g + (64 * c0 + 128)), 1, 0) = 3
    BY <2>3, Quiet
  <2> QED BY <1>2, <2>4, <2>5 DEF g
<1> QED BY <1>4, <1>5 DEF SR0Addr

\* A write to a register of the unit changes SR0 at SR0's address only, and SR2
\* never.
LEMMA WriteKeeps ==
  ASSUME NEW m, HasRegisters(m), NEW a, MmuRegister(a), NEW data, NEW c0 \in 0..1
  PROVE  LET n == MmuWrite(m, a, data, c0)
         IN  /\ HasRegisters(n) /\ n.sr2 = m.sr2
             /\ n.sr0 # m.sr0 => a \in {SR0Addr, SR0Addr + 1}
<1>1. PICK S : m \in [par : S, pdr : S, sr0 : S, sr2 : S, page : S, mode : S]
  BY DEF HasRegisters
<1>2. ASSUME NEW new PROVE LET n == [m EXCEPT !.sr0 = new]
                           IN  HasRegisters(n) /\ n.sr2 = m.sr2
  <2> DEFINE n == [m EXCEPT !.sr0 = new]
             T == S \cup {new}
  <2>1. n \in [par : T, pdr : T, sr0 : T, sr2 : T, page : T, mode : T] /\ n.sr2 = m.sr2
    BY <1>1
  <2> HIDE DEF n, T
  <2> QED BY <2>1 DEF HasRegisters, n
<1>3. ASSUME NEW new PROVE LET n == [m EXCEPT !.par = new]
                           IN  HasRegisters(n) /\ n.sr2 = m.sr2 /\ n.sr0 = m.sr0
  <2> DEFINE n == [m EXCEPT !.par = new]
             T == S \cup {new}
  <2>1. n \in [par : T, pdr : T, sr0 : T, sr2 : T, page : T, mode : T]
        /\ n.sr2 = m.sr2 /\ n.sr0 = m.sr0
    BY <1>1
  <2> HIDE DEF n, T
  <2> QED BY <2>1 DEF HasRegisters, n
<1>4. ASSUME NEW new PROVE LET n == [m EXCEPT !.pdr = new]
                           IN  HasRegisters(n) /\ n.sr2 = m.sr2 /\ n.sr0 = m.sr0
  <2> DEFINE n == [m EXCEPT !.pdr = new]
             T == S \cup {new}
  <2>1. n \in [par : T, pdr : T, sr0 : T, sr2 : T, page : T, mode : T]
        /\ n.sr2 = m.sr2 /\ n.sr0 = m.sr0
    BY <1>1
  <2> HIDE DEF n, T
  <2> QED BY <2>1 DEF HasRegisters, n
<1> DEFINE n == MmuWrite(m, a, data, c0)
<1>5. \/ \E new : n = [m EXCEPT !.par = new]
      \/ \E new : n = [m EXCEPT !.pdr = new]
      \/ /\ Slice(E74E75(KTE75Image, a, 1, c0, 0), 1, 0) # 3
         /\ \E new : n = [m EXCEPT !.sr0 = new]
      \/ n = m
  <2> DEFINE d77 == E76E77(KTE77Image, a, 1, c0)
             d75 == E74E75(KTE75Image, a, 1, c0, 0)
             i == AprIndex(a)
             par == Lanes(m.par[i], data, Bit(d77, 2), Bit(d77, 3))
             pdr == Logic(AND, Lanes(m.pdr[i], data, Bit(d77, 0), Bit(d77, 1)), \h7F0E)
             sr0 == Logic(AND, m.sr0, \h1EFE)
                    + Logic(AND, Lanes(m.sr0, data, Bit(d75, 0), Bit(d75, 1)), \hE101)
  <2>1. n = IF Slice(d77, 3, 2) # 3 THEN [m EXCEPT !.par[i] = par % 4096]
            ELSE IF Slice(d77, 1, 0) # 3 THEN [m EXCEPT !.pdr[i] = pdr]
            ELSE IF Slice(d75, 1, 0) # 3 THEN [m EXCEPT !.sr0 = sr0]
            ELSE m
    BY DEF MmuWrite
  <2> HIDE DEF n, d77, d75, i, par, pdr, sr0
  <2>2. /\ [m EXCEPT !.par[i] = par % 4096] = [m EXCEPT !.par = [m.par EXCEPT ![i] = par % 4096]]
        /\ [m EXCEPT !.pdr[i] = pdr] = [m EXCEPT !.pdr = [m.pdr EXCEPT ![i] = pdr]]
    OBVIOUS
  <2> DEFINE Par(new) == [m EXCEPT !.par = new]
             Pdr(new) == [m EXCEPT !.pdr = new]
             Sr0(new) == [m EXCEPT !.sr0 = new]
  <2>3. n = IF Slice(d77, 3, 2) # 3 THEN Par([m.par EXCEPT ![i] = par % 4096])
            ELSE IF Slice(d77, 1, 0) # 3 THEN Pdr([m.pdr EXCEPT ![i] = pdr])
            ELSE IF Slice(d75, 1, 0) # 3 THEN Sr0(sr0)
            ELSE m
    BY <2>1, <2>2, Zenon
  <2> HIDE DEF Par, Pdr, Sr0
  <2>4. \/ \E new : n = Par(new)
        \/ \E new : n = Pdr(new)
        \/ Slice(d75, 1, 0) # 3 /\ \E new : n = Sr0(new)
        \/ n = m
    BY <2>3
  <2> QED BY <2>4 DEF d75, Par, Pdr, Sr0
<1> HIDE DEF n
<1>6. CASE \E new : n = [m EXCEPT !.par = new]
  BY <1>3, <1>6 DEF n
<1>7. CASE \E new : n = [m EXCEPT !.pdr = new]
  BY <1>4, <1>7 DEF n
<1>8. CASE /\ Slice(E74E75(KTE75Image, a, 1, c0, 0), 1, 0) # 3
           /\ \E new : n = [m EXCEPT !.sr0 = new]
  BY <1>2, <1>8, Sr0Decode DEF n
<1>9. CASE n = m
  BY <1>9 DEF n
<1> QED BY <1>5, <1>6, <1>7, <1>8, <1>9

\* The W bit is in the page's descriptor.
LEMMA SetWKeeps ==
  ASSUME NEW m, HasRegisters(m), NEW a, NEW byte
  PROVE  LET n == SetW(m, a, byte)
         IN  HasRegisters(n) /\ n.sr0 = m.sr0 /\ n.sr2 = m.sr2
<1>1. PICK S : m \in [par : S, pdr : S, sr0 : S, sr2 : S, page : S, mode : S]
  BY DEF HasRegisters
<1> DEFINE new == [m.pdr EXCEPT ![m.page] = Logic(OR, @, PDR_W)]
           n == [m EXCEPT !.pdr = new]
           T == S \cup {new}
<1>2. [m EXCEPT !.pdr[m.page] = Logic(OR, @, PDR_W)] = n
  OBVIOUS
<1> HIDE DEF new
<1>3. n \in [par : T, pdr : T, sr0 : T, sr2 : T, page : T, mode : T]
      /\ n.sr0 = m.sr0 /\ n.sr2 = m.sr2
  BY <1>1
<1> HIDE DEF n, T
<1>4. SetW(m, a, byte) = n \/ SetW(m, a, byte) = m
  BY <1>2 DEF SetW
<1> QED BY <1>3, <1>4 DEF HasRegisters

\* A bus cycle changes SR0 at SR0's address only, and SR2 never.
LEMMA TransferKeeps ==
  ASSUME NEW cycle, NEW bus, NEW a \in Nat, NEW ss, NEW m, HasRegisters(m)
  PROVE  LET n == Transfer(cycle, bus, a, ss, m).mmu
         IN  /\ HasRegisters(n) /\ n.sr2 = m.sr2
             /\ n.sr0 # m.sr0 => a \in {SR0Addr, SR0Addr + 1}
<1> DEFINE n    == Transfer(cycle, bus, a, ss, m).mmu
           byte == bus = DATOB
           even == a - (a % 2)
           at   == IF byte THEN a ELSE even
           w    == BusWrite(a, ss, byte, m)
           reg  == MmuWrite(m, at, ss, Flag(byte))
<1>1. \/ n = m
      \/ w.ok /\ n = SetW(w.mmu, a, byte)
      \/ n = w.mmu
  BY DEF Transfer
<1>2. w.mmu = m \/ (MmuRegister(at) /\ w.mmu = reg)
  BY DEF BusWrite
<1>3. Flag(byte) \in 0..1
  BY DEF Flag
<1>4. at \in {SR0Addr, SR0Addr + 1} => a \in {SR0Addr, SR0Addr + 1}
  <2>1. a % 2 \in 0..1 /\ even = 2 * (a \div 2) /\ a \div 2 \in Nat
    OBVIOUS
  <2> HIDE DEF byte
  <2> QED BY <2>1 DEF SR0Addr
<1> HIDE DEF n, w, at, even, byte
<1>5. /\ HasRegisters(w.mmu) /\ w.mmu.sr2 = m.sr2
      /\ w.mmu.sr0 # m.sr0 => a \in {SR0Addr, SR0Addr + 1}
  <2>1. CASE w.mmu = m
    BY <2>1
  <2>2. CASE MmuRegister(at) /\ w.mmu = reg
    <3>1. /\ HasRegisters(reg) /\ reg.sr2 = m.sr2
          /\ reg.sr0 # m.sr0 => at \in {SR0Addr, SR0Addr + 1}
      BY <1>3, <2>2, WriteKeeps
    <3> QED BY <1>4, <2>2, <3>1
  <2> QED BY <1>2, <2>1, <2>2
<1>6. CASE n = m
  BY <1>6 DEF n
<1>7. CASE n = w.mmu
  BY <1>5, <1>7 DEF n
<1>8. CASE n = SetW(w.mmu, a, byte)
  <2>1. HasRegisters(n) /\ n.sr0 = w.mmu.sr0 /\ n.sr2 = w.mmu.sr2
    BY <1>5, <1>8, SetWKeeps
  <2> QED BY <1>5, <2>1 DEF n
<1> QED BY <1>1, <1>6, <1>7, <1>8

\* The first half of a cycle: a reference, its check and its bus cycle.
LEMMA HalfKeeps ==
  ASSUME HasRegisters(mmu), NEW uw, BusHalf(uw).l.ba \in Nat
  PROVE  LET h == BusHalf(uw)
         IN  /\ HasRegisters(h.done.mmu) /\ h.done.mmu.sr2 = mmu.sr2
             /\ ~NoFault(mmu.sr0) /\ h.done.mmu.sr0 # mmu.sr0 => h.l.ba \in {SR0Addr, SR0Addr + 1}
<1> DEFINE h == BusHalf(uw)
           o == Operands(uw)
           l == LoadBa(uw, o)
           k == AccessCheck(uw, o, l)
           ss == SsOut(uw, o, unibusData)
           n == Transfer(k.cycle, o.bus, l.ba, ss, k.mmu).mmu
<1>1. h = BusCycle(uw, o, l, k)
  BY DEF BusHalf
<1> HIDE DEF o, l, k, ss
<1>2. h.l = l /\ h.done.mmu = n
  BY <1>1 DEF BusCycle, ss
<1>3. HasRegisters(l.mmu) /\ l.mmu.sr2 = mmu.sr2 /\ (~NoFault(mmu.sr0) => l.mmu.sr0 = mmu.sr0)
  <2> DEFINE mapped == Translate(mmu, o.a, ReferenceMode(uw), MAP, RelocateH(uw))
  <2>1. l.mmu = mapped.mmu \/ l.mmu = mmu
    BY DEF LoadBa, l
  <2>2. HasRegisters(mapped.mmu) /\ mapped.mmu.sr2 = mmu.sr2
        /\ (~NoFault(mmu.sr0) => mapped.mmu.sr0 = mmu.sr0)
    BY TranslateKeeps
  <2> HIDE DEF mapped
  <2> QED BY <2>1, <2>2
<1>4. HasRegisters(k.mmu) /\ k.mmu.sr2 = mmu.sr2 /\ (~NoFault(mmu.sr0) => k.mmu.sr0 = mmu.sr0)
  <2> DEFINE lm == l.mmu
             on == TRUE
             check == Translate(lm, l.vba, lm.mode, o.bus, on)
  <2>1. k.mmu = check.mmu \/ k.mmu = lm
    BY DEF AccessCheck, Translate, k
  <2>2. HasRegisters(lm) /\ lm.sr2 = mmu.sr2 /\ (~NoFault(mmu.sr0) => lm.sr0 = mmu.sr0)
    BY <1>3
  <2> HIDE DEF lm, on
  <2>3. HasRegisters(check.mmu) /\ check.mmu.sr2 = lm.sr2
        /\ (~NoFault(lm.sr0) => check.mmu.sr0 = lm.sr0)
    BY <2>2, TranslateKeeps
  <2> HIDE DEF check
  <2> QED BY <2>1, <2>2, <2>3
<1>5. l.ba \in Nat
  BY <1>2
<1> HIDE DEF h
<1>6. /\ HasRegisters(n) /\ n.sr2 = k.mmu.sr2
      /\ n.sr0 # k.mmu.sr0 => l.ba \in {SR0Addr, SR0Addr + 1}
  BY <1>4, <1>5, TransferKeeps
<1> HIDE DEF n
<1> QED BY <1>2, <1>4, <1>6 DEF h

\* A micro-cycle keeps the registers of the memory management unit, and an
\* abort that SR0 and SR2 hold, but at SR0's address or in INIT.
LEMMA FrozenStep ==
  ASSUME HasRegisters(mmu), ba' \in Nat, Ustep \/ Requested
  PROVE  /\ HasRegisters(mmu')
         /\ <<mmu.sr0, mmu.sr2>>' # <<mmu.sr0, mmu.sr2>> /\ ~NoFault(mmu.sr0)
            => ba' \in {SR0Addr, SR0Addr + 1} \/ (resetInst' /\ ~resetInst)
<1>1. CASE Requested
  BY <1>1 DEF Requested
<1>2. CASE Ustep
  <2>1. PICK uw, h, d54, d87, x, svc : Leaving(uw, h, d54, d87, x, svc)
    BY <1>2, CycleParts
  <2> DEFINE d == h.done.mmu
             m == IF x.loadIr THEN MmuFetch(d, sp[8]) ELSE d
  <2>2. h = BusHalf(uw) /\ ba' = h.l.ba /\ resetInst' = d54.startReset
        /\ mmu' = (IF InitPulse(d54, resetInst) THEN [m EXCEPT !.sr0 = 0] ELSE m)
    BY <2>1 DEF Leaving
  <2>3. /\ HasRegisters(d) /\ d.sr2 = mmu.sr2
        /\ ~NoFault(mmu.sr0) /\ d.sr0 # mmu.sr0 => ba' \in {SR0Addr, SR0Addr + 1}
    BY <2>2, HalfKeeps
  <2>4. /\ HasRegisters(m) /\ m.sr0 = d.sr0
        /\ ~NoFault(d.sr0) => m.sr2 = d.sr2
    <3> HIDE DEF d
    <3>1. PICK S : d \in [par : S, pdr : S, sr0 : S, sr2 : S, page : S, mode : S]
      BY <2>3 DEF HasRegisters
    <3> DEFINE pc == sp[8]
               n  == [d EXCEPT !.sr2 = pc]
               T  == S \cup {pc}
    <3>2. m = d \/ (NoFault(d.sr0) /\ m = n)
      BY DEF MmuFetch
    <3> HIDE DEF pc, m
    <3>3. n \in [par : T, pdr : T, sr0 : T, sr2 : T, page : T, mode : T] /\ n.sr0 = d.sr0
      BY <3>1
    <3> HIDE DEF n, T
    <3> QED BY <2>3, <3>2, <3>3 DEF HasRegisters
  <2> HIDE DEF m, d
  <2>5. CASE InitPulse(d54, resetInst)
    <3>1. PICK S : m \in [par : S, pdr : S, sr0 : S, sr2 : S, page : S, mode : S]
      BY <2>4 DEF HasRegisters
    <3> DEFINE T == S \cup {0}
    <3>2. mmu' \in [par : T, pdr : T, sr0 : T, sr2 : T, page : T, mode : T]
      BY <2>2, <2>5, <3>1
    <3>3. resetInst' /\ ~resetInst
      BY <2>2, <2>5 DEF InitPulse
    <3> HIDE DEF T
    <3> QED BY <3>2, <3>3 DEF HasRegisters
  <2>6. CASE ~InitPulse(d54, resetInst)
    <3>1. mmu' = m
      BY <2>2, <2>6
    <3> QED BY <2>3, <2>4, <3>1
  <2> QED BY <2>5, <2>6
<1> QED BY <1>1, <1>2

-----------------------------------------------------------------------------
(* The processor of the runs is one of these. *)

\* The programs start with an empty queue and with the memory management
\* initialised or mapped; a step of theirs is a micro-cycle or a request.
LEMMA Included == Spec => Processor
<1> DEFINE kept == <<bReg, ba, mmu, resetInst, intc>>
<1>1. HasRegisters(MmuInit)
  <2> DEFINE S == {MmuInit.par, MmuInit.pdr, 0}
  <2>1. MmuInit \in [par : S, pdr : S, sr0 : S, sr2 : S, page : S, mode : S]
    BY DEF MmuInit
  <2> HIDE DEF S
  <2> QED BY <2>1 DEF HasRegisters
<1>2. \A io : HasRegisters(Mapping(io))
  <2> TAKE io
  <2> DEFINE m == Mapping(io)
             S == {m.par, m.pdr, m.sr0, m.sr2, m.page, m.mode}
  <2>1. m \in [par : S, pdr : S, sr0 : S, sr2 : S, page : S, mode : S]
    BY DEF Mapping
  <2> HIDE DEF S
  <2> QED BY <2>1 DEF HasRegisters
<1>3. Init => HasRegisters(mmu) /\ IsQueue(intc)
  <2> SUFFICES ASSUME Init PROVE HasRegisters(mmu) /\ IsQueue(intc)
    OBVIOUS
  <2>1. mmu = MmuInit \/ \E io : mmu = Mapping(io)
    BY DEF Init
  <2>2. intc = <<>>
    BY DEF Init, Ready
  <2>3. IsQueue(intc)
    BY <2>2 DEF IsQueue
  <2> QED BY <1>1, <1>2, <2>1, <2>3
<1>4. [Next]_mvars => [Ustep \/ Requested]_kept
  <2>1. Step => Ustep
    BY DEF Step
  <2>2. Arrive => Requested
    BY DEF Arrive, Requested
  <2>3. UNCHANGED mvars => UNCHANGED kept
    BY DEF mvars, cpuVars
  <2> QED BY <2>1, <2>2, <2>3 DEF Next
<1> QED BY <1>3, <1>4, PTL DEF Spec, Processor

\* Whatever the program, a request that the controller took stays until it is
\* granted or INIT is given, for any number of requests and devices.
THEOREM Survive == Processor => RequestsSurvive
<1>1. IsQueue(intc) /\ [Ustep \/ Requested]_<<bReg, ba, mmu, resetInst, intc>> => IsQueue(intc)'
  BY QueueStep
<1>2. IsQueue(intc) /\ [Ustep \/ Requested]_<<bReg, ba, mmu, resetInst, intc>>
      => [\A v \in Pending(intc) \ Pending(intc') :
            bReg' = v \/ (resetInst' /\ ~resetInst)]_intc
  BY QueueStep
<1> QED BY <1>1, <1>2, PTL DEF Processor, RequestsSurvive

\* So do the requests to the programs of the runs.
THEOREM SurviveHere == Spec => RequestsSurvive
BY Included, Survive, PTL

\* Whatever the program, SR0 and SR2 hold an abort until SR0 is written or INIT
\* is given, as long as the address register holds a number.
LEMMA Frozen == Processor /\ [](ba \in Nat) => FrozenAfterAbort
<1> DEFINE vs == <<bReg, ba, mmu, resetInst, intc>>
<1>1. HasRegisters(mmu) /\ (ba \in Nat)' /\ [Ustep \/ Requested]_vs => HasRegisters(mmu)'
  BY FrozenStep
<1>2. HasRegisters(mmu) /\ (ba \in Nat)' /\ [Ustep \/ Requested]_vs
      => [/\ <<mmu.sr0, mmu.sr2>>' # <<mmu.sr0, mmu.sr2>>
          /\ ~NoFault(mmu.sr0)
          => ba' \in {SR0Addr, SR0Addr + 1} \/ (resetInst' /\ ~resetInst)]_<<mmu.sr0, mmu.sr2>>
  BY FrozenStep
<1> QED BY <1>1, <1>2, PTL DEF Processor, FrozenAfterAbort

-----------------------------------------------------------------------------
(* The widths of bits, slices and ROMs *)

\* A table is its function.
LEMMA Tabled == ASSUME NEW f PROVE Table(f) = f
BY DEF Table

\* The weights of bits are positive.
LEMMA Powers ==
  ASSUME NEW n \in 0..17
  PROVE  2^n \in Nat \ {0}
<1>0. CASE n = 0
  BY <1>0
<1>1. CASE n = 1
  BY <1>1
<1>2. CASE n = 2
  BY <1>2
<1>3. CASE n = 3
  BY <1>3
<1>4. CASE n = 4
  BY <1>4
<1>5. CASE n = 5
  BY <1>5
<1>6. CASE n = 6
  BY <1>6
<1>7. CASE n = 7
  BY <1>7
<1>8. CASE n = 8
  BY <1>8
<1>9. CASE n = 9
  BY <1>9
<1>10. CASE n = 10
  BY <1>10
<1>11. CASE n = 11
  BY <1>11
<1>12. CASE n = 12
  BY <1>12
<1>13. CASE n = 13
  BY <1>13
<1>14. CASE n = 14
  BY <1>14
<1>15. CASE n = 15
  BY <1>15
<1>16. CASE n = 16
  BY <1>16
<1>17. CASE n = 17
  BY <1>17
<1> QED BY <1>0, <1>1, <1>2, <1>3, <1>4, <1>5, <1>6, <1>7, <1>8, <1>9, <1>10, <1>11, <1>12, <1>13,
           <1>14, <1>15, <1>16, <1>17

\* A bit of a number is zero or one.
LEMMA Binary ==
  ASSUME NEW w \in Int, NEW n \in 0..17
  PROVE  Bit(w, n) \in 0..1
<1> DEFINE k == 2^n
<1>1. k \in Nat \ {0}
  BY Powers
<1> HIDE DEF k
<1>2. w \div k \in Int
  BY <1>1
<1> QED BY <1>2 DEF Bit, k

\* A number of k bits.
HasBits(k, n) ==
  /\ k = 1 => n \in 0..1
  /\ k = 2 => n \in 0..3
  /\ k = 3 => n \in 0..7
  /\ k = 4 => n \in 0..15
  /\ k = 5 => n \in 0..31
  /\ k = 6 => n \in 0..63
  /\ k = 7 => n \in 0..127
  /\ k = 8 => n \in 0..255
  /\ k = 9 => n \in 0..511

\* The width of packed bits.
LEMMA Packed ==
  ASSUME NEW bits, NEW k \in 1..9, Len(bits) = k, \A i \in 1..k : bits[i] \in 0..1
  PROVE  HasBits(k, Pack(bits))
<1> DEFINE At(n) == IF n > Len(bits) THEN 0 ELSE 2^(n - 1) * bits[n]
           v == [n \in 1..9 |-> IF n > k THEN 0 ELSE bits[n]]
<1>1. v \in [1..9 -> 0..1] /\ \A n \in (k + 1)..9 : v[n] = 0
  OBVIOUS
<1>2. /\ 2^(1 - 1) = 1 /\ 2^(2 - 1) = 2 /\ 2^(3 - 1) = 4 /\ 2^(4 - 1) = 8 /\ 2^(5 - 1) = 16
      /\ 2^(6 - 1) = 32 /\ 2^(7 - 1) = 64 /\ 2^(8 - 1) = 128 /\ 2^(9 - 1) = 256
  OBVIOUS
<1>3. \A n \in 1..9, p \in Nat : p = 2^(n - 1) => At(n) = p * v[n]
  OBVIOUS
<1>4. Pack(bits) = At(1) + At(2) + At(3) + At(4) + At(5) + At(6) + At(7) + At(8) + At(9)
  BY DEF Pack
<1> HIDE DEF At, v
<1>5. /\ At(1) = 1 * v[1] /\ At(2) = 2 * v[2] /\ At(3) = 4 * v[3] /\ At(4) = 8 * v[4]
      /\ At(5) = 16 * v[5] /\ At(6) = 32 * v[6] /\ At(7) = 64 * v[7] /\ At(8) = 128 * v[8]
      /\ At(9) = 256 * v[9]
  BY <1>2, <1>3
<1> DEFINE a == v[1]  b == v[2]  c == v[3]  d == v[4]  e == v[5]  f == v[6]  g == v[7]  h == v[8]
           i == v[9]  s == Pack(bits)
<1>6. /\ a \in 0..1 /\ b \in 0..1 /\ c \in 0..1 /\ d \in 0..1 /\ e \in 0..1 /\ f \in 0..1
      /\ g \in 0..1 /\ h \in 0..1 /\ i \in 0..1
      /\ (k < 2 => b = 0) /\ (k < 3 => c = 0) /\ (k < 4 => d = 0) /\ (k < 5 => e = 0)
      /\ (k < 6 => f = 0) /\ (k < 7 => g = 0) /\ (k < 8 => h = 0) /\ (k < 9 => i = 0)
  BY <1>1
<1>7. s = 1 * a + 2 * b + 4 * c + 8 * d + 16 * e + 32 * f + 64 * g + 128 * h + 256 * i
  BY <1>4, <1>5
<1> HIDE DEF a, b, c, d, e, f, g, h, i, s
<1>8. HasBits(k, s)
  BY <1>6, <1>7 DEF HasBits
<1> QED BY <1>8 DEF s

\* The width of gathered bits.
LEMMA Gathered ==
  ASSUME NEW w \in Int, NEW k \in 1..9, NEW pins, Len(pins) = k, \A i \in 1..k : pins[i] \in 0..17
  PROVE  HasBits(k, Gather(w, pins))
<1> DEFINE bits == [n \in 1..k |-> Bit(w, pins[n])]
<1>1. bits = [n \in 1..Len(pins) |-> Bit(w, pins[n])]
  OBVIOUS
<1>2. Len(bits) = k
  OBVIOUS
<1>3. \A i \in 1..k : bits[i] \in 0..1
  BY Binary
<1> HIDE DEF bits
<1>4. Gather(w, pins) = Pack(bits)
  BY <1>1 DEF Gather
<1>5. HasBits(k, Pack(bits))
  BY <1>2, <1>3, Packed, Zenon
<1> QED BY <1>4, <1>5

\* The weights of nibbles are positive.
LEMMA NibblePowers ==
  ASSUME NEW m \in 0..6
  PROVE  16^m \in Nat \ {0}
<1>0. CASE m = 0
  BY <1>0
<1>1. CASE m = 1
  BY <1>1
<1>2. CASE m = 2
  BY <1>2
<1>3. CASE m = 3
  BY <1>3
<1>4. CASE m = 4
  BY <1>4
<1>5. CASE m = 5
  BY <1>5
<1>6. CASE m = 6
  BY <1>6
<1> QED BY <1>0, <1>1, <1>2, <1>3, <1>4, <1>5, <1>6

\* An entry of a four-bit ROM has four bits.
LEMMA Nibbles ==
  ASSUME NEW n \in Nat, NEW rom, \A i \in 1..n : rom[i] \in Nat, NEW a \in 0..(7 * n - 1)
  PROVE  Nibble(rom, a) \in 0..15
<1> DEFINE e == rom[a \div 7 + 1]
           m == 6 - (a % 7)
           k == 16^m
<1>1. a \div 7 + 1 \in 1..n /\ m \in 0..6
  OBVIOUS
<1>2. e \in Nat
  BY <1>1
<1>3. k \in Nat \ {0}
  BY <1>1, NibblePowers
<1> HIDE DEF e, k, m
<1>4. e \div k \in Nat
  BY <1>2, <1>3
<1> QED BY <1>4 DEF Nibble, e, k, m

\* The words of sixteen bits.
W16 == {w \in Nat : w < 65536}

\* An entry of a four-bit ROM has four bits.
LEMMA RomEntries ==
  /\ \A a \in 0..1023 : Nibble(E52Image, a) \in 0..15
  /\ \A a \in 0..255 : Nibble(E53Image, a) \in 0..15
  /\ \A a \in 0..255 : Nibble(E54Image, a) \in 0..15
  /\ \A a \in 0..255 : Nibble(E59Image, a) \in 0..15
  /\ \A a \in 0..255 : Nibble(E60Image, a) \in 0..15
  /\ \A a \in 0..255 : Nibble(E61Image, a) \in 0..15
  /\ \A a \in 0..255 : Nibble(E62Image, a) \in 0..15
  /\ \A a \in 0..255 : Nibble(E63Image, a) \in 0..15
  /\ \A a \in 0..511 : Nibble(E68Image, a) \in 0..15
  /\ \A a \in 0..255 : Nibble(E69Image, a) \in 0..15
  /\ \A a \in 0..511 : Nibble(E70Image, a) \in 0..15
  /\ \A a \in 0..255 : Nibble(E71Image, a) \in 0..15
  /\ \A a \in 0..255 : Nibble(E80Image, a) \in 0..15
  /\ \A a \in 0..255 : Nibble(E107Image, a) \in 0..15
  /\ \A a \in 0..255 : Nibble(KTE74Image, a) \in 0..15
  /\ \A a \in 0..255 : Nibble(KTE75Image, a) \in 0..15
  /\ \A a \in 0..255 : Nibble(KTE76Image, a) \in 0..15
  /\ \A a \in 0..255 : Nibble(KTE77Image, a) \in 0..15
  /\ \A a \in 0..255 : Nibble(KTE83Image, a) \in 0..15
<1>1. \A a \in 0..1023 : Nibble(E52Image, a) \in 0..15
  <2>1. \A i \in 1..147 : E52Image[i] \in Nat
    BY DEF E52Image
  <2> TAKE a \in 0..1023
  <2>2. a \in 0..(7 * 147 - 1)
    OBVIOUS
  <2> QED BY <2>1, <2>2, Nibbles
<1>2. \A a \in 0..255 : Nibble(E53Image, a) \in 0..15
  <2>1. \A i \in 1..37 : E53Image[i] \in Nat
    BY DEF E53Image
  <2> TAKE a \in 0..255
  <2>2. a \in 0..(7 * 37 - 1)
    OBVIOUS
  <2> QED BY <2>1, <2>2, Nibbles
<1>3. \A a \in 0..255 : Nibble(E54Image, a) \in 0..15
  <2>1. \A i \in 1..37 : E54Image[i] \in Nat
    BY DEF E54Image
  <2> TAKE a \in 0..255
  <2>2. a \in 0..(7 * 37 - 1)
    OBVIOUS
  <2> QED BY <2>1, <2>2, Nibbles
<1>4. \A a \in 0..255 : Nibble(E59Image, a) \in 0..15
  <2>1. \A i \in 1..37 : E59Image[i] \in Nat
    BY DEF E59Image
  <2> TAKE a \in 0..255
  <2>2. a \in 0..(7 * 37 - 1)
    OBVIOUS
  <2> QED BY <2>1, <2>2, Nibbles
<1>5. \A a \in 0..255 : Nibble(E60Image, a) \in 0..15
  <2>1. \A i \in 1..37 : E60Image[i] \in Nat
    BY DEF E60Image
  <2> TAKE a \in 0..255
  <2>2. a \in 0..(7 * 37 - 1)
    OBVIOUS
  <2> QED BY <2>1, <2>2, Nibbles
<1>6. \A a \in 0..255 : Nibble(E61Image, a) \in 0..15
  <2>1. \A i \in 1..37 : E61Image[i] \in Nat
    BY DEF E61Image
  <2> TAKE a \in 0..255
  <2>2. a \in 0..(7 * 37 - 1)
    OBVIOUS
  <2> QED BY <2>1, <2>2, Nibbles
<1>7. \A a \in 0..255 : Nibble(E62Image, a) \in 0..15
  <2>1. \A i \in 1..37 : E62Image[i] \in Nat
    BY DEF E62Image
  <2> TAKE a \in 0..255
  <2>2. a \in 0..(7 * 37 - 1)
    OBVIOUS
  <2> QED BY <2>1, <2>2, Nibbles
<1>8. \A a \in 0..255 : Nibble(E63Image, a) \in 0..15
  <2>1. \A i \in 1..37 : E63Image[i] \in Nat
    BY DEF E63Image
  <2> TAKE a \in 0..255
  <2>2. a \in 0..(7 * 37 - 1)
    OBVIOUS
  <2> QED BY <2>1, <2>2, Nibbles
<1>9. \A a \in 0..511 : Nibble(E68Image, a) \in 0..15
  <2>1. \A i \in 1..74 : E68Image[i] \in Nat
    BY DEF E68Image
  <2> TAKE a \in 0..511
  <2>2. a \in 0..(7 * 74 - 1)
    OBVIOUS
  <2> QED BY <2>1, <2>2, Nibbles
<1>10. \A a \in 0..255 : Nibble(E69Image, a) \in 0..15
  <2>1. \A i \in 1..37 : E69Image[i] \in Nat
    BY DEF E69Image
  <2> TAKE a \in 0..255
  <2>2. a \in 0..(7 * 37 - 1)
    OBVIOUS
  <2> QED BY <2>1, <2>2, Nibbles
<1>11. \A a \in 0..511 : Nibble(E70Image, a) \in 0..15
  <2>1. \A i \in 1..74 : E70Image[i] \in Nat
    BY DEF E70Image
  <2> TAKE a \in 0..511
  <2>2. a \in 0..(7 * 74 - 1)
    OBVIOUS
  <2> QED BY <2>1, <2>2, Nibbles
<1>12. \A a \in 0..255 : Nibble(E71Image, a) \in 0..15
  <2>1. \A i \in 1..37 : E71Image[i] \in Nat
    BY DEF E71Image
  <2> TAKE a \in 0..255
  <2>2. a \in 0..(7 * 37 - 1)
    OBVIOUS
  <2> QED BY <2>1, <2>2, Nibbles
<1>13. \A a \in 0..255 : Nibble(E80Image, a) \in 0..15
  <2>1. \A i \in 1..37 : E80Image[i] \in Nat
    BY DEF E80Image
  <2> TAKE a \in 0..255
  <2>2. a \in 0..(7 * 37 - 1)
    OBVIOUS
  <2> QED BY <2>1, <2>2, Nibbles
<1>14. \A a \in 0..255 : Nibble(E107Image, a) \in 0..15
  <2>1. \A i \in 1..37 : E107Image[i] \in Nat
    BY DEF E107Image
  <2> TAKE a \in 0..255
  <2>2. a \in 0..(7 * 37 - 1)
    OBVIOUS
  <2> QED BY <2>1, <2>2, Nibbles
<1>15. \A a \in 0..255 : Nibble(KTE74Image, a) \in 0..15
  <2>1. \A i \in 1..37 : KTE74Image[i] \in Nat
    BY DEF KTE74Image
  <2> TAKE a \in 0..255
  <2>2. a \in 0..(7 * 37 - 1)
    OBVIOUS
  <2> QED BY <2>1, <2>2, Nibbles
<1>16. \A a \in 0..255 : Nibble(KTE75Image, a) \in 0..15
  <2>1. \A i \in 1..37 : KTE75Image[i] \in Nat
    BY DEF KTE75Image
  <2> TAKE a \in 0..255
  <2>2. a \in 0..(7 * 37 - 1)
    OBVIOUS
  <2> QED BY <2>1, <2>2, Nibbles
<1>17. \A a \in 0..255 : Nibble(KTE76Image, a) \in 0..15
  <2>1. \A i \in 1..37 : KTE76Image[i] \in Nat
    BY DEF KTE76Image
  <2> TAKE a \in 0..255
  <2>2. a \in 0..(7 * 37 - 1)
    OBVIOUS
  <2> QED BY <2>1, <2>2, Nibbles
<1>18. \A a \in 0..255 : Nibble(KTE77Image, a) \in 0..15
  <2>1. \A i \in 1..37 : KTE77Image[i] \in Nat
    BY DEF KTE77Image
  <2> TAKE a \in 0..255
  <2>2. a \in 0..(7 * 37 - 1)
    OBVIOUS
  <2> QED BY <2>1, <2>2, Nibbles
<1>19. \A a \in 0..255 : Nibble(KTE83Image, a) \in 0..15
  <2>1. \A i \in 1..37 : KTE83Image[i] \in Nat
    BY DEF KTE83Image
  <2> TAKE a \in 0..255
  <2>2. a \in 0..(7 * 37 - 1)
    OBVIOUS
  <2> QED BY <2>1, <2>2, Nibbles
<1> QED BY <1>1, <1>2, <1>3, <1>4, <1>5, <1>6, <1>7, <1>8, <1>9, <1>10, <1>11, <1>12, <1>13,
           <1>14, <1>15, <1>16, <1>17, <1>18, <1>19

\* An entry of an eight-bit PROM is a number.
LEMMA PromEntries ==
  /\ \A a \in 1..32 : E51Image[a] \in Nat
  /\ \A a \in 1..32 : E74Image[a] \in Nat
  /\ \A a \in 1..32 : E82Image[a] \in Nat
  /\ \A a \in 1..32 : E83Image[a] \in Nat
  /\ \A a \in 1..32 : E87Image[a] \in Nat
  /\ \A a \in 1..32 : E102Image[a] \in Nat
<1>1. \A a \in 1..32 : E51Image[a] \in Nat
  BY DEF E51Image
<1>2. \A a \in 1..32 : E74Image[a] \in Nat
  BY DEF E74Image
<1>3. \A a \in 1..32 : E82Image[a] \in Nat
  BY DEF E82Image
<1>4. \A a \in 1..32 : E83Image[a] \in Nat
  BY DEF E83Image
<1>5. \A a \in 1..32 : E87Image[a] \in Nat
  BY DEF E87Image
<1>6. \A a \in 1..32 : E102Image[a] \in Nat
  BY DEF E102Image
<1> QED BY <1>1, <1>2, <1>3, <1>4, <1>5, <1>6


\* A flag is a bit.
LEMMA Flags == ASSUME NEW c PROVE Flag(c) \in 0..1
BY DEF Flag

\* The width of a slice.
LEMMA Sliced ==
  ASSUME NEW w \in Nat, NEW hi \in 0..17, NEW lo \in 0..17, NEW k \in 1..9, hi - lo + 1 = k
  PROVE  HasBits(k, Slice(w, hi, lo))
<1> DEFINE p == 2^lo
           d == w \div p
           s == Slice(w, hi, lo)
<1>0. d \in Nat
  <2>1. p \in Nat \ {0}
    BY Powers
  <2> HIDE DEF p
  <2> QED BY <2>1
<1> HIDE DEF d
<1>10. s = d % 2^k
  BY DEF Slice, d
<1> HIDE DEF s
<1>1. CASE k = 1
  <2>1. s = d % 2
    BY <1>10, <1>1
  <2>2. s \in 0..1
    BY <1>0, <2>1
  <2> QED BY <1>1, <2>2 DEF HasBits, s
<1>2. CASE k = 2
  <2>1. s = d % 4
    BY <1>10, <1>2
  <2>2. s \in 0..3
    BY <1>0, <2>1
  <2> QED BY <1>2, <2>2 DEF HasBits, s
<1>3. CASE k = 3
  <2>1. s = d % 8
    BY <1>10, <1>3
  <2>2. s \in 0..7
    BY <1>0, <2>1
  <2> QED BY <1>3, <2>2 DEF HasBits, s
<1>4. CASE k = 4
  <2>1. s = d % 16
    BY <1>10, <1>4
  <2>2. s \in 0..15
    BY <1>0, <2>1
  <2> QED BY <1>4, <2>2 DEF HasBits, s
<1>5. CASE k = 5
  <2>1. s = d % 32
    BY <1>10, <1>5
  <2>2. s \in 0..31
    BY <1>0, <2>1
  <2> QED BY <1>5, <2>2 DEF HasBits, s
<1>6. CASE k = 6
  <2>1. s = d % 64
    BY <1>10, <1>6
  <2>2. s \in 0..63
    BY <1>0, <2>1
  <2> QED BY <1>6, <2>2 DEF HasBits, s
<1>7. CASE k = 7
  <2>1. s = d % 128
    BY <1>10, <1>7
  <2>2. s \in 0..127
    BY <1>0, <2>1
  <2> QED BY <1>7, <2>2 DEF HasBits, s
<1>8. CASE k = 8
  <2>1. s = d % 256
    BY <1>10, <1>8
  <2>2. s \in 0..255
    BY <1>0, <2>1
  <2> QED BY <1>8, <2>2 DEF HasBits, s
<1>9. CASE k = 9
  <2>1. s = d % 512
    BY <1>10, <1>9
  <2>2. s \in 0..511
    BY <1>0, <2>1
  <2> QED BY <1>9, <2>2 DEF HasBits, s
<1> QED BY <1>1, <1>2, <1>3, <1>4, <1>5, <1>6, <1>7, <1>8, <1>9

\* The fields of an instruction.
LEMMA Fields ==
  ASSUME NEW i \in W16
  PROVE  SrcMode(i) \in 0..7 /\ DstMode(i) \in 0..7
<1>1. i \in Nat
  BY DEF W16
<1>2. HasBits(3, Slice(i, 11, 9)) /\ HasBits(3, Slice(i, 5, 3))
  BY <1>1, Sliced
<1> QED BY <1>2 DEF SrcMode, DstMode, HasBits

\* The PROMs that decode single operand instructions and the operate group.
LEMMA SingleDecoders ==
  ASSUME NEW i \in W16
  PROVE  /\ E59(i).dest \in BOOLEAN /\ E59(i).irCode \in 0..7
         /\ E60(i) \in 0..15 /\ E63(i) \in 0..15
<1>1. i \in Int
  BY DEF W16
<1> DEFINE z == Flag(DstMode(i) = 0)
           w == Gather(i, <<6, 7, 8, 9, 10, 11, 15>>)
           a == z + 2 * w
           d == Nibble(E59Image, a)
           e == Nibble(E60Image, a)
           p == Gather(i, <<0, 5, 7, 1, 2, 3, 4, 6>>)
           f == Nibble(E63Image, p)
           g == Gather(f, <<3, 2, 1, 0>>)
<1>2. HasBits(7, w) /\ HasBits(8, p)
  BY <1>1, Gathered
<1>3. z \in 0..1
  BY Flags
<1>4. a \in 0..255 /\ p \in 0..255
  <2> HIDE DEF z, w, p
  <2> QED BY <1>2, <1>3 DEF HasBits
<1>5. E59(i) = [dest |-> Bit(d, 0) = 0, irCode |-> 7 - d \div 2] /\ E60(i) = 15 - e
      /\ E63(i) = 15 - g
  BY DEF E59, E60, E63
<1> HIDE DEF a, p
<1>6. d \in 0..15 /\ e \in 0..15 /\ f \in 0..15
  BY <1>4, RomEntries
<1> HIDE DEF d, e, f
<1>7. HasBits(4, g)
  BY <1>6, Gathered
<1> HIDE DEF g
<1> QED BY <1>5, <1>6, <1>7 DEF HasBits

\* The PROMs that decode double operand and extended instructions, traps and
\* HALT.
LEMMA DoubleDecoders ==
  ASSUME NEW i \in W16, NEW butDest, NEW irDecode, NEW user \in 0..1
  PROVE  /\ E69(i, butDest, irDecode).mpc \in 0..3 /\ E70(i, butDest, irDecode).mpc \in 0..7
         /\ E74(i, irDecode).mpc \in 0..31 /\ E53(i, user).irCode \in 0..7
<1>1. i \in Int
  BY DEF W16
<1> DEFINE b == Bit(i, 12)
           z == Flag(DstMode(i) = 0)
           y == Flag(SrcMode(i) = 0)
           c == Flag(irDecode)
           e == Flag(butDest)
           w == Gather(i, <<14, 15, 13>>)
           a == b + 2 * z + 4 * y + 8 * c + 16 * (1 - e) + 32 * w
           g == Gather(i, <<9, 10, 11>>)
           f == Flag(Slice(i, 14, 12) # 7)
           at == g + 8 * c + 16 * f + 1
           h == Gather(i, <<0, 5, 7, 1, 2, 3, 4>>)
           p == h + 128 * user
           d69 == Nibble(E69Image, a)
           q == a + 256
           d70 == Nibble(E70Image, q)
           d74 == E74Image[at]
           g74 == Gather(d74, <<1, 2, 3, 4, 7>>)
           d53 == Nibble(E53Image, p)
<1>2. HasBits(3, w) /\ HasBits(3, g) /\ HasBits(7, h) /\ b \in 0..1
  BY <1>1, Gathered, Binary
<1>3. z \in 0..1 /\ y \in 0..1 /\ c \in 0..1 /\ e \in 0..1 /\ f \in 0..1
  BY Flags
<1>4. a \in 0..255 /\ at \in 1..32 /\ p \in 0..255
  <2> HIDE DEF b, z, y, c, e, f, w, g, h
  <2> QED BY <1>2, <1>3 DEF HasBits
<1>5. /\ E69(i, butDest, irDecode).mpc = 3 - d69 \div 4
      /\ E70(i, butDest, irDecode).mpc = 7 - d70 \div 2
      /\ E74(i, irDecode).mpc = 31 - g74
      /\ E53(i, user).irCode = 7 - d53 \div 2
  BY DEF E69, E70, E74, E53
<1> HIDE DEF a, at, p
<1>6. q \in 0..511 /\ a \in 0..255 /\ p \in 0..255
  BY <1>4
<1> HIDE DEF q
<1>7. d69 \in 0..15
  BY <1>6, RomEntries
<1>8. d70 \in 0..15
  BY <1>6, RomEntries
<1>9. d53 \in 0..15
  BY <1>6, RomEntries
<1>10. d74 \in Int
  BY <1>4, PromEntries
<1>11. HasBits(5, g74)
  <2> HIDE DEF d74
  <2> QED BY <1>10, Gathered
<1> HIDE DEF d69, d70, d53, g74
<1>12. 3 - d69 \div 4 \in 0..3
  BY <1>7
<1>13. 7 - d70 \div 2 \in 0..7
  BY <1>8
<1>14. 7 - d53 \div 2 \in 0..7
  BY <1>9
<1>15. 31 - g74 \in 0..31
  BY <1>11 DEF HasBits
<1> QED BY <1>5, <1>12, <1>13, <1>14, <1>15

\* The PROMs of the condition codes, of shifts and of the function code.
LEMMA ConditionProms ==
  ASSUME NEW i \in W16, NEW r \in 0..1, NEW s \in 0..1, NEW d \in 0..1, NEW q \in 0..1, NEW c \in 0..1
  PROVE  /\ E68(i).ccCode \in 0..7
         /\ \A cc \in 0..7 : E107(r, s, d, q, c, cc).v \in 0..1 /\ E107(r, s, d, q, c, cc).c \in 0..1
<1>1. E68(i).ccCode \in 0..7
  <2> DEFINE p == Gather(i, <<12, 9, 10, 7, 6, 14, 15, 13, 8>>)
             m == Nibble(E68Image, p)
  <2>0. i \in Int
    BY DEF W16
  <2>1. HasBits(9, p)
    BY <2>0, Gathered
  <2>2. E68(i).ccCode = m % 8
    BY DEF E68
  <2> HIDE DEF p
  <2>3. m \in 0..15
    BY <2>1, RomEntries DEF HasBits
  <2> HIDE DEF m
  <2> QED BY <2>2, <2>3
<1>2. ASSUME NEW cc \in 0..7
      PROVE  E107(r, s, d, q, c, cc).v \in 0..1 /\ E107(r, s, d, q, c, cc).c \in 0..1
  <2> DEFINE bits == <<c, q, d, s, r>>
             p == Pack(bits)
             at == cc + 8 * p
             m == Nibble(E107Image, at)
  <2>1. Len(bits) = 5 /\ \A n \in 1..5 : bits[n] \in 0..1
    OBVIOUS
  <2>2. E107(r, s, d, q, c, cc).v = Bit(m, 3) /\ E107(r, s, d, q, c, cc).c = Bit(m, 2)
    BY DEF E107
  <2> HIDE DEF bits
  <2>3. HasBits(5, p)
    BY <2>1, Packed
  <2> HIDE DEF p
  <2>4. at \in 0..255
    BY <2>3 DEF HasBits
  <2> HIDE DEF at
  <2>5. m \in 0..15
    BY <2>4, RomEntries
  <2> HIDE DEF m
  <2> QED BY <2>2, <2>5, Binary
<1> QED BY <1>1, <1>2

\* E62, that fills and restricts the shifts.
LEMMA ShiftProm ==
  ASSUME NEW i \in W16, NEW b \in 0..1, NEW c \in 0..1, NEW n \in 0..1
  PROVE  /\ E62(i, b, c, n).serial \in 0..1 /\ E62(i, b, c, n).bModeMask \in 0..3
         /\ E62(i, b, c, n).rotC \in 0..1
         /\ E62Off.serial \in 0..1 /\ E62Off.bModeMask \in 0..3 /\ E62Off.rotC \in 0..1
<1> DEFINE g == Gather(i, <<9, 6, 7, 8>>)
           f == Bit(i, 10)
           at == f + 2 * c + 4 * b + 8 * n + 16 * g
           d == Nibble(E62Image, at)
           e == E62(i, b, c, n)
<1>0. i \in Int
  BY DEF W16
<1>1. HasBits(4, g) /\ f \in 0..1
  BY <1>0, Gathered, Binary
<1>2. e = [serial |-> Bit(d, 0), bModeMask |-> Slice(d, 2, 1), rotC |-> Bit(d, 3)]
  BY DEF E62
<1> HIDE DEF g, f
<1>3. at \in 0..255
  BY <1>1 DEF HasBits
<1> HIDE DEF at, e
<1>4. d \in 0..15
  BY <1>3, RomEntries
<1> HIDE DEF d
<1>5. Bit(d, 0) \in 0..1 /\ Bit(d, 3) \in 0..1
  BY <1>4, Binary
<1>6. HasBits(2, Slice(d, 2, 1))
  BY <1>4, Sliced
<1>7. e.serial \in 0..1 /\ e.bModeMask \in 0..3 /\ e.rotC \in 0..1
  BY <1>2, <1>5, <1>6 DEF HasBits
<1> QED BY <1>7 DEF e, E62Off

\* The vector of a trap.
LEMMA TrapVector ==
  ASSUME NEW tbit, NEW stv, NEW be, NEW kte, NEW code \in 0..7
  PROVE  ServiceVector(E51(E52(tbit, stv, be, kte, code)), kte) \in W16
<1> DEFINE bits == <<Flag(tbit), Flag(be), Flag(stv), 0, Flag(kte), 0>>
           p == Pack(bits)
           g == Gather(7 - code, <<2, 1, 0>>)
           at == p + 64 * g + 512
           d == Nibble(E52Image, at)
           f == Gather(d, <<3, 2, 1, 0>>)
           m == E51Image[f + 16 + 1]
           v == Gather(m, <<6, 5, 4>>)
           k == Flag(kte)
<1>1. Flag(tbit) \in 0..1 /\ Flag(be) \in 0..1 /\ Flag(stv) \in 0..1 /\ k \in 0..1
  BY Flags
<1>2. Len(bits) = 6 /\ \A n \in 1..6 : bits[n] \in 0..1
  BY <1>1
<1>3. E52(tbit, stv, be, kte, code) = d
  BY DEF E52
<1> HIDE DEF bits
<1>4. HasBits(6, p)
  BY <1>2, Packed
<1>5. 7 - code \in Int
  OBVIOUS
<1>6. HasBits(3, g)
  BY <1>5, Gathered
<1> HIDE DEF p, g
<1>7. at \in 0..1023
  BY <1>4, <1>6 DEF HasBits
<1> HIDE DEF at
<1>8. d \in 0..15
  BY <1>7, RomEntries
<1>9. E51(d).vector = 4 * v
  BY DEF E51
<1> HIDE DEF d
<1>10. HasBits(4, f)
  BY <1>8, Gathered
<1> HIDE DEF f
<1>11. f + 16 + 1 \in 1..32
  BY <1>10 DEF HasBits
<1>12. m \in Nat
  BY <1>11, PromEntries
<1> HIDE DEF m
<1>13. HasBits(3, v)
  BY <1>12, Gathered
<1> HIDE DEF v, k
<1>14. ServiceVector(E51(d), kte) = 4 * v + 160 * k
  BY <1>9 DEF ServiceVector, k
<1>15. v \in 0..7
  BY <1>13 DEF HasBits
<1>16. k \in 0..1
  BY <1>1
<1>17. 4 * v + 160 * k \in W16
  BY <1>15, <1>16 DEF W16
<1>18. E51(E52(tbit, stv, be, kte, code)) = E51(d)
  BY <1>3
<1> QED BY <1>14, <1>17, <1>18

\* The function of the ALU.
LEMMA FunctionProms ==
  ASSUME NEW i \in W16, NEW c \in 0..1, NEW n \in 0..1
  PROVE  E61(i, c, n) \in Int /\ E83(i) \in Int
<1> DEFINE g == Gather(i, <<15, 6, 7, 8, 9, 10>>)
           at == g + 64 * n + 128 * c
           h == Gather(i, <<12, 13, 14, 15>>)
           m == E83Image[2 * h + 1]
           f == Gather(m, <<2, 1, 0, 7>>)
<1>0. i \in Int
  BY DEF W16
<1>1. HasBits(6, g) /\ HasBits(4, h)
  BY <1>0, Gathered
<1>2. E61(i, c, n) = Nibble(E61Image, at) /\ E83(i) = f
  BY DEF E61, E83
<1> HIDE DEF g, h
<1>3. at \in 0..255 /\ 2 * h + 1 \in 1..32
  BY <1>1 DEF HasBits
<1>4. m \in Nat
  BY <1>3, PromEntries
<1> HIDE DEF at, m
<1>5. Nibble(E61Image, at) \in 0..15
  BY <1>3, RomEntries
<1>6. HasBits(4, f)
  BY <1>4, Gathered
<1> QED BY <1>2, <1>5, <1>6 DEF HasBits

\* The controls of the data path that E82, E87 and E102 give.
LEMMA AluFunctions ==
  ASSUME NEW n \in 0..31
  PROVE  LET op == E82Rom[n]
         IN  op.s \in 0..15 /\ op.cin \in 0..1 /\ op.bleg \in 0..3
<1> DEFINE d == E82Image[Gather(n, <<3, 0, 2, 1, 4>>) + 1]
           s == Pack(<<1 - Bit(d, 4), 1 - Bit(d, 3), 1 - Bit(d, 1), 1 - Bit(d, 0)>>)
           c == 1 - Bit(d, 5)
           b == Pack(<<Bit(d, 7), Bit(d, 6)>>)
<1>1. E82Rom[n].s = s /\ E82Rom[n].cin = c /\ E82Rom[n].bleg = b
  <2> DEFINE Row(field) ==
               LET e == E82Image[Gather(field, <<3, 0, 2, 1, 4>>) + 1]
               IN  [s |-> Pack(<<1 - Bit(e, 4), 1 - Bit(e, 3), 1 - Bit(e, 1), 1 - Bit(e, 0)>>),
                    logic |-> Bit(e, 2) = 1, cin |-> 1 - Bit(e, 5),
                    bleg |-> Pack(<<Bit(e, 7), Bit(e, 6)>>)]
  <2>1. E82Rom = Table([field \in 0..31 |-> Row(field)])
    BY DEF E82Rom
  <2>2. Row(n).s = s /\ Row(n).cin = c /\ Row(n).bleg = b
    OBVIOUS
  <2> HIDE DEF Row, s, c, b
  <2>3. E82Rom[n] = Row(n)
    BY <2>1, Tabled
  <2> QED BY <2>2, <2>3
<1>2. HasBits(5, Gather(n, <<3, 0, 2, 1, 4>>))
  BY Gathered
<1>3. Gather(n, <<3, 0, 2, 1, 4>>) + 1 \in 1..32
  BY <1>2 DEF HasBits
<1>4. d \in Nat
  BY <1>3, PromEntries
<1> HIDE DEF d
<1>5. /\ Bit(d, 0) \in 0..1 /\ Bit(d, 1) \in 0..1 /\ Bit(d, 3) \in 0..1 /\ Bit(d, 4) \in 0..1
      /\ Bit(d, 5) \in 0..1 /\ Bit(d, 6) \in 0..1 /\ Bit(d, 7) \in 0..1
  BY <1>4, Binary
<1>6. HasBits(4, s)
  <2> DEFINE bits == <<1 - Bit(d, 4), 1 - Bit(d, 3), 1 - Bit(d, 1), 1 - Bit(d, 0)>>
  <2>1. Len(bits) = 4 /\ \A i \in 1..4 : bits[i] \in 0..1
    BY <1>5
  <2> HIDE DEF bits
  <2>2. HasBits(4, Pack(bits))
    BY <2>1, Packed
  <2> QED BY <2>2 DEF bits
<1>7. HasBits(2, b)
  <2> DEFINE bits == <<Bit(d, 7), Bit(d, 6)>>
  <2>1. Len(bits) = 2 /\ \A i \in 1..2 : bits[i] \in 0..1
    BY <1>5
  <2> HIDE DEF bits
  <2>2. HasBits(2, Pack(bits))
    BY <2>1, Packed
  <2> QED BY <2>2 DEF bits
<1>8. c \in 0..1
  BY <1>5
<1> HIDE DEF s, b, c
<1> QED BY <1>1, <1>6, <1>7, <1>8 DEF HasBits

\* Where the rows of E87 and E102 are.
LEMMA FieldRows ==
  ASSUME NEW n \in 0..15, NEW a \in 0..1
  PROVE  Gather(2 * n + a, <<0, 1, 3, 4, 2>>) + 1 \in 1..32
<1>1. HasBits(5, Gather(2 * n + a, <<0, 1, 3, 4, 2>>))
  BY Gathered
<1> QED BY <1>1 DEF HasBits

\* E87, the control of the shift registers.
LEMMA ShiftControls ==
  ASSUME NEW n \in 0..15
  PROVE  LET d87 == E87Rom[n]
         IN  /\ d87.bMode \in 0..3 /\ d87.bxMode \in 0..3 /\ d87.shiftMux \in 0..3
             /\ d87.enabDbe \in BOOLEAN
<1> DEFINE d == E87Image[Gather(2 * n + 0, <<0, 1, 3, 4, 2>>) + 1]
           bs == <<1 - Bit(d, 0), 1 - Bit(d, 1)>>
           xs == <<Bit(d, 2), Bit(d, 3)>>
           ms == <<Bit(d, 5), Bit(d, 4)>>
<1>1. /\ E87Rom[n].bMode = Pack(bs) /\ E87Rom[n].bxMode = Pack(xs)
      /\ E87Rom[n].shiftMux = Pack(ms) /\ E87Rom[n].enabDbe \in BOOLEAN
  <2> DEFINE Row(field) ==
               LET e == E87Image[Gather(2 * field + 0, <<0, 1, 3, 4, 2>>) + 1]
               IN  [bMode |-> Pack(<<1 - Bit(e, 0), 1 - Bit(e, 1)>>),
                    bxMode |-> Pack(<<Bit(e, 2), Bit(e, 3)>>),
                    shiftMux |-> Pack(<<Bit(e, 5), Bit(e, 4)>>),
                    enabOvx |-> Bit(e, 6) = 0, enabDbe |-> Bit(e, 7) = 0]
  <2>1. E87Rom = Table([field \in 0..15 |-> Row(field)])
    BY DEF E87Rom
  <2>2. /\ Row(n).bMode = Pack(bs) /\ Row(n).bxMode = Pack(xs)
        /\ Row(n).shiftMux = Pack(ms) /\ Row(n).enabDbe \in BOOLEAN
    OBVIOUS
  <2> HIDE DEF Row, bs, xs, ms
  <2>3. E87Rom[n] = Row(n)
    BY <2>1, Tabled
  <2> QED BY <2>2, <2>3
<1>2. d \in Nat
  BY FieldRows, PromEntries
<1> HIDE DEF d
<1>3. /\ Bit(d, 0) \in 0..1 /\ Bit(d, 1) \in 0..1 /\ Bit(d, 2) \in 0..1 /\ Bit(d, 3) \in 0..1
      /\ Bit(d, 4) \in 0..1 /\ Bit(d, 5) \in 0..1
  BY <1>2, Binary
<1>4. /\ Len(bs) = 2 /\ \A i \in 1..2 : bs[i] \in 0..1
      /\ Len(xs) = 2 /\ \A i \in 1..2 : xs[i] \in 0..1
      /\ Len(ms) = 2 /\ \A i \in 1..2 : ms[i] \in 0..1
  BY <1>3
<1> HIDE DEF bs, xs, ms
<1>5. HasBits(2, Pack(bs)) /\ HasBits(2, Pack(xs)) /\ HasBits(2, Pack(ms))
  BY <1>4, Packed
<1> QED BY <1>1, <1>5 DEF HasBits

\* E102, the conditions of a micro-branch.
LEMMA BranchConditions ==
  ASSUME NEW n \in 0..15
  PROVE  LET t == E102Rom[n]
         IN  /\ t.aluCout \in 0..1 /\ t.ccN \in 0..1 /\ t.sp15 \in 0..1 /\ t.bx01 \in 0..1
             /\ t.bx00 \in 0..1 /\ t.count05 \in 0..1 /\ t.ccZ \in 0..1 /\ t.ir09 \in 0..1
<1> DEFINE d == E102Image[Gather(2 * n + 1, <<0, 1, 3, 4, 2>>) + 1]
<1>1. E102Rom[n] = [aluCout |-> Bit(d, 0), ccN |-> Bit(d, 1), sp15 |-> Bit(d, 2),
                    bx01 |-> Bit(d, 3), bx00 |-> Bit(d, 4), count05 |-> Bit(d, 5),
                    ccZ |-> Bit(d, 6), ir09 |-> Bit(d, 7)]
  BY Tabled DEF E102Rom
<1>2. d \in Nat
  BY FieldRows, PromEntries
<1> HIDE DEF d
<1>3. \A i \in 0..7 : Bit(d, i) \in 0..1
  BY <1>2, Binary
<1> QED BY <1>1, <1>3

\* The ROMs of the control store.
LEMMA StoreEntries == \A k \in 1..12 : \A a \in 0..511 : Nibble(Ucode[k], a) \in 0..15
<1> SUFFICES ASSUME NEW k \in 1..12, NEW a \in 0..511 PROVE Nibble(Ucode[k], a) \in 0..15
  OBVIOUS
<1>1. a \in 0..(7 * 74 - 1)
  OBVIOUS
<1>2. CASE k = 1
  <2>1. Ucode[k] = E110Ucode
    BY <1>2 DEF Ucode
  <2>2. \A i \in 1..74 : E110Ucode[i] \in Nat
    BY DEF E110Ucode
  <2> QED BY <1>1, <2>1, <2>2, Nibbles
<1>3. CASE k = 2
  <2>1. Ucode[k] = E109Ucode
    BY <1>3 DEF Ucode
  <2>2. \A i \in 1..74 : E109Ucode[i] \in Nat
    BY DEF E109Ucode
  <2> QED BY <1>1, <2>1, <2>2, Nibbles
<1>4. CASE k = 3
  <2>1. Ucode[k] = E108Ucode
    BY <1>4 DEF Ucode
  <2>2. \A i \in 1..74 : E108Ucode[i] \in Nat
    BY DEF E108Ucode
  <2> QED BY <1>1, <2>1, <2>2, Nibbles
<1>5. CASE k = 4
  <2>1. Ucode[k] = E107Ucode
    BY <1>5 DEF Ucode
  <2>2. \A i \in 1..74 : E107Ucode[i] \in Nat
    BY DEF E107Ucode
  <2> QED BY <1>1, <2>1, <2>2, Nibbles
<1>6. CASE k = 5
  <2>1. Ucode[k] = E106Ucode
    BY <1>6 DEF Ucode
  <2>2. \A i \in 1..74 : E106Ucode[i] \in Nat
    BY DEF E106Ucode
  <2> QED BY <1>1, <2>1, <2>2, Nibbles
<1>7. CASE k = 6
  <2>1. Ucode[k] = E99Ucode
    BY <1>7 DEF Ucode
  <2>2. \A i \in 1..74 : E99Ucode[i] \in Nat
    BY DEF E99Ucode
  <2> QED BY <1>1, <2>1, <2>2, Nibbles
<1>8. CASE k = 7
  <2>1. Ucode[k] = E97Ucode
    BY <1>8 DEF Ucode
  <2>2. \A i \in 1..74 : E97Ucode[i] \in Nat
    BY DEF E97Ucode
  <2> QED BY <1>1, <2>1, <2>2, Nibbles
<1>9. CASE k = 8
  <2>1. Ucode[k] = E98Ucode
    BY <1>9 DEF Ucode
  <2>2. \A i \in 1..74 : E98Ucode[i] \in Nat
    BY DEF E98Ucode
  <2> QED BY <1>1, <2>1, <2>2, Nibbles
<1>10. CASE k = 9
  <2>1. Ucode[k] = E100Ucode
    BY <1>10 DEF Ucode
  <2>2. \A i \in 1..74 : E100Ucode[i] \in Nat
    BY DEF E100Ucode
  <2> QED BY <1>1, <2>1, <2>2, Nibbles
<1>11. CASE k = 10
  <2>1. Ucode[k] = E104Ucode
    BY <1>11 DEF Ucode
  <2>2. \A i \in 1..74 : E104Ucode[i] \in Nat
    BY DEF E104Ucode
  <2> QED BY <1>1, <2>1, <2>2, Nibbles
<1>12. CASE k = 11
  <2>1. Ucode[k] = E103Ucode
    BY <1>12 DEF Ucode
  <2>2. \A i \in 1..74 : E103Ucode[i] \in Nat
    BY DEF E103Ucode
  <2> QED BY <1>1, <2>1, <2>2, Nibbles
<1>13. CASE k = 12
  <2>1. Ucode[k] = E105Ucode
    BY <1>13 DEF Ucode
  <2>2. \A i \in 1..74 : E105Ucode[i] \in Nat
    BY DEF E105Ucode
  <2> QED BY <1>1, <2>1, <2>2, Nibbles
<1> QED BY <1>2, <1>3, <1>4, <1>5, <1>6, <1>7, <1>8, <1>9, <1>10, <1>11, <1>12, <1>13

\* A bit of a micro-word.
LEMMA WordBits ==
  ASSUME NEW at \in 0..511, NEW n \in 0..47
  PROVE  UB(at, n) \in 0..1
<1> DEFINE i == n \div 4
           a == UcodeAddr(at)
           d == Nibble(Ucode[i + 1], a)
           m == IF i = 7 THEN n % 4 ELSE 3 - (n % 4)
<1>1. i + 1 \in 1..12 /\ m \in 0..17
  OBVIOUS
<1>2. HasBits(9, a)
  BY Gathered DEF UcodeAddr
<1> HIDE DEF i, a, m
<1>3. a \in 0..511
  BY <1>2 DEF HasBits
<1>4. d \in 0..15
  BY <1>1, <1>3, StoreEntries
<1> HIDE DEF d
<1>5. Bit(d, m) \in 0..1
  BY <1>1, <1>4, Binary
<1> QED BY <1>5 DEF UB, d, m, a, i

\* The fields of a micro-word have their widths.
LEMMA FieldWidths ==
  ASSUME NEW at \in 0..511, NEW k \in 1..9, NEW hi \in 0..47, NEW lo \in 0..47, hi - lo + 1 = k
  PROVE  HasBits(k, UField(at, hi, lo))
<1> DEFINE bits == [i \in 1..(hi - lo + 1) |-> UB(at, lo + i - 1)]
<1>1. Len(bits) = k /\ \A i \in 1..k : bits[i] = UB(at, lo + i - 1)
  OBVIOUS
<1>2. UField(at, hi, lo) = Pack(bits)
  BY DEF UField
<1> HIDE DEF bits
<1>3. ASSUME NEW i \in 1..k PROVE bits[i] \in 0..1
  <2> DEFINE x == lo + i - 1
  <2>1. x \in 0..47
    OBVIOUS
  <2>2. bits[i] = UB(at, x)
    BY <1>1
  <2> HIDE DEF x
  <2> QED BY <2>1, <2>2, WordBits
<1>4. HasBits(k, Pack(bits))
  BY <1>1, <1>3, Packed
<1> QED BY <1>2, <1>4

\* So have those whose bits are in the reverse order.
LEMMA FieldsReversed ==
  ASSUME NEW at \in 0..511, NEW k \in 1..9, NEW hi \in 0..47, NEW lo \in 0..47, hi - lo + 1 = k
  PROVE  HasBits(k, Ufr(at, hi, lo))
<1> DEFINE bits == [i \in 1..(hi - lo + 1) |-> UB(at, hi - i + 1)]
<1>1. Len(bits) = k /\ \A i \in 1..k : bits[i] = UB(at, hi - i + 1)
  OBVIOUS
<1>2. Ufr(at, hi, lo) = Pack(bits)
  BY DEF Ufr
<1> HIDE DEF bits
<1>3. ASSUME NEW i \in 1..k PROVE bits[i] \in 0..1
  <2> DEFINE x == hi - i + 1
  <2>1. x \in 0..47
    OBVIOUS
  <2>2. bits[i] = UB(at, x)
    BY <1>1
  <2> HIDE DEF x
  <2> QED BY <2>1, <2>2, WordBits
<1>4. HasBits(k, Pack(bits))
  BY <1>1, <1>3, Packed
<1> QED BY <1>2, <1>4

\* A micro-word.
IsMicroword(uw) ==
  /\ uw.next \in 0..511 /\ uw.misc \in 0..7 /\ uw.busCtl \in 0..3
  /\ uw.aluFunc \in 0..31 /\ uw.bbx \in 0..15 /\ uw.ssMux \in 0..3 /\ uw.amuxL \in 0..3
  /\ uw.but \in 0..15 /\ uw.spaSrc \in 0..3 /\ uw.spaDst \in 0..3 /\ uw.romSpa \in 0..15
  /\ uw.butService \in BOOLEAN /\ uw.bufDatTran \in BOOLEAN

\* The microprogram is made of micro-words.
LEMMA Microprogram ==
  ASSUME NEW at \in 0..511
  PROVE  IsMicroword(Microword[at])
<1> DEFINE Row(p) ==
    [next |-> Ufr(p, 8, 0),
     misc |-> Ufr(p, 11, 9),
     bufDatTran |-> UB(p, 12) = 1,
     busCtl |-> Ufr(p, 14, 13),
     enabMaint |-> UB(p, 15) = 1,
     loadBa |-> UB(p, 17) = 1,
     aux |-> UB(p, 18) = 1,
     aluFunc |-> UField(p, 23, 19),
     bbx |-> UField(p, 27, 24),
     ssMux |-> Ufr(p, 29, 28),
     amuxL |-> Ufr(p, 31, 30),
     but |-> UField(p, 35, 32),
     spaSrc |-> Ufr(p, 37, 36),
     spaDst |-> Ufr(p, 39, 38),
     forceRsv1 |-> UB(p, 40) = 0,
     prevMode |-> UB(p, 41) = 0,
     butService |-> UB(p, 42) = 1,
     forceKernel |-> UB(p, 43) = 1,
     romSpa |-> Ufr(p, 47, 44)]
    r == Row(at)
<1>1. Microword = Table([p \in 0..511 |-> Row(p)])
  BY DEF Microword
<1>2. /\ r.next = Ufr(at, 8, 0) /\ r.misc = Ufr(at, 11, 9) /\ r.busCtl = Ufr(at, 14, 13)
      /\ r.aluFunc = UField(at, 23, 19) /\ r.bbx = UField(at, 27, 24)
      /\ r.ssMux = Ufr(at, 29, 28) /\ r.amuxL = Ufr(at, 31, 30) /\ r.but = UField(at, 35, 32)
      /\ r.spaSrc = Ufr(at, 37, 36) /\ r.spaDst = Ufr(at, 39, 38) /\ r.romSpa = Ufr(at, 47, 44)
  OBVIOUS
<1>3. r.butService \in BOOLEAN /\ r.bufDatTran \in BOOLEAN
  OBVIOUS
<1> HIDE DEF Row
<1>4. Microword[at] = r
  BY <1>1, Tabled
<1> HIDE DEF r
<1>5. HasBits(9, Ufr(at, 8, 0))
  <2>1. 9 \in 1..9 /\ 8 \in 0..47 /\ 0 \in 0..47 /\ 8 - 0 + 1 = 9
    OBVIOUS
  <2> QED BY <2>1, FieldsReversed, Zenon
<1>6. HasBits(3, Ufr(at, 11, 9))
  <2>1. 3 \in 1..9 /\ 11 \in 0..47 /\ 9 \in 0..47 /\ 11 - 9 + 1 = 3
    OBVIOUS
  <2> QED BY <2>1, FieldsReversed, Zenon
<1>7. HasBits(2, Ufr(at, 14, 13))
  <2>1. 2 \in 1..9 /\ 14 \in 0..47 /\ 13 \in 0..47 /\ 14 - 13 + 1 = 2
    OBVIOUS
  <2> QED BY <2>1, FieldsReversed, Zenon
<1>8. HasBits(5, UField(at, 23, 19))
  <2>1. 5 \in 1..9 /\ 23 \in 0..47 /\ 19 \in 0..47 /\ 23 - 19 + 1 = 5
    OBVIOUS
  <2> QED BY <2>1, FieldWidths, Zenon
<1>9. HasBits(4, UField(at, 27, 24))
  <2>1. 4 \in 1..9 /\ 27 \in 0..47 /\ 24 \in 0..47 /\ 27 - 24 + 1 = 4
    OBVIOUS
  <2> QED BY <2>1, FieldWidths, Zenon
<1>10. HasBits(2, Ufr(at, 29, 28))
  <2>1. 2 \in 1..9 /\ 29 \in 0..47 /\ 28 \in 0..47 /\ 29 - 28 + 1 = 2
    OBVIOUS
  <2> QED BY <2>1, FieldsReversed, Zenon
<1>11. HasBits(2, Ufr(at, 31, 30))
  <2>1. 2 \in 1..9 /\ 31 \in 0..47 /\ 30 \in 0..47 /\ 31 - 30 + 1 = 2
    OBVIOUS
  <2> QED BY <2>1, FieldsReversed, Zenon
<1>12. HasBits(4, UField(at, 35, 32))
  <2>1. 4 \in 1..9 /\ 35 \in 0..47 /\ 32 \in 0..47 /\ 35 - 32 + 1 = 4
    OBVIOUS
  <2> QED BY <2>1, FieldWidths, Zenon
<1>13. HasBits(2, Ufr(at, 37, 36))
  <2>1. 2 \in 1..9 /\ 37 \in 0..47 /\ 36 \in 0..47 /\ 37 - 36 + 1 = 2
    OBVIOUS
  <2> QED BY <2>1, FieldsReversed, Zenon
<1>14. HasBits(2, Ufr(at, 39, 38))
  <2>1. 2 \in 1..9 /\ 39 \in 0..47 /\ 38 \in 0..47 /\ 39 - 38 + 1 = 2
    OBVIOUS
  <2> QED BY <2>1, FieldsReversed, Zenon
<1>15. HasBits(4, Ufr(at, 47, 44))
  <2>1. 4 \in 1..9 /\ 47 \in 0..47 /\ 44 \in 0..47 /\ 47 - 44 + 1 = 4
    OBVIOUS
  <2> QED BY <2>1, FieldsReversed, Zenon
<1>16. IsMicroword(r)
  BY <1>2, <1>3, <1>5, <1>6, <1>7, <1>8, <1>9, <1>10, <1>11, <1>12, <1>13, <1>14, <1>15 DEF
           HasBits, IsMicroword
<1> QED BY <1>4, <1>16

-----------------------------------------------------------------------------
(* Logic functions of words *)

\* The bits of a nibble of a byte.
LEMMA NibbleBits ==
  ASSUME NEW a \in 0..15, NEW b \in 0..15
  PROVE  \E p, q, r, s \in 0..1 :
           /\ b = p + 2 * q + 4 * r + 8 * s
           /\ Bit(16 * a + b, 0) = p /\ Bit(16 * a + b, 1) = q
           /\ Bit(16 * a + b, 2) = r /\ Bit(16 * a + b, 3) = s
<1> DEFINE w == 16 * a + b
<1>1. PICK p \in 0..1, e \in 0..7 : b = p + 2 * e
  <2>1. b % 2 \in 0..1 /\ b \div 2 \in 0..7 /\ b = (b % 2) + 2 * (b \div 2)
    OBVIOUS
  <2> QED BY <2>1
<1>2. PICK q \in 0..1, f \in 0..3 : e = q + 2 * f
  <2>1. e % 2 \in 0..1 /\ e \div 2 \in 0..3 /\ e = (e % 2) + 2 * (e \div 2)
    OBVIOUS
  <2> QED BY <2>1
<1>3. PICK r \in 0..1, s \in 0..1 : f = r + 2 * s
  <2>1. f % 2 \in 0..1 /\ f \div 2 \in 0..1 /\ f = (f % 2) + 2 * (f \div 2)
    OBVIOUS
  <2> QED BY <2>1
<1>4. w = 16 * a + 8 * s + 4 * r + 2 * q + p
  BY <1>1, <1>2, <1>3
<1>5. w \div 1 = w /\ w % 2 = p
  BY <1>4
<1>6. w \div 2 = 8 * a + 4 * s + 2 * r + q
  BY <1>4
<1>7. w \div 4 = 4 * a + 2 * s + r
  BY <1>4
<1>8. w \div 8 = 2 * a + s
  BY <1>4
<1> HIDE DEF w
<1>9. Bit(w, 0) = p
  BY <1>5, Weights DEF Bit
<1>10. Bit(w, 1) = q
  BY <1>6, Weights DEF Bit
<1>11. Bit(w, 2) = r
  BY <1>7, Weights DEF Bit
<1>12. Bit(w, 3) = s
  BY <1>8, Weights DEF Bit
<1>13. b = p + 2 * q + 4 * r + 8 * s
  BY <1>1, <1>2, <1>3
<1> QED BY <1>9, <1>10, <1>11, <1>12, <1>13 DEF w

\* The nibbles a and b have the bits p to s and i to l, and so has f of them.
BitwiseOf(f, a, b, p, q, r, s, i, j, k, l) ==
  /\ a = p + 2 * q + 4 * r + 8 * s
  /\ b = i + 2 * j + 4 * k + 8 * l
  /\ NibbleTable[f][16 * a + b] =
       Bit(f, 2 * p + i) + 2 * Bit(f, 2 * q + j) + 4 * Bit(f, 2 * r + k) + 8 * Bit(f, 2 * s + l)

\* A logic function of two nibbles is made of that of their bits.
LEMMA NibbleLogic ==
  ASSUME NEW f \in 0..15, NEW a \in 0..15, NEW b \in 0..15
  PROVE  \E p, q, r, s, i, j, k, l \in 0..1 : BitwiseOf(f, a, b, p, q, r, s, i, j, k, l)
<1> DEFINE w == 16 * a + b
           h == w \div 16
           Entry(g, xy) == Pack([n \in 1..4 |-> Bit(g, 2 * Bit(xy \div 16, n - 1) + Bit(xy, n - 1))])
           bits == [n \in 1..4 |-> Bit(f, 2 * Bit(h, n - 1) + Bit(w, n - 1))]
<1>1. w \in 0..255 /\ h = a
  OBVIOUS
<1>2. NibbleTable[f][w] = Pack(bits)
  <2> DEFINE Row(g) == Table([xy \in 0..255 |-> Entry(g, xy)])
  <2>1. NibbleTable = Table([g \in 0..15 |-> Row(g)])
    BY DEF NibbleTable
  <2>2. Row(f) = Table([xy \in 0..255 |-> Entry(f, xy)])
    OBVIOUS
  <2>3. Entry(f, w) = Pack(bits)
    OBVIOUS
  <2> HIDE DEF Row, Entry, bits, w
  <2>4. NibbleTable[f] = Row(f)
    BY <2>1, Tabled
  <2>5. Row(f)[w] = Entry(f, w)
    BY <1>1, <2>2, Tabled
  <2> QED BY <2>3, <2>4, <2>5
<1>3. PICK i, j, k, l \in 0..1 :
        /\ b = i + 2 * j + 4 * k + 8 * l
        /\ Bit(w, 0) = i /\ Bit(w, 1) = j /\ Bit(w, 2) = k /\ Bit(w, 3) = l
  BY NibbleBits
<1>4. PICK p, q, r, s \in 0..1 :
        /\ a = p + 2 * q + 4 * r + 8 * s
        /\ Bit(a, 0) = p /\ Bit(a, 1) = q /\ Bit(a, 2) = r /\ Bit(a, 3) = s
  <2> DEFINE o == 0
  <2>1. o \in 0..15 /\ 16 * o + a = a
    OBVIOUS
  <2> HIDE DEF o
  <2> QED BY <2>1, NibbleBits
<1> HIDE DEF w, h
<1>5. /\ Len(bits) = 4
      /\ bits[1] = Bit(f, 2 * Bit(h, 0) + Bit(w, 0)) /\ bits[2] = Bit(f, 2 * Bit(h, 1) + Bit(w, 1))
      /\ bits[3] = Bit(f, 2 * Bit(h, 2) + Bit(w, 2)) /\ bits[4] = Bit(f, 2 * Bit(h, 3) + Bit(w, 3))
  OBVIOUS
<1> HIDE DEF bits
<1>6. Pack(bits) = 2^0 * bits[1] + 2^1 * bits[2] + 2^2 * bits[3] + 2^3 * bits[4]
                   + 0 + 0 + 0 + 0 + 0
  BY <1>5 DEF Pack
<1>7. \A n \in 0..3 : Bit(f, n) \in 0..1
  BY Binary
<1>8. /\ bits[1] = Bit(f, 2 * p + i) /\ bits[2] = Bit(f, 2 * q + j)
      /\ bits[3] = Bit(f, 2 * r + k) /\ bits[4] = Bit(f, 2 * s + l)
  BY <1>1, <1>3, <1>4, <1>5
<1>9. bits[1] \in 0..1 /\ bits[2] \in 0..1 /\ bits[3] \in 0..1 /\ bits[4] \in 0..1
  BY <1>7, <1>8
<1>10. Pack(bits) = bits[1] + 2 * bits[2] + 4 * bits[3] + 8 * bits[4]
  BY <1>6, <1>9, Weights
<1>11. NibbleTable[f][w] =
         Bit(f, 2 * p + i) + 2 * Bit(f, 2 * q + j) + 4 * Bit(f, 2 * r + k) + 8 * Bit(f, 2 * s + l)
  BY <1>2, <1>8, <1>10
<1>12. BitwiseOf(f, a, b, p, q, r, s, i, j, k, l)
  BY <1>3, <1>4, <1>11 DEF w, BitwiseOf
<1> QED BY <1>12

\* The word w has the nibbles p, q, r and s.
HasNibbles(w, p, q, r, s) ==
  /\ w = p + 16 * q + 256 * r + 4096 * s
  /\ (w \div 1) % 16 = p /\ (w \div 16) % 16 = q
  /\ (w \div 256) % 16 = r /\ (w \div 4096) % 16 = s

\* The nibbles of a word.
LEMMA WordNibbles ==
  ASSUME NEW w \in W16
  PROVE  \E p, q, r, s \in 0..15 : HasNibbles(w, p, q, r, s)
<1>1. PICK p \in 0..15, e \in Nat : w = p + 16 * e /\ e < 4096
  <2>1. w % 16 \in 0..15 /\ w \div 16 \in Nat /\ w = (w % 16) + 16 * (w \div 16)
    BY DEF W16
  <2>2. w \div 16 < 4096
    BY <2>1 DEF W16
  <2> DEFINE u == w % 16
             v == w \div 16
  <2>3. u \in 0..15 /\ v \in Nat /\ w = u + 16 * v /\ v < 4096
    BY <2>1, <2>2
  <2> HIDE DEF u, v
  <2> QED BY <2>3
<1>2. PICK q \in 0..15, f \in 0..255 : e = q + 16 * f
  <2>1. e % 16 \in 0..15 /\ e \div 16 \in 0..255 /\ e = (e % 16) + 16 * (e \div 16)
    BY <1>1
  <2> QED BY <2>1
<1>3. PICK r \in 0..15, s \in 0..15 : f = r + 16 * s
  <2>1. f % 16 \in 0..15 /\ f \div 16 \in 0..15 /\ f = (f % 16) + 16 * (f \div 16)
    OBVIOUS
  <2> QED BY <2>1
<1>4. w = p + 16 * q + 256 * r + 4096 * s
  BY <1>1, <1>2, <1>3
<1>5. w \div 1 = w /\ w % 16 = p
  BY <1>4
<1>6. w \div 16 = 256 * s + 16 * r + q
  BY <1>4
<1>7. w \div 256 = 16 * s + r
  BY <1>4
<1>8. w \div 4096 = s
  BY <1>4
<1>9. (256 * s + 16 * r + q) % 16 = q
  OBVIOUS
<1>10. (16 * s + r) % 16 = r
  OBVIOUS
<1>11. s % 16 = s
  OBVIOUS
<1>12. (w \div 1) % 16 = p /\ (w \div 16) % 16 = q
  BY <1>5, <1>6, <1>9
<1>13. (w \div 256) % 16 = r /\ (w \div 4096) % 16 = s
  BY <1>7, <1>8, <1>10, <1>11
<1>14. HasNibbles(w, p, q, r, s)
  BY <1>4, <1>12, <1>13 DEF HasNibbles
<1>15. p \in 0..15 /\ q \in 0..15 /\ r \in 0..15 /\ s \in 0..15
  OBVIOUS
<1> QED BY <1>14, <1>15, Zenon

\* A logic function of two words is made of that of their nibbles.
LEMMA LogicOfNibbles ==
  ASSUME NEW f, NEW x, NEW y, NEW a, NEW b, NEW c, NEW d, NEW i, NEW j, NEW k, NEW l,
         HasNibbles(x, a, b, c, d), HasNibbles(y, i, j, k, l)
  PROVE  Logic(f, x, y) =
           NibbleTable[f][16 * a + i] * 1 + NibbleTable[f][16 * b + j] * 16
           + NibbleTable[f][16 * c + k] * 256 + NibbleTable[f][16 * d + l] * 4096
BY DEF Logic, HasNibbles

\* A nibble of a logic function is a nibble.
LEMMA NibbleWidth ==
  ASSUME NEW f \in 0..15, NEW a \in 0..15, NEW b \in 0..15
  PROVE  NibbleTable[f][16 * a + b] \in 0..15
<1>1. PICK p, q, r, s, i, j, k, l \in 0..1 : BitwiseOf(f, a, b, p, q, r, s, i, j, k, l)
  BY NibbleLogic
<1>2. /\ Bit(f, 2 * p + i) \in 0..1 /\ Bit(f, 2 * q + j) \in 0..1
      /\ Bit(f, 2 * r + k) \in 0..1 /\ Bit(f, 2 * s + l) \in 0..1
  BY Binary
<1> QED BY <1>1, <1>2 DEF BitwiseOf

\* A logic function of words is a word.
LEMMA LogicWidth ==
  ASSUME NEW f \in 0..15, NEW x \in W16, NEW y \in W16
  PROVE  Logic(f, x, y) \in W16
<1>1. PICK a, b, c, d \in 0..15 : HasNibbles(x, a, b, c, d)
  BY WordNibbles
<1>2. PICK i, j, k, l \in 0..15 : HasNibbles(y, i, j, k, l)
  BY WordNibbles
<1> DEFINE p == NibbleTable[f][16 * a + i]  q == NibbleTable[f][16 * b + j]
           r == NibbleTable[f][16 * c + k]  s == NibbleTable[f][16 * d + l]
<1>3. Logic(f, x, y) = p * 1 + q * 16 + r * 256 + s * 4096
  BY <1>1, <1>2, LogicOfNibbles
<1>4. p \in 0..15 /\ q \in 0..15 /\ r \in 0..15 /\ s \in 0..15
  BY NibbleWidth
<1> HIDE DEF p, q, r, s
<1> QED BY <1>3, <1>4 DEF W16

\* What AND takes from a nibble is no more than the nibble.
LEMMA NibbleAnd ==
  ASSUME NEW a \in 0..15, NEW b \in 0..15
  PROVE  NibbleTable[AND][16 * a + b] \in 0..b
<1> DEFINE f == AND
<1>1. f \in 0..15
  BY DEF AND
<1>2. \A m \in 0..1, n \in 0..1 : Bit(f, 2 * m + n) \in 0..n
  <2>1. /\ Bit(f, 2 * 0 + 0) = 0 /\ Bit(f, 2 * 0 + 1) = 0
        /\ Bit(f, 2 * 1 + 0) = 0 /\ Bit(f, 2 * 1 + 1) = 1
    BY Weights DEF Bit, AND
  <2> HIDE DEF f
  <2> TAKE m \in 0..1, n \in 0..1
  <2>2. CASE m = 0 /\ n = 0
    BY <2>1, <2>2
  <2>3. CASE m = 0 /\ n = 1
    BY <2>1, <2>3
  <2>4. CASE m = 1 /\ n = 0
    BY <2>1, <2>4
  <2>5. CASE m = 1 /\ n = 1
    BY <2>1, <2>5
  <2> QED BY <2>2, <2>3, <2>4, <2>5
<1> HIDE DEF f
<1>3. PICK p, q, r, s, i, j, k, l \in 0..1 : BitwiseOf(f, a, b, p, q, r, s, i, j, k, l)
  BY <1>1, NibbleLogic
<1>4. Bit(f, 2 * p + i) \in 0..i /\ Bit(f, 2 * q + j) \in 0..j
      /\ Bit(f, 2 * r + k) \in 0..k /\ Bit(f, 2 * s + l) \in 0..l
  BY <1>2
<1>5. NibbleTable[f][16 * a + b] \in 0..b
  BY <1>3, <1>4 DEF BitwiseOf
<1> QED BY <1>5 DEF f

\* AND is no more than its mask.
LEMMA AndBelow ==
  ASSUME NEW x \in W16, NEW y \in W16
  PROVE  Logic(AND, x, y) \in 0..y
<1>1. PICK a, b, c, d \in 0..15 : HasNibbles(x, a, b, c, d)
  BY WordNibbles
<1>2. PICK i, j, k, l \in 0..15 : HasNibbles(y, i, j, k, l)
  BY WordNibbles
<1> DEFINE p == NibbleTable[AND][16 * a + i]  q == NibbleTable[AND][16 * b + j]
           r == NibbleTable[AND][16 * c + k]  s == NibbleTable[AND][16 * d + l]
<1>3. Logic(AND, x, y) = p * 1 + q * 16 + r * 256 + s * 4096
  <2> DEFINE f == AND
  <2> HIDE DEF f
  <2>1. Logic(f, x, y) =
          NibbleTable[f][16 * a + i] * 1 + NibbleTable[f][16 * b + j] * 16
          + NibbleTable[f][16 * c + k] * 256 + NibbleTable[f][16 * d + l] * 4096
    BY <1>1, <1>2 DEF Logic, HasNibbles
  <2> QED BY <2>1 DEF f
<1>4. p \in 0..i /\ q \in 0..j /\ r \in 0..k /\ s \in 0..l
  BY NibbleAnd
<1> HIDE DEF p, q, r, s
<1>5. p * 1 + q * 16 + r * 256 + s * 4096 \in 0..(i + 16 * j + 256 * k + 4096 * l)
  BY <1>4
<1> QED BY <1>2, <1>3, <1>5 DEF HasNibbles

\* OR of nibbles has the bits of both and no others.
LEMMA NibbleOr ==
  ASSUME NEW a \in 0..15, NEW b \in 0..15
  PROVE  /\ a = 0 /\ b = 0 => NibbleTable[OR][16 * a + b] = 0
         /\ a \in 0..1 /\ b \in 0..1 => NibbleTable[OR][16 * a + b] \in 0..1
         /\ a \in 0..7 /\ b \in 0..7 => NibbleTable[OR][16 * a + b] \in 0..7
<1> DEFINE f == OR
<1>1. f \in 0..15
  BY DEF OR
<1>2. \A m \in 0..1, n \in 0..1 : Bit(f, 2 * m + n) \in 0..1 /\ (m = 0 /\ n = 0 => Bit(f, 2 * m + n) = 0)
  <2>1. Bit(f, 2 * 0 + 0) = 0
    BY Weights DEF Bit, OR
  <2> HIDE DEF f
  <2> TAKE m \in 0..1, n \in 0..1
  <2>2. 2 * m + n \in 0..17
    OBVIOUS
  <2>3. Bit(f, 2 * m + n) \in 0..1
    BY <1>1, <2>2, Binary
  <2>4. CASE m = 0 /\ n = 0
    BY <2>1, <2>4
  <2> QED BY <2>3, <2>4
<1> HIDE DEF f
<1>3. PICK p, q, r, s, i, j, k, l \in 0..1 : BitwiseOf(f, a, b, p, q, r, s, i, j, k, l)
  BY <1>1, NibbleLogic
<1> DEFINE t == Bit(f, 2 * p + i)  u == Bit(f, 2 * q + j)  v == Bit(f, 2 * r + k)
           w == Bit(f, 2 * s + l)  n == NibbleTable[f][16 * a + b]
<1>4. t \in 0..1 /\ u \in 0..1 /\ v \in 0..1 /\ w \in 0..1
  BY <1>2
<1>5. /\ (p = 0 /\ i = 0 => t = 0) /\ (q = 0 /\ j = 0 => u = 0)
      /\ (r = 0 /\ k = 0 => v = 0) /\ (s = 0 /\ l = 0 => w = 0)
  BY <1>2
<1>6. n = t + 2 * u + 4 * v + 8 * w
  BY <1>3 DEF BitwiseOf
<1> HIDE DEF t, u, v, w, n
<1>7. ASSUME a = 0, b = 0 PROVE n = 0
  <2>1. p = 0 /\ q = 0 /\ r = 0 /\ s = 0
    BY <1>3, <1>7 DEF BitwiseOf
  <2>2. i = 0 /\ j = 0 /\ k = 0 /\ l = 0
    BY <1>3, <1>7 DEF BitwiseOf
  <2> QED BY <1>5, <1>6, <2>1, <2>2
<1>8. a \in 0..1 /\ b \in 0..1 => n \in 0..1
  BY <1>3, <1>4, <1>5, <1>6 DEF BitwiseOf
<1>9. a \in 0..7 /\ b \in 0..7 => n \in 0..7
  BY <1>3, <1>4, <1>5, <1>6 DEF BitwiseOf
<1> QED BY <1>7, <1>8, <1>9 DEF n, f

\* OR of three-bit numbers, and of nine-bit ones.
LEMMA OrWidth ==
  ASSUME NEW x \in W16, NEW y \in W16
  PROVE  /\ x \in 0..7 /\ y \in 0..7 => Logic(OR, x, y) \in 0..7
         /\ x \in 0..511 /\ y \in 0..511 => Logic(OR, x, y) \in 0..511
<1>1. PICK a, b, c, d \in 0..15 : HasNibbles(x, a, b, c, d)
  BY WordNibbles
<1>2. PICK i, j, k, l \in 0..15 : HasNibbles(y, i, j, k, l)
  BY WordNibbles
<1> DEFINE p == NibbleTable[OR][16 * a + i]  q == NibbleTable[OR][16 * b + j]
           r == NibbleTable[OR][16 * c + k]  s == NibbleTable[OR][16 * d + l]
<1>3. Logic(OR, x, y) = p * 1 + q * 16 + r * 256 + s * 4096
  <2> DEFINE f == OR
  <2> HIDE DEF f
  <2>1. Logic(f, x, y) =
          NibbleTable[f][16 * a + i] * 1 + NibbleTable[f][16 * b + j] * 16
          + NibbleTable[f][16 * c + k] * 256 + NibbleTable[f][16 * d + l] * 4096
    BY <1>1, <1>2 DEF Logic, HasNibbles
  <2> QED BY <2>1 DEF f
<1>4. p \in 0..15 /\ q \in 0..15
  <2>1. OR \in 0..15
    BY DEF OR
  <2> QED BY <2>1, NibbleWidth
<1>5. /\ (a \in 0..7 /\ i \in 0..7 => p \in 0..7) /\ (b = 0 /\ j = 0 => q = 0)
      /\ (c = 0 /\ k = 0 => r = 0) /\ (d = 0 /\ l = 0 => s = 0)
      /\ (c \in 0..1 /\ k \in 0..1 => r \in 0..1)
  BY NibbleOr
<1> HIDE DEF p, q, r, s
<1>6. ASSUME x \in 0..7, y \in 0..7 PROVE Logic(OR, x, y) \in 0..7
  <2>1. /\ a \in 0..7 /\ b = 0 /\ c = 0 /\ d = 0
    BY <1>1, <1>6 DEF HasNibbles
  <2>2. /\ i \in 0..7 /\ j = 0 /\ k = 0 /\ l = 0
    BY <1>2, <1>6 DEF HasNibbles
  <2> QED BY <1>3, <1>5, <2>1, <2>2
<1>7. ASSUME x \in 0..511, y \in 0..511 PROVE Logic(OR, x, y) \in 0..511
  <2>1. c \in 0..1 /\ d = 0
    <3>1. a + 16 * b + 256 * c + 4096 * d <= 511
      BY <1>1, <1>7 DEF HasNibbles
    <3> QED BY <3>1
  <2>2. k \in 0..1 /\ l = 0
    <3>1. i + 16 * j + 256 * k + 4096 * l <= 511
      BY <1>2, <1>7 DEF HasNibbles
    <3> QED BY <3>1
  <2> QED BY <1>3, <1>4, <1>5, <2>1, <2>2
<1> QED BY <1>6, <1>7

\* A word with some of its bits replaced by another's is a word.
LEMMA MergeWidth ==
  ASSUME NEW a \in W16, NEW b \in W16, NEW mask \in W16
  PROVE  Logic(AND, a, \hFFFF - mask) + Logic(AND, b, mask) \in W16
<1> DEFINE rest == \hFFFF - mask
           p == Logic(AND, a, rest)
           q == Logic(AND, b, mask)
<1>1. rest \in W16 /\ mask + rest = 65535
  BY DEF W16
<1> HIDE DEF rest
<1>2. p \in 0..rest /\ q \in 0..mask
  BY <1>1, AndBelow
<1> HIDE DEF p, q
<1>3. mask \in Nat /\ rest \in Nat
  BY <1>1 DEF W16
<1>4. p + q \in Nat /\ p + q <= 65535
  BY <1>1, <1>2, <1>3
<1>5. p + q \in W16
  BY <1>4 DEF W16
<1> QED BY <1>5 DEF p, q, rest

-----------------------------------------------------------------------------
(* Memory management *)

\* The frames of pages and the addresses of the bus.
W12 == {n \in Nat : n < 4096}
W18 == {a \in Nat : a < 262144}

MmuRegisters ==
  [par : [0..15 -> W12], pdr : [0..15 -> W16], sr0 : W16, sr2 : W16, page : -1..15, mode : 0..3]

\* Where a reference leaves its mode and page.
LEMMA ReferenceWidth ==
  ASSUME NEW w \in W16, NoFault(w), NEW mode \in 0..3, NEW pg \in 0..7
  PROVE  LET n == Reference(w, mode, pg) IN n \in Nat /\ n < 8192
<1> DEFINE h == w \div 8192
<1>1. Slice(w, 15, 13) = h % 8
  BY Weights DEF Slice
<1>2. h \in 0..7 /\ w = 8192 * h + (w % 8192)
  BY DEF W16
<1>3. h = 0
  <2> HIDE DEF h
  <2> QED BY <1>1, <1>2 DEF NoFault
<1>4. w \in Nat /\ w < 8192
  <2>1. w = w % 8192 /\ w \in Nat
    BY <1>2, <1>3 DEF W16
  <2> QED BY <2>1
<1> DEFINE e == w \div 2
           f == e \div 64
           s == e % 64
<1>5. e \in 0..4095 /\ w - 2 * e \in 0..1
  BY <1>4
<1>6. Slice(w, 6, 1) = s
  BY Weights DEF Slice
<1> HIDE DEF e
<1>7. e = 64 * f + s /\ f \in 0..63 /\ s \in 0..63
  BY <1>5
<1> HIDE DEF f, s
<1>8. w <= 128 * f + 2 * s + 1 /\ w >= 128 * f + 2 * s
  BY <1>4, <1>5, <1>7
<1>9. Reference(w, mode, pg) = w - 2 * s + 32 * mode + 2 * pg
  BY <1>6 DEF Reference
<1> QED BY <1>4, <1>7, <1>8, <1>9

\* The abort flags of SR0.
FaultFlags == {n \in Nat : n <= 57344 /\ n % 2 = 0}

\* The abort flags are the top bits of SR0.
LEMMA FaultBits ==
  ASSUME NEW pdr \in W16, NEW block \in 0..127, NEW mode \in 0..3, NEW bus, bus \in 0..3
  PROVE  AccessFaults(pdr, block, mode, bus) \in FaultFlags
<1> DEFINE plf == Slice(pdr, 14, 8)
           ed == Bit(pdr, 3)
           beyond == Flag(block > plf \/ (ed = 1 /\ block = plf))
           ill == Flag(mode \in {1, 2})
           one == 1
           c0 == bus % 2
           c1 == bus \div 2
           bits == <<ed, beyond, Bit(pdr, 1), Bit(pdr, 2), ill, one, c0, c1>>
           p == Pack(bits)
           d == Nibble(KTE83Image, p)
<1>1. AccessFaults(pdr, block, mode, bus) =
        ABORT_NR * Bit(d, 0) + ABORT_PL * Bit(d, 1) + ABORT_RO * Bit(d, 2)
  BY DEF AccessFaults
<1>2. beyond \in 0..1 /\ ill \in 0..1
  BY Flags
<1>3. pdr \in Int
  BY DEF W16
<1>4. ed \in 0..1 /\ Bit(pdr, 1) \in 0..1 /\ Bit(pdr, 2) \in 0..1
  BY <1>3, Binary
<1>5. one \in 0..1 /\ c0 \in 0..1 /\ c1 \in 0..1
  OBVIOUS
<1> HIDE DEF beyond, ill, ed, one, c0, c1
<1>6. Len(bits) = 8 /\ \A i \in 1..8 : bits[i] \in 0..1
  BY <1>2, <1>4, <1>5
<1> HIDE DEF bits
<1>7. HasBits(8, p)
  BY <1>6, Packed
<1> HIDE DEF p
<1>8. d \in 0..15
  BY <1>7, RomEntries DEF HasBits
<1> HIDE DEF d
<1>9. Bit(d, 0) \in 0..1 /\ Bit(d, 1) \in 0..1 /\ Bit(d, 2) \in 0..1
  BY <1>8, Binary
<1> DEFINE x == Bit(d, 0)  y == Bit(d, 1)  z == Bit(d, 2)
<1> HIDE DEF x, y, z
<1>10. x \in 0..1 /\ y \in 0..1 /\ z \in 0..1
  BY <1>9 DEF x, y, z
<1>11. AccessFaults(pdr, block, mode, bus) = 32768 * x + 16384 * y + 8192 * z
  BY <1>1 DEF ABORT_NR, ABORT_PL, ABORT_RO, x, y, z
<1>12. 32768 * x + 16384 * y + 8192 * z \in FaultFlags
  <2> DEFINE n == 16384 * x + 8192 * y + 4096 * z
  <2>1. n \in Nat /\ n <= 28672 /\ 32768 * x + 16384 * y + 8192 * z = 2 * n
    BY <1>10
  <2> HIDE DEF n
  <2> QED BY <2>1 DEF FaultFlags
<1> QED BY <1>11, <1>12

\* A relocated reference: its page, its address, and what SR0 keeps.
LEMMA RelocateTyped ==
  ASSUME NEW m \in MmuRegisters, NEW va \in W16, NEW mode \in 0..3, NEW bus \in 0..4
  PROVE  LET t == Relocate(m, va, mode, bus)
         IN  t.mmu \in MmuRegisters /\ t.pba \in W18 /\ t.abort \in BOOLEAN
<1> DEFINE pg    == Slice(va, 15, 13)
           index == pg + (IF mode = 3 THEN 8 ELSE 0)
           block == Slice(va, 12, 6)
           seen  == IF NoFault(m.sr0) THEN Reference(m.sr0, mode, pg) ELSE m.sr0
           fault == IF bus = MAP THEN 0 ELSE AccessFaults(m.pdr[index], block, mode, bus)
           new   == IF fault # 0 /\ NoFault(seen) THEN seen + fault ELSE seen
           n     == [m EXCEPT !.sr0 = new, !.page = index, !.mode = mode]
           frame == m.par[index]
           pa    == (((frame + block) % 4096) * 64) + (va % 64)
           t     == Relocate(m, va, mode, bus)
<1>1. t.mmu = n /\ t.pba = pa /\ t.abort \in BOOLEAN
  BY DEF Relocate
<1>2. va \in Nat
  BY DEF W16
<1>3. HasBits(3, pg) /\ HasBits(7, block)
  BY <1>2, Sliced
<1> HIDE DEF t, pg, block
<1>4. pg \in 0..7 /\ block \in 0..127
  BY <1>3 DEF HasBits
<1>5. index \in 0..15
  BY <1>4
<1>6. m.sr0 \in W16 /\ frame \in W12 /\ m.pdr[index] \in W16
  BY <1>5 DEF MmuRegisters
<1> HIDE DEF index, frame
<1>7. seen \in W16
  <2>1. CASE NoFault(m.sr0)
    <3> DEFINE ref == Reference(m.sr0, mode, pg)
    <3>1. ref \in Nat /\ ref < 8192
      BY <1>4, <1>6, <2>1, ReferenceWidth
    <3>2. seen = ref
      BY <2>1
    <3> HIDE DEF ref, seen
    <3> QED BY <3>1, <3>2 DEF W16
  <2> QED BY <1>6, <2>1
<1>8. fault \in Nat /\ fault <= 57344
  <2>1. CASE bus = MAP
    BY <2>1
  <2>2. CASE bus # MAP
    <3>1. bus \in 0..3
      BY <2>2 DEF MAP
    <3> DEFINE descriptor == m.pdr[index]
               c == bus
               f == AccessFaults(descriptor, block, mode, c)
    <3>2. descriptor \in W16 /\ c \in 0..3
      BY <1>6, <3>1
    <3>3. fault = f
      BY <2>2
    <3> HIDE DEF descriptor, c
    <3>4. f \in FaultFlags
      BY <1>4, <3>2, FaultBits
    <3> HIDE DEF f
    <3> QED BY <3>3, <3>4 DEF FaultFlags
  <2> QED BY <2>1, <2>2
<1> HIDE DEF seen, fault
<1>9. NoFault(seen) => seen < 8192
  <2> DEFINE h == seen \div 8192
  <2>1. Slice(seen, 15, 13) = h % 8
    BY Weights DEF Slice
  <2>2. h \in 0..7 /\ seen = 8192 * h + (seen % 8192)
    BY <1>7 DEF W16
  <2>3. seen % 8192 \in Nat /\ seen % 8192 < 8192
    BY <1>7 DEF W16
  <2> HIDE DEF h
  <2>4. NoFault(seen) => h = 0
    BY <2>1, <2>2 DEF NoFault
  <2> DEFINE r == seen % 8192
  <2> HIDE DEF r
  <2>5. r \in Nat /\ r < 8192 /\ seen = 8192 * h + r
    BY <2>2, <2>3 DEF r
  <2> QED BY <2>4, <2>5
<1>10. new \in W16
  BY <1>7, <1>8, <1>9 DEF W16
<1> HIDE DEF new
<1>11. n \in MmuRegisters
  <2>1. index \in -1..15
    BY <1>5
  <2>2. m \in [par : [0..15 -> W12], pdr : [0..15 -> W16], sr0 : W16, sr2 : W16, page : -1..15,
               mode : 0..3]
    BY DEF MmuRegisters
  <2>3. n \in [par : [0..15 -> W12], pdr : [0..15 -> W16], sr0 : W16, sr2 : W16, page : -1..15,
               mode : 0..3]
    BY <1>10, <2>1, <2>2
  <2> QED BY <2>3 DEF MmuRegisters
<1>12. pa \in W18
  <2> DEFINE a == frame + block
             b == a % 4096
             c == va % 64
  <2>1. a \in Nat
    BY <1>4, <1>6 DEF W12
  <2> HIDE DEF a
  <2>2. b \in Nat /\ b < 4096
    BY <2>1
  <2>3. c \in Nat /\ c < 64
    BY <1>2
  <2> HIDE DEF b, c
  <2>4. (b * 64) + c \in W18
    BY <2>2, <2>3 DEF W18
  <2> QED BY <2>4 DEF b, c, a
<1> HIDE DEF n, pa
<1> QED BY <1>1, <1>11, <1>12 DEF t

\* A reference, relocated or not.
LEMMA TranslateTyped ==
  ASSUME NEW m \in MmuRegisters, NEW va \in W16, NEW mode \in 0..3, NEW bus \in 0..4, NEW relocate
  PROVE  LET t == Translate(m, va, mode, bus, relocate)
         IN  t.mmu \in MmuRegisters /\ t.pba \in W18
<1>1. CASE relocate
  BY <1>1, RelocateTyped DEF Translate
<1>2. CASE ~relocate
  <2> DEFINE n  == [m EXCEPT !.page = -1]
             pa == va + (IF va >= \o160000 THEN \o600000 ELSE 0)
             t  == Translate(m, va, mode, bus, relocate)
  <2>1. t.mmu = n /\ t.pba = pa
    BY <1>2 DEF Translate
  <2>2. -1 \in -1..15
    OBVIOUS
  <2>3. n \in MmuRegisters
    BY <2>2 DEF MmuRegisters
  <2>4. pa \in W18
    BY DEF W16, W18
  <2> HIDE DEF n, pa, t
  <2> QED BY <2>1, <2>3, <2>4 DEF t
<1> QED BY <1>1, <1>2

\* SR2 takes a word.
LEMMA FetchTyped ==
  ASSUME NEW m \in MmuRegisters, NEW pc \in W16
  PROVE  MmuFetch(m, pc) \in MmuRegisters
BY DEF MmuFetch, MmuRegisters

\* The page of a register's address.
LEMMA AprIndexed ==
  ASSUME NEW a \in Nat
  PROVE  AprIndex(a) \in 0..15
<1> DEFINE b == Bit(a, 8)
           c == Slice(a, 3, 1)
<1>1. b \in 0..1
  BY Binary
<1>2. HasBits(3, c)
  BY Sliced
<1> HIDE DEF b, c
<1>3. 8 * b + c \in 0..15
  BY <1>1, <1>2 DEF HasBits
<1> QED BY <1>3 DEF AprIndex, b, c

\* A register of the unit reads as a word.
LEMMA ReadTyped ==
  ASSUME NEW m \in MmuRegisters, NEW a \in Nat
  PROVE  MmuRead(m, a) \in W16
<1> DEFINE i == AprIndex(a)
           n == MmuRead(m, a)
           o == 0
<1>1. n = m.par[i] \/ n = m.pdr[i] \/ n = o \/ n = m.sr0 \/ n = m.sr2
  BY DEF MmuRead
<1>2. i \in 0..15
  BY AprIndexed
<1>3. o \in W16
  BY DEF W16
<1> HIDE DEF i, n, o
<1>4. m.par[i] \in W12 /\ m.pdr[i] \in W16 /\ m.sr0 \in W16 /\ m.sr2 \in W16
  BY <1>2 DEF MmuRegisters
<1>5. m.par[i] \in W16
  BY <1>4 DEF W12, W16
<1>6. n \in W16
  BY <1>1, <1>3, <1>4, <1>5
<1> QED BY <1>6 DEF n

\* The halves of two words make a word.
LEMMA HalvesMeet ==
  ASSUME NEW u \in W16, NEW v \in W16
  PROVE  (u % 256) + 256 * (v \div 256) \in W16
<1> DEFINE h == u % 256
           k == v \div 256
<1>1. h \in 0..255
  BY DEF W16
<1>2. k \in 0..255
  BY DEF W16
<1> HIDE DEF h, k
<1>3. h + 256 * k \in W16
  BY <1>1, <1>2 DEF W16
<1> QED BY <1>3 DEF h, k

\* So do the bytes that a write's strobes load.
LEMMA LanesTyped ==
  ASSUME NEW old \in W16, NEW data \in W16, NEW low, NEW high
  PROVE  Lanes(old, data, low, high) \in W16
<1> DEFINE u == IF low = 0 THEN data ELSE old
           v == IF high = 0 THEN data ELSE old
<1>1. Lanes(old, data, low, high) = (u % 256) + 256 * (v \div 256)
  BY DEF Lanes
<1>2. u \in W16 /\ v \in W16
  OBVIOUS
<1> HIDE DEF u, v
<1> QED BY <1>1, <1>2, HalvesMeet

\* Masks of the registers.
LEMMA Masked ==
  ASSUME NEW w \in W16
  PROVE  /\ Logic(AND, w, \h7F0E) \in W16 /\ Logic(AND, w, \hF0FF) \in W16
         /\ \A v \in W16 : Logic(AND, v, \h1EFE) + Logic(AND, w, \hE101) \in W16
<1>1. /\ \h7F0E \in W16 /\ \hF0FF \in W16 /\ \h1EFE \in W16 /\ \hE101 \in W16 /\ AND \in 0..15
  BY DEF W16, AND
<1>2. Logic(AND, w, \h7F0E) \in W16 /\ Logic(AND, w, \hF0FF) \in W16
  BY <1>1, LogicWidth
<1>3. ASSUME NEW v \in W16 PROVE Logic(AND, v, \h1EFE) + Logic(AND, w, \hE101) \in W16
  <2> DEFINE x == \h1EFE
             y == \hE101
             p == Logic(AND, v, x)
             q == Logic(AND, w, y)
  <2>1. x \in W16 /\ y \in W16 /\ x + y <= 65535
    BY <1>1
  <2> HIDE DEF x, y
  <2>2. p \in 0..x /\ q \in 0..y
    BY <1>1, <2>1, AndBelow
  <2> HIDE DEF p, q
  <2>3. x \in Nat /\ y \in Nat
    BY <2>1 DEF W16
  <2>4. p \in Nat /\ q \in Nat /\ p + q <= x + y
    BY <2>2, <2>3
  <2>5. p + q \in W16
    BY <2>1, <2>3, <2>4 DEF W16
  <2> QED BY <2>5 DEF p, q, x, y
<1> QED BY <1>2, <1>3

\* A write leaves the registers of the unit registers.
LEMMA WriteTyped ==
  ASSUME NEW m \in MmuRegisters, NEW a \in Nat, NEW data \in W16, NEW c0
  PROVE  MmuWrite(m, a, data, c0) \in MmuRegisters
<1> DEFINE d77 == E76E77(KTE77Image, a, 1, c0)
           d75 == E74E75(KTE75Image, a, 1, c0, 0)
           i == AprIndex(a)
           pl == Bit(d77, 2)  ph == Bit(d77, 3)  dl == Bit(d77, 0)  dh == Bit(d77, 1)
           sl == Bit(d75, 0)  sh == Bit(d75, 1)
           par == Lanes(m.par[i], data, pl, ph)
           pdr == Lanes(m.pdr[i], data, dl, dh)
           sr0 == Lanes(m.sr0, data, sl, sh)
           p == par % 4096
           q == Logic(AND, pdr, \h7F0E)
           r == Logic(AND, m.sr0, \h1EFE) + Logic(AND, sr0, \hE101)
           n == MmuWrite(m, a, data, c0)
<1>1. \/ n = [m EXCEPT !.par[i] = p]
      \/ n = [m EXCEPT !.pdr[i] = q]
      \/ n = [m EXCEPT !.sr0 = r]
      \/ n = m
  BY DEF MmuWrite
<1>2. i \in 0..15
  BY AprIndexed
<1> HIDE DEF i, n, pl, ph, dl, dh, sl, sh
<1>3. m.par[i] \in W12 /\ m.pdr[i] \in W16 /\ m.sr0 \in W16
  BY <1>2 DEF MmuRegisters
<1>4. m.par[i] \in W16
  BY <1>3 DEF W12, W16
<1>5. par \in W16 /\ pdr \in W16 /\ sr0 \in W16
  BY <1>3, <1>4, LanesTyped
<1> HIDE DEF par, pdr, sr0
<1>6. p \in W12
  BY <1>5 DEF W12, W16
<1>7. q \in W16 /\ r \in W16
  BY <1>3, <1>5, Masked
<1> HIDE DEF p, q, r
<1>8. /\ [m EXCEPT !.par[i] = p] \in MmuRegisters /\ [m EXCEPT !.pdr[i] = q] \in MmuRegisters
  BY <1>2, <1>6, <1>7 DEF MmuRegisters
<1>9. [m EXCEPT !.sr0 = r] \in MmuRegisters
  BY <1>7 DEF MmuRegisters
<1>10. n \in MmuRegisters
  BY <1>1, <1>8, <1>9
<1> QED BY <1>10 DEF n

\* So does the W bit.
LEMMA SetWTyped ==
  ASSUME NEW m \in MmuRegisters, NEW a, NEW byte
  PROVE  SetW(m, a, byte) \in MmuRegisters
<1> DEFINE i == m.page
           q == Logic(OR, m.pdr[i], PDR_W)
<1>1. SetW(m, a, byte) = m \/ (i >= 0 /\ SetW(m, a, byte) = [m EXCEPT !.pdr[i] = q])
  BY DEF SetW
<1>2. i \in -1..15
  BY DEF MmuRegisters
<1> HIDE DEF i
<1>3. CASE i >= 0
  <2>1. i \in 0..15
    BY <1>2, <1>3
  <2>2. m.pdr[i] \in W16
    BY <2>1 DEF MmuRegisters
  <2>3. PDR_W \in W16 /\ OR \in 0..15
    BY DEF PDR_W, W16, OR
  <2>4. q \in W16
    BY <2>2, <2>3, LogicWidth
  <2> HIDE DEF q
  <2>5. [m EXCEPT !.pdr[i] = q] \in MmuRegisters
    BY <2>1, <2>4 DEF MmuRegisters
  <2> QED BY <1>1, <2>5
<1>4. CASE ~(i >= 0)
  BY <1>1, <1>4
<1> QED BY <1>3, <1>4

-----------------------------------------------------------------------------
(* The data path *)

\* Some words.
LEMMA Small == 0 \in W16 /\ 1 \in W16 /\ 14 \in W16 /\ 255 \in W16
BY DEF W16

\* Bits of words.
LEMMA WordBit ==
  ASSUME NEW w \in W16, NEW n \in 0..17
  PROVE  Bit(w, n) \in 0..1
<1>1. w \in Int
  BY DEF W16
<1> QED BY <1>1, Binary

\* A function of the ALU.
IsOperation(op) == op.s \in 0..15 /\ op.cin \in 0..1 /\ op.bleg \in 0..3

\* The function is chosen by the micro-word or by the instruction.
LEMMA AluControlled ==
  ASSUME NEW uw, IsMicroword(uw), NEW i \in W16, NEW p \in W16
  PROVE  IsOperation(AluControl(uw, i, p))
<1> DEFINE fc == IF Sop(i) THEN E61(i, Bit(p, 0), Bit(p, 3)) ELSE E83(i)
           g == Gather(fc, <<3, 2, 1, 0>>)
           n == (uw.aluFunc % 2) + 2 * g
           op == AluControl(uw, i, p)
<1>1. op = E82Rom[uw.aluFunc] \/ op = E82Rom[n]
  BY DEF AluControl
<1>2. uw.aluFunc \in 0..31
  BY DEF IsMicroword
<1>3. Bit(p, 0) \in 0..1 /\ Bit(p, 3) \in 0..1
  BY WordBit
<1>4. fc \in Int
  BY <1>3, FunctionProms
<1> HIDE DEF fc
<1>5. HasBits(4, g)
  BY <1>4, Gathered
<1> HIDE DEF g
<1>6. n \in 0..31
  <2>1. uw.aluFunc % 2 \in 0..1
    BY <1>2
  <2> QED BY <1>5, <2>1 DEF HasBits
<1> HIDE DEF n, op
<1>7. IsOperation(E82Rom[uw.aluFunc])
  BY <1>2, AluFunctions DEF IsOperation
<1>8. IsOperation(E82Rom[n])
  BY <1>6, AluFunctions DEF IsOperation
<1>9. IsOperation(op)
  BY <1>1, <1>7, <1>8
<1> QED BY <1>9 DEF op

\* The functions of the 74181 are functions of bits.
LEMMA AluLogic ==
  ASSUME NEW s \in 0..15
  PROVE  /\ LogicFunction[s + 1] \in 0..15
         /\ ArithFunction[s + 1][1] \in 0..15 /\ ArithFunction[s + 1][2] \in 0..15
<1>1. \A n \in 1..16 : LogicFunction[n] \in 0..15
  BY DEF LogicFunction, ZERO, NOR, NOTX, ANDNOT, NOTY, XOR, NAND, AND, XNOR, Y, ORNOTX, X, ORNOTY,
         OR, ONES, NOTXANDY
<1>2. \A n \in 1..16 : ArithFunction[n][1] \in 0..15 /\ ArithFunction[n][2] \in 0..15
  BY DEF ArithFunction, ZERO, NOR, NOTX, ANDNOT, NOTY, XOR, NAND, AND, XNOR, Y, ORNOTX, X, ORNOTY,
         OR, ONES, NOTXANDY
<1> QED BY <1>1, <1>2

\* The ALU's result is a word.
LEMMA AluTyped ==
  ASSUME NEW op, IsOperation(op), NEW a \in W16, NEW b \in W16
  PROVE  LET r == Alu(op, a, b) IN r.out \in W16 /\ r.cout \in 0..1
<1> DEFINE s == op.s
           l == LogicFunction[s + 1]
           f == ArithFunction[s + 1][1]
           g == ArithFunction[s + 1][2]
           u == Logic(l, a, b)
           v == Logic(f, a, b)
           w == Logic(g, a, b)
           sum == v + w + op.cin
           r == Alu(op, a, b)
<1>1. \/ r.out = u /\ r.cout = 0
      \/ r.out = sum % Word /\ r.cout = Bit(sum, 16)
  BY DEF Alu
<1>2. s \in 0..15 /\ op.cin \in 0..1
  BY DEF IsOperation
<1> HIDE DEF s, r
<1>3. l \in 0..15 /\ f \in 0..15 /\ g \in 0..15
  BY <1>2, AluLogic
<1> HIDE DEF l, f, g
<1>4. u \in W16 /\ v \in W16 /\ w \in W16
  BY <1>3, LogicWidth
<1> HIDE DEF u, v, w
<1>5. sum \in Nat
  BY <1>2, <1>4 DEF W16
<1> HIDE DEF sum
<1>6. Bit(sum, 16) \in 0..1
  BY <1>5, Binary
<1>7. sum % 65536 \in W16
  BY <1>5 DEF W16
<1>8. Word = 65536
  BY DEF Word
<1>9. r.out \in W16 /\ r.cout \in 0..1
  BY <1>1, <1>4, <1>6, <1>7, <1>8
<1> QED BY <1>9 DEF r

\* So are what the multiplexers select.
LEMMA MuxTyped ==
  ASSUME NEW x \in W16, NEW y \in W16, NEW z \in W16, NEW n \in 0..3
  PROVE  BMux(n, x, y) \in W16 /\ AMux(n, x, y, z) \in W16
<1>1. BMux(n, x, y) \in {x, y, 14, 1}
  BY DEF BMux
<1>2. AMux(n, x, y, z) \in {z, y, 0, x}
  BY DEF AMux
<1> QED BY <1>1, <1>2, Small

\* So is a word whose bytes are swapped or whose low byte is extended.
LEMMA BytesTyped ==
  ASSUME NEW w \in W16, NEW e80
  PROVE  SsMux(w, e80) \in W16
<1> DEFINE low == w % 256
           high == w \div 256
           sign == Bit(w, 7)
<1>1. low \in 0..255
  BY DEF W16
<1>2. high \in 0..255
  BY DEF W16
<1>3. SwapBytes(w) = 256 * low + high
  BY DEF SwapBytes
<1>4. SignExtend(w) = low + (IF sign = 1 THEN 256 * 255 ELSE 0)
  BY DEF SignExtend
<1> HIDE DEF low, high, sign
<1>5. 256 * low + high \in W16
  BY <1>1, <1>2 DEF W16
<1>6. low + (IF sign = 1 THEN 256 * 255 ELSE 0) \in W16
  BY <1>1 DEF W16
<1> QED BY <1>3, <1>4, <1>5, <1>6 DEF SsMux

\* A byte of one word above or below a byte of another.
LEMMA LowByte ==
  ASSUME NEW u \in W16, NEW v \in W16
  PROVE  (u - (u % 256)) + (v % 256) \in W16
<1> DEFINE h == u \div 256
           k == v % 256
<1>1. h \in 0..255 /\ u - (u % 256) = 256 * h
  BY DEF W16
<1>2. k \in 0..255
  BY DEF W16
<1> HIDE DEF h, k
<1>3. 256 * h + k \in W16
  BY <1>1, <1>2 DEF W16
<1> QED BY <1>1, <1>3 DEF k

\* The shift registers hold words.
LEMMA ShiftTyped ==
  ASSUME NEW md \in 0..3, NEW r \in W16, NEW load \in W16, NEW in \in 0..1, NEW in07 \in 0..1
  PROVE  ShiftRegister(md, r, load, in, in07) \in W16
<1> DEFINE n == ShiftRegister(md, r, load, in, in07)
<1>1. CASE md = 0
  BY <1>1 DEF ShiftRegister
<1>2. CASE md = 1
  <2> DEFINE h == (2 * r) % 65536
  <2>1. Word = 65536
    BY DEF Word
  <2>2. n = h + in
    BY <1>2, <2>1 DEF ShiftRegister
  <2>3. h \in Nat /\ h < 65536 /\ h # 65535
    BY DEF W16
  <2> HIDE DEF h, n
  <2>4. n \in W16
    BY <2>2, <2>3 DEF W16
  <2> QED BY <2>4 DEF n
<1>3. CASE md = 2
  <2> DEFINE h == r \div 2
             b == Bit(r, 8)
             k == h \div 256
  <2>1. n = h - 128 * b + 128 * in07 + 32768 * in
    BY <1>3 DEF ShiftRegister
  <2>2. h \in Nat /\ h < 32768
    BY DEF W16
  <2>3. b = (r \div 256) % 2
    BY Weights DEF Bit
  <2>4. r \div 256 = h \div 128
    BY DEF W16
  <2> HIDE DEF h
  <2>5. b = (h \div 128) % 2
    BY <2>3, <2>4
  <2> HIDE DEF b
  <2>6. k \in 0..127 /\ h = 256 * k + (h % 256) /\ h % 256 \in 0..255
    BY <2>2
  <2> DEFINE l == h % 256
  <2> HIDE DEF k, l
  <2>7. h = 256 * k + l /\ l \in 0..255 /\ k \in 0..127
    BY <2>6 DEF l
  <2>8. h \div 128 = 2 * k + (IF l >= 128 THEN 1 ELSE 0)
    BY <2>7
  <2>9. b = (IF l >= 128 THEN 1 ELSE 0)
    BY <2>5, <2>7, <2>8
  <2> HIDE DEF n
  <2>10. n \in W16
    BY <2>1, <2>7, <2>9 DEF W16
  <2> QED BY <2>10 DEF n
<1>4. CASE md = 3
  BY <1>4 DEF ShiftRegister
<1> QED BY <1>1, <1>2, <1>3, <1>4

\* A scratchpad address.
LEMMA SpaTyped ==
  ASSUME NEW uw, IsMicroword(uw), NEW sel \in 0..3, NEW i \in W16, NEW p \in W16, NEW adr \in W18
  PROVE  SpaResolve(uw, sel, i, p, adr) \in 0..15
<1> DEFINE user == Bit(p, IF uw.prevMode THEN 12 ELSE 14)
           rs == Slice(i, 8, 6)
           odd == IF uw.forceRsv1 /\ rs % 2 = 0 THEN rs + 1 ELSE rs
           rd == i % 8
           n == SpaResolve(uw, sel, i, p, adr)
           t == Slice(adr, 4, 1)
<1>1. i \in Nat /\ adr \in Nat /\ uw.romSpa \in 0..15
  BY DEF W16, W18, IsMicroword
<1>2. HasBits(3, rs) /\ HasBits(4, t)
  BY <1>1, Sliced
<1>3. /\ sel = 0 => n = 1 \/ n = uw.romSpa
      /\ sel = 1 => n = RegSlot(odd, user)
      /\ sel = 2 => n = RegSlot(rd, user)
      /\ sel = 3 => n = t
  BY DEF SpaResolve, SPA_ROM, SPA_RS, SPA_RD, SPA_RBA
<1> HIDE DEF rs, t, n, user
<1>4. rs \in 0..7 /\ t \in 0..15
  BY <1>2 DEF HasBits
<1>5. odd \in 0..7
  BY <1>4
<1>6. rd \in 0..7
  BY <1>1
<1> HIDE DEF odd, rd
<1>7. RegSlot(odd, user) \in 0..15 /\ RegSlot(rd, user) \in 0..15
  BY <1>5, <1>6 DEF RegSlot
<1>8. n \in 0..15
  <2>0. CASE sel = 0
    BY <1>1, <1>3, <2>0
  <2>1. CASE sel = 1
    BY <1>3, <1>7, <2>1
  <2>2. CASE sel = 2
    BY <1>3, <1>7, <2>2
  <2>3. CASE sel = 3
    BY <1>3, <1>4, <2>3
  <2> QED BY <2>0, <2>1, <2>2, <2>3
<1> QED BY <1>8 DEF n

-----------------------------------------------------------------------------
(* The bus *)

\* What the bus holds: words.
BusTypeOK ==
  mem \in [Memory -> W16] /\ psw \in W16 /\ mmu \in MmuRegisters /\ unibusData \in W16

\* The even address is an address.
LEMMA EvenAddress ==
  ASSUME NEW a \in W18
  PROVE  a \in Nat /\ a - (a % 2) \in Nat
BY DEF W18

\* A read takes a word off the bus.
LEMMA BusReadTyped ==
  ASSUME BusTypeOK, NEW a \in W18
  PROVE  LET r == BusRead(a) IN r.ok \in BOOLEAN /\ r.data \in W16
<1> DEFINE w == a - (a % 2)
           r == BusRead(a)
           t == MmuRead(mmu, w)
           o == 0
<1>1. /\ r.ok \in BOOLEAN
      /\ \/ w \in Memory /\ r.data = mem[w]
         \/ r.data = psw
         \/ r.data = t
         \/ r.data = o
  BY DEF BusRead
<1>2. w \in Nat
  BY EvenAddress
<1> HIDE DEF w
<1>3. t \in W16
  BY <1>2, ReadTyped DEF BusTypeOK
<1> HIDE DEF t, r
<1>4. o \in W16
  BY Small
<1> HIDE DEF o
<1>5. r.ok \in BOOLEAN /\ r.data \in W16
  BY <1>1, <1>3, <1>4 DEF BusTypeOK
<1> QED BY <1>5 DEF r

\* A write leaves words on the bus.
LEMMA BusWriteTyped ==
  ASSUME BusTypeOK, NEW a \in W18, NEW data \in W16, NEW byte \in BOOLEAN, NEW m \in MmuRegisters
  PROVE  LET r == BusWrite(a, data, byte, m)
         IN  /\ r.ok \in BOOLEAN /\ r.mem \in [Memory -> W16]
             /\ r.psw \in W16 /\ r.mmu \in MmuRegisters
<1> DEFINE w == a - (a % 2)
           at == IF byte THEN a ELSE w
           r == BusWrite(a, data, byte, m)
           l == WriteLane(mem[w], a, data, byte)
           p == PswWrite(a, data, byte)
           n == MmuWrite(m, at, data, Flag(byte))
           mm == [mem EXCEPT ![w] = l]
<1>1. /\ r.ok \in BOOLEAN
      /\ r.mem = mem \/ (w \in Memory /\ r.mem = mm)
      /\ r.psw = psw \/ r.psw = p
      /\ r.mmu = m \/ r.mmu = n
  BY DEF BusWrite
<1>2. w \in Nat /\ at \in Nat
  BY EvenAddress
<1> HIDE DEF r
<1>3. n \in MmuRegisters
  <2> DEFINE c0 == Flag(byte)
  <2> HIDE DEF at, c0
  <2>1. MmuWrite(m, at, data, c0) \in MmuRegisters
    BY <1>2, WriteTyped
  <2> QED BY <2>1 DEF c0
<1>4. p \in W16
  <2> DEFINE mask == IF ~byte THEN \hF0EF ELSE IF a % 2 = 1 THEN \hF000 ELSE \h00EF
  <2>1. mask \in W16
    BY DEF W16
  <2>2. p = Logic(AND, psw, \hFFFF - mask) + Logic(AND, data, mask)
    BY DEF PswWrite
  <2>3. psw \in W16
    BY DEF BusTypeOK
  <2> HIDE DEF mask, p
  <2>4. p \in W16
    BY <2>1, <2>2, <2>3, MergeWidth
  <2> QED BY <2>4 DEF p
<1>5. ASSUME w \in Memory PROVE mm \in [Memory -> W16]
  <2> DEFINE old == mem[w]
  <2>1. old \in W16
    BY <1>5 DEF BusTypeOK
  <2>2. l = data \/ l = (old % 256) + 256 * (data \div 256) \/ l = 256 * (old \div 256) + (data % 256)
    BY DEF WriteLane
  <2> HIDE DEF old, l
  <2>3. (old % 256) + 256 * (data \div 256) \in W16 /\ (data % 256) + 256 * (old \div 256) \in W16
    BY <2>1, HalvesMeet
  <2>4. 256 * (old \div 256) + (data % 256) = (data % 256) + 256 * (old \div 256)
    BY <2>1 DEF W16
  <2>5. l \in W16
    BY <2>2, <2>3, <2>4
  <2> QED BY <1>5, <2>5 DEF BusTypeOK
<1> HIDE DEF w, at, l, p, n, mm
<1>6. /\ r.ok \in BOOLEAN /\ r.mem \in [Memory -> W16]
      /\ r.psw \in W16 /\ r.mmu \in MmuRegisters
  BY <1>1, <1>3, <1>4, <1>5 DEF BusTypeOK
<1> QED BY <1>6 DEF r

\* So does a bus cycle.
LEMMA TransferTyped ==
  ASSUME BusTypeOK, NEW cycle \in BOOLEAN, NEW bus \in 0..3, NEW a \in W18, NEW ss \in W16,
         NEW m \in MmuRegisters
  PROVE  LET t == Transfer(cycle, bus, a, ss, m)
         IN  /\ t.ok \in BOOLEAN /\ t.data \in W16 /\ t.mem \in [Memory -> W16]
             /\ t.psw \in W16 /\ t.mmu \in MmuRegisters
<1> DEFINE byte == bus = DATOB
           r == BusRead(a)
           w == BusWrite(a, ss, byte, m)
           s == SetW(w.mmu, a, byte)
           t == Transfer(cycle, bus, a, ss, m)
           d == bus \in {DATI, DATIP}
<1>1. CASE ~cycle
  <2>1. t = [ok |-> TRUE, data |-> unibusData, mem |-> mem, psw |-> psw, mmu |-> m]
    BY <1>1 DEF Transfer
  <2> HIDE DEF t
  <2>2. /\ t.ok \in BOOLEAN /\ t.data \in W16 /\ t.mem \in [Memory -> W16]
        /\ t.psw \in W16 /\ t.mmu \in MmuRegisters
    BY <2>1 DEF BusTypeOK
  <2> QED BY <2>2 DEF t
<1>2. CASE cycle /\ d
  <2>1. t = [ok |-> r.ok, data |-> r.data, mem |-> mem, psw |-> psw, mmu |-> m]
    BY <1>2 DEF Transfer
  <2>2. r.ok \in BOOLEAN /\ r.data \in W16
    BY BusReadTyped
  <2> HIDE DEF t, r
  <2>3. /\ t.ok \in BOOLEAN /\ t.data \in W16 /\ t.mem \in [Memory -> W16]
        /\ t.psw \in W16 /\ t.mmu \in MmuRegisters
    BY <2>1, <2>2 DEF BusTypeOK
  <2> QED BY <2>3 DEF t
<1>3. CASE cycle /\ ~d
  <2>1. /\ t.ok = w.ok /\ t.data = unibusData /\ t.mem = w.mem /\ t.psw = w.psw
        /\ t.mmu = s \/ t.mmu = w.mmu
    BY <1>3 DEF Transfer
  <2>2. byte \in BOOLEAN
    OBVIOUS
  <2> HIDE DEF t, byte
  <2>3. /\ w.ok \in BOOLEAN /\ w.mem \in [Memory -> W16]
        /\ w.psw \in W16 /\ w.mmu \in MmuRegisters
    BY <2>2, BusWriteTyped
  <2> HIDE DEF w
  <2>4. s \in MmuRegisters
    BY <2>3, SetWTyped
  <2> HIDE DEF s
  <2>5. /\ t.ok \in BOOLEAN /\ t.data \in W16 /\ t.mem \in [Memory -> W16]
        /\ t.psw \in W16 /\ t.mmu \in MmuRegisters
    BY <2>1, <2>3, <2>4 DEF BusTypeOK
  <2> QED BY <2>5 DEF t
<1> QED BY <1>1, <1>2, <1>3

-----------------------------------------------------------------------------
(* The processor status *)

\* LOAD PSW loads a word.
LEMMA LoadPswTyped ==
  ASSUME NEW uw, NEW d54, NEW old \in W16, NEW data \in W16
  PROVE  LoadPsw(uw, d54, old, data) \in W16
<1> DEFINE md == Logic(AND, old, \hC000) \div 4
           t == Logic(AND, data, \hFFFF - \h3000) + Logic(AND, md, \h3000)
           trapped == IF uw.forceKernel THEN t ELSE data
           k == Logic(AND, trapped, \hFFFF - \hF0E0) + Logic(AND, old, \hF0E0)
           v == IF d54.disableLoadPsw THEN k ELSE trapped
<1>1. LoadPsw(uw, d54, old, data) = Logic(AND, \hF0FF, v)
  BY DEF LoadPsw, PswBits
<1>2. /\ \hC000 \in W16 /\ \h3000 \in W16 /\ \hF0E0 \in W16 /\ \hF0FF \in W16 /\ AND \in 0..15
  BY DEF W16, AND
<1>3. md \in W16
  <2> DEFINE c == Logic(AND, old, \hC000)
  <2>1. c \in W16
    BY <1>2, LogicWidth
  <2> HIDE DEF c
  <2>2. c \div 4 \in W16
    BY <2>1 DEF W16
  <2> QED BY <2>2 DEF c
<1> HIDE DEF md
<1>4. t \in W16
  BY <1>2, <1>3, MergeWidth
<1> HIDE DEF t
<1>5. trapped \in W16
  BY <1>4
<1> HIDE DEF trapped
<1>6. k \in W16
  BY <1>2, <1>5, MergeWidth
<1> HIDE DEF k
<1>7. v \in W16
  BY <1>5, <1>6
<1> HIDE DEF v
<1> QED BY <1>1, <1>2, <1>7, LogicWidth

\* Four condition codes.
LEMMA FourBits ==
  ASSUME NEW c, NEW v, NEW z, NEW n, c \in 0..1, v \in 0..1, z \in 0..1, n \in 0..1
  PROVE  HasBits(4, Pack(<<c, v, z, n>>))
<1> DEFINE bits == <<c, v, z, n>>
<1>1. Len(bits) = 4 /\ \A k \in 1..4 : bits[k] \in 0..1
  OBVIOUS
<1> HIDE DEF bits
<1>2. HasBits(4, Pack(bits))
  BY <1>1, Packed
<1> QED BY <1>2 DEF bits

\* LOAD CC loads the four condition codes.
LEMMA LoadCcTyped ==
  ASSUME NEW uw, NEW low, NEW old \in W16, NEW a \in W16, NEW b \in W16, NEW alu \in W16,
         NEW ss \in W16, ir \in W16, rotCbit \in 0..1
  PROVE  LoadCc(uw, low, old, a, b, alu, ss) \in W16
<1> DEFINE d68 == E68(ir)
           sign == IF d68.byte THEN 7 ELSE 15
           as == Bit(alu, sign)  bs == Bit(b, sign)  cs == Bit(a, sign)  oc == Bit(old, 0)
           vc == E107(as, cs, bs, rotCbit, oc, d68.ccCode)
           z == Flag(Slice(alu, sign, 0) = 0)
           bits == <<vc.c, vc.v, z, as>>
           cc == IF uw.aux /\ ~low THEN Pack(bits) ELSE ss % 16
<1>1. LoadCc(uw, low, old, a, b, alu, ss) = (old - (old % 16)) + cc
  BY DEF LoadCc
<1>2. sign \in 0..17
  OBVIOUS
<1> HIDE DEF sign
<1>3. as \in 0..1 /\ bs \in 0..1 /\ cs \in 0..1 /\ oc \in 0..1
  BY <1>2, WordBit
<1> HIDE DEF as, bs, cs, oc
<1>4. d68.ccCode \in 0..7
  BY ConditionProms
<1>5. vc.c \in 0..1 /\ vc.v \in 0..1
  <2> DEFINE c == d68.ccCode
             q == rotCbit
  <2> HIDE DEF c, q
  <2>1. c \in 0..7 /\ q \in 0..1
    BY <1>4 DEF c, q
  <2>2. E107(as, cs, bs, q, oc, c).v \in 0..1 /\ E107(as, cs, bs, q, oc, c).c \in 0..1
    BY <1>3, <2>1, ConditionProms
  <2> QED BY <2>2 DEF c, q
<1>6. z \in 0..1
  BY Flags
<1> DEFINE c == vc.c
           v == vc.v
<1> HIDE DEF d68, z, c, v
<1>11. c \in 0..1 /\ v \in 0..1
  BY <1>5 DEF c, v
<1>12. Pack(bits) = Pack(<<c, v, z, as>>)
  BY DEF c, v
<1> HIDE DEF vc, bits
<1>8. HasBits(4, Pack(bits))
  BY <1>3, <1>6, <1>11, <1>12, FourBits
<1>9. cc \in 0..15
  <2>1. ss % 16 \in 0..15
    BY DEF W16
  <2> QED BY <1>8, <2>1 DEF HasBits
<1> HIDE DEF cc
<1>10. (old - (old % 16)) + cc \in W16
  <2> DEFINE h == old \div 16
  <2>1. h \in Nat /\ h < 4096 /\ old - (old % 16) = 16 * h
    BY DEF W16
  <2> HIDE DEF h
  <2>2. 16 * h + cc \in W16
    BY <1>9, <2>1 DEF W16
  <2> QED BY <2>1, <2>2
<1> QED BY <1>1, <1>10

-----------------------------------------------------------------------------
(* Decoding and the next address *)

\* Small numbers are words.
LEMMA Narrow == ASSUME NEW n, n \in 0..511 PROVE n \in W16
BY DEF W16

\* A trap code.
LEMMA IrCodeTyped ==
  ASSUME NEW i \in W16, NEW user \in 0..1
  PROVE  LoadedIrCode(i, user) \in 0..7
<1> DEFINE c53 == IF E53Enabled(i) THEN E53(i, user).irCode ELSE 0
           c59 == IF Sop(i) THEN E59(i).irCode ELSE 0
           c00 == Flag(\/ Bit(i, 15) = 0 /\ E74(i, TRUE).irCode00
                       \/ E70(i, FALSE, TRUE).irCode00)
           c == Logic(OR, c53, c59)
<1>1. LoadedIrCode(i, user) = Logic(OR, c, c00)
  BY DEF LoadedIrCode
<1>2. c53 \in 0..7
  <2>1. E53(i, user).irCode \in 0..7
    BY DoubleDecoders
  <2> QED BY <2>1
<1>3. c59 \in 0..7
  <2>1. E59(i).irCode \in 0..7
    BY SingleDecoders
  <2> QED BY <2>1
<1>4. c00 \in 0..1
  BY Flags
<1> HIDE DEF c53, c59, c00
<1>5. c53 \in W16 /\ c59 \in W16 /\ c00 \in W16
  BY <1>2, <1>3, <1>4 DEF W16
<1>6. c \in 0..7
  BY <1>2, <1>3, <1>5, OrWidth
<1> HIDE DEF c
<1>7. c \in W16 /\ c00 \in 0..7
  BY <1>4, <1>6 DEF W16
<1> QED BY <1>1, <1>5, <1>6, <1>7, OrWidth

\* OR of addresses is an address.
LEMMA OrAddress ==
  ASSUME NEW x, NEW y, x \in 0..511, y \in 0..511
  PROVE  Logic(OR, x, y) \in 0..511
<1>1. x \in W16 /\ y \in W16
  BY DEF W16
<1> QED BY <1>1, OrWidth

\* The entry of an instruction.
LEMMA DecodeTyped ==
  ASSUME NEW i \in W16, NEW p
  PROVE  DecodeEntry(i, p) \in 0..511
<1> DEFINE d69 == E69(i, FALSE, TRUE)
           d74 == E74(i, TRUE)
           m69 == d69.mpc  m70 == E70(i, FALSE, TRUE).mpc  m60 == E60(i)  m74 == d74.mpc
           src == IF d69.src THEN SrcMode(i) ELSE 0
           dst == IF E59(i).dest THEN DstMode(i) ELSE 0
           edst == IF d74.dest THEN DstMode(i) ELSE 0
           dop == 8 * m69 + src + 32 * m70
           sop == IF Sop(i) THEN 8 * m60 + dst ELSE 0
           operate == IF i < 256 THEN E63(i) ELSE 0
           eis == IF i < \o100000 THEN 8 * m74 + edst ELSE 0
           branch == IF Sop(i) /\ Bit(i, 11) = 0 /\ E71(i, p) THEN 128 ELSE 0
<1>1. DecodeEntry(i, p) = Logic(OR, Logic(OR, dop, sop), Logic(OR, Logic(OR, operate, eis), branch))
  BY DEF DecodeEntry
<1>2. m69 \in 0..3 /\ m70 \in 0..7 /\ m74 \in 0..31
  <2> DEFINE n == FALSE
             t == TRUE
             u == 0
  <2> HIDE DEF n, t, u
  <2>1. u \in 0..1
    BY DEF u
  <2>2. E69(i, n, t).mpc \in 0..3 /\ E70(i, n, t).mpc \in 0..7 /\ E74(i, t).mpc \in 0..31
    BY <2>1, DoubleDecoders
  <2> QED BY <2>2 DEF n, t
<1>3. m60 \in 0..15 /\ E63(i) \in 0..15
  BY SingleDecoders
<1>4. SrcMode(i) \in 0..7 /\ DstMode(i) \in 0..7
  BY Fields
<1>5. src \in 0..7 /\ dst \in 0..7 /\ edst \in 0..7
  <2> DEFINE s == SrcMode(i)
             d == DstMode(i)
             o == 0
  <2>1. (src = s \/ src = o) /\ (dst = d \/ dst = o) /\ (edst = d \/ edst = o)
    OBVIOUS
  <2>2. s \in 0..7 /\ d \in 0..7 /\ o \in 0..7
    BY <1>4
  <2> HIDE DEF s, d, o, src, dst, edst
  <2> QED BY <2>1, <2>2
<1>6. operate \in 0..511
  BY <1>3
<1>7. branch \in 0..511
  OBVIOUS
<1> HIDE DEF m69, m70, m60, m74, src, dst, edst, operate, branch
<1>8. dop \in 0..511
  BY <1>2, <1>5
<1>9. 8 * m60 + dst \in 0..511
  BY <1>3, <1>5
<1>10. 8 * m74 + edst \in 0..511
  BY <1>2, <1>5
<1>11. sop \in 0..511 /\ eis \in 0..511
  BY <1>9, <1>10
<1> HIDE DEF dop, sop, eis
<1> DEFINE x == Logic(OR, dop, sop)
           y == Logic(OR, operate, eis)
           z == Logic(OR, y, branch)
<1>12. x \in 0..511 /\ y \in 0..511
  BY <1>6, <1>8, <1>11, OrAddress
<1> HIDE DEF x, y
<1>13. z \in 0..511
  BY <1>7, <1>12, OrAddress
<1> HIDE DEF z
<1>14. Logic(OR, x, z) \in 0..511
  BY <1>12, <1>13, OrAddress
<1> QED BY <1>1, <1>14 DEF x, y, z

\* The entry of a destination.
LEMMA DestTyped ==
  ASSUME NEW i \in W16
  PROVE  DestEntry(i) \in 0..511
<1> DEFINE n == FALSE
           t == TRUE
           x == E69(i, t, n).mpc
           y == E70(i, t, n).mpc
           z == DstMode(i)
           u == 0
<1>1. DestEntry(i) = 8 * x + 32 * y + z
  BY DEF DestEntry
<1>2. u \in 0..1
  OBVIOUS
<1> HIDE DEF n, t, u
<1>3. x \in 0..3 /\ y \in 0..7
  BY <1>2, DoubleDecoders
<1>4. z \in 0..7
  BY Fields
<1> HIDE DEF x, y, z
<1>5. 8 * x + 32 * y + z \in 0..511
  BY <1>3, <1>4
<1> QED BY <1>1, <1>5

\* Eight conditions.
LEMMA EightBits ==
  ASSUME NEW a, NEW b, NEW c, NEW d, NEW e, NEW f, NEW g, NEW h,
         a \in 0..1, b \in 0..1, c \in 0..1, d \in 0..1,
         e \in 0..1, f \in 0..1, g \in 0..1, h \in 0..1
  PROVE  Pack(<<a, b, c, d, e, f, g, h>>) \in 0..511
<1> DEFINE bits == <<a, b, c, d, e, f, g, h>>
<1>1. Len(bits) = 8 /\ \A k \in 1..8 : bits[k] \in 0..1
  OBVIOUS
<1> HIDE DEF bits
<1>2. HasBits(8, Pack(bits))
  BY <1>1, Packed
<1>3. Pack(bits) \in 0..511
  BY <1>2 DEF HasBits
<1> QED BY <1>3 DEF bits

\* The condition that a ROM lets through.
LEMMA Gated == ASSUME NEW t, NEW c, t \in 0..1, c \in 0..1 PROVE t * c \in 0..1
<1>1. CASE t = 0
  BY <1>1
<1>2. CASE t = 1
  BY <1>2
<1> QED BY <1>1, <1>2

\* The bits of a micro-branch.
LEMMA BranchTyped ==
  ASSUME NEW uw, IsMicroword(uw), NEW i \in W16, NEW a \in W16, NEW alu,
         alu.out \in W16, alu.cout \in 0..1, count \in 0..63, bxReg \in W16
  PROVE  BranchBits(uw, i, a, alu) \in 0..511
<1> DEFINE r == E102Rom[uw.but]
           sign == IF E68(i).byte THEN 7 ELSE 15
           o == alu.out
           cb == r.ir09 * Bit(i, 9)
           cz == r.ccZ * Flag(Slice(o, sign, 0) = 0)
           cc == r.count05 * Bit(count, 5)
           cs == r.sp15 * Bit(a, 15)
           c0 == r.bx00 * Bit(bxReg, 0)
           c1 == r.bx01 * Bit(bxReg, 1)
           cn == r.ccN * Bit(o, sign)
           ca == r.aluCout * alu.cout
<1>1. BranchBits(uw, i, a, alu) = Pack(<<cb, cz, cc, cs, c0, c1, cn, ca>>)
  BY DEF BranchBits
<1>2. uw.but \in 0..15
  BY DEF IsMicroword
<1>3. /\ r.aluCout \in 0..1 /\ r.ccN \in 0..1 /\ r.sp15 \in 0..1 /\ r.bx01 \in 0..1
      /\ r.bx00 \in 0..1 /\ r.count05 \in 0..1 /\ r.ccZ \in 0..1 /\ r.ir09 \in 0..1
  BY <1>2, BranchConditions
<1>4. sign \in 0..17 /\ count \in Int
  OBVIOUS
<1> HIDE DEF r, sign
<1>5. Flag(Slice(o, sign, 0) = 0) \in 0..1
  BY Flags
<1>6. Bit(count, 5) \in 0..1
  BY <1>4, Binary
<1>7. /\ Bit(i, 9) \in 0..1 /\ Bit(a, 15) \in 0..1 /\ Bit(bxReg, 0) \in 0..1
      /\ Bit(bxReg, 1) \in 0..1 /\ Bit(o, sign) \in 0..1
  BY <1>4, WordBit
<1>8. cb \in 0..1
  BY <1>3, <1>7, Gated
<1>9. cz \in 0..1
  BY <1>3, <1>5, Gated
<1>10. cc \in 0..1
  BY <1>3, <1>6, Gated
<1>11. cs \in 0..1 /\ c0 \in 0..1 /\ c1 \in 0..1 /\ cn \in 0..1
  BY <1>3, <1>7, Gated
<1>12. ca \in 0..1
  BY <1>3, Gated
<1> HIDE DEF cb, cz, cc, cs, c0, c1, cn, ca
<1>13. Pack(<<cb, cz, cc, cs, c0, c1, cn, ca>>) \in 0..511
  BY <1>8, <1>9, <1>10, <1>11, <1>12, EightBits
<1> QED BY <1>1, <1>13

\* The next address is one of the control store.
LEMMA NextTyped ==
  ASSUME NEW uw, IsMicroword(uw), NEW h, NEW x, NEW taken, x.ir \in W16,
         h.o.a \in W16, h.o.alu.out \in W16, h.o.alu.cout \in 0..1, count \in 0..63, bxReg \in W16
  PROVE  NextAddress(uw, h, x, taken) \in 0..511
<1> DEFINE i == x.ir
           a == h.o.a
           alu == h.o.alu
           bits == BranchBits(uw, i, a, alu)
           to == uw.next
           p == Logic(OR, to, bits)
           dest == IF uw.misc = BUT_DEST THEN DestEntry(i) ELSE 0
           branch == Logic(OR, p, dest)
           f == Flag(taken)
           q == Logic(OR, branch, f)
           next == IF x.aborted THEN 0 ELSE q
           entry == DecodeEntry(i, x.psw)
           r == Logic(OR, next, entry)
<1>1. NextAddress(uw, h, x, taken) = (IF irValid THEN r ELSE next)
  BY DEF NextAddress
<1>2. i \in W16 /\ a \in W16 /\ alu.out \in W16 /\ alu.cout \in 0..1 /\ to \in 0..511
  BY DEF IsMicroword
<1> HIDE DEF i, a, alu, to
<1>3. bits \in 0..511
  BY <1>2, BranchTyped
<1> HIDE DEF bits
<1>4. p \in 0..511
  BY <1>2, <1>3, OrAddress
<1> HIDE DEF p
<1>5. dest \in 0..511
  <2>1. DestEntry(i) \in 0..511
    BY <1>2, DestTyped
  <2> QED BY <2>1
<1> HIDE DEF dest
<1>6. branch \in 0..511
  BY <1>4, <1>5, OrAddress
<1> HIDE DEF branch
<1>7. f \in 0..511
  <2>1. f \in 0..1
    BY Flags
  <2> HIDE DEF f
  <2> QED BY <2>1
<1> HIDE DEF f
<1>8. q \in 0..511
  BY <1>6, <1>7, OrAddress
<1> HIDE DEF q
<1>9. next \in 0..511
  BY <1>8
<1> HIDE DEF next
<1>10. entry \in 0..511
  BY <1>2, DecodeTyped
<1> HIDE DEF entry
<1>11. r \in 0..511
  BY <1>9, <1>10, OrAddress
<1> HIDE DEF r
<1> QED BY <1>1, <1>9, <1>11

\* The counter has six bits.
LEMMA CountTyped ==
  ASSUME NEW c, c \in 0..63
  PROVE  ClockCount(c) \in 0..63
BY DEF ClockCount

\* A service leaves its vector: of a trap, or of a request.
LEMMA ServiceTyped ==
  ASSUME IsQueue(intc), Pending(intc) \subseteq W16, irCode \in 0..7,
         NEW uw, NEW i, NEW serv, NEW ps, NEW st
  PROVE  Service(uw, i, serv, ps, st).vector \in W16
<1> DEFINE svc == Service(uw, i, serv, ps, st)
           tbit == Bit(ps, 4) = 1 /\ E54(Pins(i, serv), Bit(ps, 15)).enabTbit
           v == ServiceVector(E51(E52(tbit, st, busError, mmuKte, irCode)), mmuKte)
           g == FirstGrantable(intc, Slice(ps, 7, 5))
<1>1. \/ svc.do = "interrupt" \/ svc.vector = 0 \/ svc.vector = v
  BY DEF Service, TrapToService
<1>2. v \in W16
  <2> HIDE DEF tbit
  <2> QED BY TrapVector
<1>3. CASE svc.do = "interrupt"
  <2>1. g \in DOMAIN intc /\ svc.vector = intc[g]
    BY <1>3, ServiceGrants
  <2> QED BY <2>1 DEF Pending
<1> HIDE DEF v
<1> QED BY <1>1, <1>2, <1>3, Small

-----------------------------------------------------------------------------
(* A micro-cycle *)

\* Every register of the processor keeps its width, whatever is in memory: the
\* scratchpad, the buses and B and BX are words, the micro-address is one of the
\* control store's, and the address register one of the bus.
CpuTypeOK ==
  /\ mpc \in 0..511 /\ sp \in [0..15 -> W16]
  /\ ir \in W16 /\ irCode \in 0..7
  /\ bReg \in W16 /\ bxReg \in W16
  /\ count \in 0..63 /\ ovx \in 0..1 /\ rotCbit \in 0..1
  /\ ba \in W18 /\ vba \in W16
  /\ BusTypeOK
  /\ IsQueue(intc) /\ Pending(intc) \subseteq W16
  /\ servIr \in BOOLEAN /\ irValid \in BOOLEAN
  /\ haltRqst \in BOOLEAN /\ busError \in BOOLEAN /\ stov \in BOOLEAN /\ stovEn \in BOOLEAN
  /\ mmuKte \in BOOLEAN /\ resetInst \in BOOLEAN /\ halted \in BOOLEAN

\* The operands of a cycle.
IsOperands(o) ==
  /\ o.slot \in 0..15 /\ o.a \in W16 /\ o.b \in W16
  /\ o.alu.out \in W16 /\ o.alu.cout \in 0..1
  /\ o.disMsyn \in BOOLEAN /\ o.bus \in 0..3

\* A cycle takes its operands from the registers.
LEMMA OperandsTyped ==
  ASSUME CpuTypeOK, NEW uw, IsMicroword(uw)
  PROVE  IsOperands(Operands(uw))
<1> DEFINE pins    == Pins(ir, servIr)
           slot    == SpaResolve(uw, uw.spaSrc, ir, psw, ba)
           a       == sp[slot]
           byteH   == E68(pins).byte \/ irValid
           odd     == uw.bufDatTran /\ (IF uw.loadBa THEN a ELSE vba) % 2 = 1
           movL    == E69(pins, uw.misc = BUT_DEST, irValid).movL
           d80     == E80(uw.ssMux, uw.bufDatTran, uw.aux, byteH, odd, movL)
           disMsyn == DisableMsynPlus1(d80, slot, uw.bufDatTran)
           op      == AluControl(uw, ir, psw)
           b       == IF op.bleg = 3 /\ disMsyn THEN 0 ELSE BMux(op.bleg, bReg, bxReg)
           alu     == Alu(op, a, b)
           bus     == IF uw.busCtl = DATOB /\ ~byteH THEN DATO ELSE uw.busCtl
           o       == Operands(uw)
<1>1. o = [slot |-> slot, a |-> a, b |-> b, alu |-> alu, e80 |-> d80, disMsyn |-> disMsyn,
           bus |-> bus]
  BY DEF Operands
<1>2. disMsyn \in BOOLEAN
  BY DEF DisableMsynPlus1
<1>3. bus \in 0..3
  BY DEF IsMicroword, DATO
<1> HIDE DEF o, disMsyn, bus, d80
<1>4. slot \in 0..15
  <2>1. ir \in W16 /\ psw \in W16 /\ ba \in W18 /\ uw.spaSrc \in 0..3
    BY DEF CpuTypeOK, BusTypeOK, IsMicroword
  <2> QED BY <2>1, SpaTyped
<1> HIDE DEF slot
<1>5. a \in W16
  BY <1>4 DEF CpuTypeOK
<1>6. IsOperation(op)
  <2>1. ir \in W16 /\ psw \in W16
    BY DEF CpuTypeOK, BusTypeOK
  <2> QED BY <2>1, AluControlled
<1> HIDE DEF op, a
<1>7. b \in W16
  <2> DEFINE n == op.bleg
             m == BMux(n, bReg, bxReg)
  <2>1. n \in 0..3
    BY <1>6 DEF IsOperation
  <2>2. bReg \in W16 /\ bxReg \in W16
    BY DEF CpuTypeOK
  <2>3. b = 0 \/ b = m
    OBVIOUS
  <2> HIDE DEF n, b
  <2>4. m \in W16
    BY <2>1, <2>2, MuxTyped
  <2> QED BY <2>3, <2>4, Small
<1> HIDE DEF b
<1>8. alu.out \in W16 /\ alu.cout \in 0..1
  BY <1>5, <1>6, <1>7, AluTyped
<1> HIDE DEF alu
<1>9. IsOperands(o)
  BY <1>1, <1>2, <1>3, <1>4, <1>5, <1>7, <1>8 DEF IsOperands
<1> QED BY <1>9 DEF o

\* What the multiplexers put on the bus.
LEMMA SsOutTyped ==
  ASSUME psw \in W16, NEW uw, IsMicroword(uw), NEW o, IsOperands(o), NEW d \in W16
  PROVE  SsOut(uw, o, d) \in W16
<1> DEFINE n == uw.amuxL
           u == o.alu.out
           w == AMux(n, d, u, psw)
           e == o.e80
<1>1. n \in 0..3 /\ u \in W16
  BY DEF IsMicroword, IsOperands
<1>2. SsOut(uw, o, d) = SsMux(w, e)
  BY DEF SsOut
<1> HIDE DEF n, u, e
<1>3. w \in W16
  BY <1>1, MuxTyped
<1> HIDE DEF w
<1> QED BY <1>2, <1>3, BytesTyped

\* The address of a cycle.
LEMMA AddressTyped ==
  ASSUME CpuTypeOK, NEW uw, IsMicroword(uw), NEW o, IsOperands(o)
  PROVE  LET l == LoadBa(uw, o) IN l.ba \in W18 /\ l.vba \in W16 /\ l.mmu \in MmuRegisters
<1> DEFINE md == ReferenceMode(uw)
           on == RelocateH(uw)
           a == o.a
           t == Translate(mmu, a, md, MAP, on)
           l == LoadBa(uw, o)
<1>1. \/ l.ba = t.pba /\ l.vba = a /\ l.mmu = t.mmu
      \/ l.ba = ba /\ l.vba = vba /\ l.mmu = mmu
  BY DEF LoadBa
<1>2. md \in 0..3
  <2> DEFINE p == psw
             m1 == Slice(p, 13, 12)
             m2 == Slice(p, 15, 14)
  <2>1. p \in Nat
    BY DEF CpuTypeOK, BusTypeOK, W16
  <2>2. md = 0 \/ md = m1 \/ md = m2
    BY DEF ReferenceMode
  <2> HIDE DEF p, md
  <2>3. HasBits(2, m1) /\ HasBits(2, m2)
    BY <2>1, Sliced
  <2> HIDE DEF m1, m2
  <2>4. m1 \in 0..3 /\ m2 \in 0..3
    BY <2>3 DEF HasBits
  <2> QED BY <2>2, <2>4
<1>3. a \in W16 /\ mmu \in MmuRegisters /\ MAP \in 0..4
  BY DEF IsOperands, CpuTypeOK, BusTypeOK, MAP
<1> HIDE DEF md, on, a, l
<1>4. t.mmu \in MmuRegisters /\ t.pba \in W18
  BY <1>2, <1>3, TranslateTyped
<1> HIDE DEF t
<1>5. ba \in W18 /\ vba \in W16
  BY DEF CpuTypeOK
<1>6. l.ba \in W18 /\ l.vba \in W16 /\ l.mmu \in MmuRegisters
  BY <1>1, <1>3, <1>4, <1>5
<1> QED BY <1>6 DEF l

\* The access check of a cycle.
LEMMA CheckTyped ==
  ASSUME NEW uw, IsMicroword(uw), NEW o, IsOperands(o), NEW l, l.vba \in W16, l.mmu \in MmuRegisters
  PROVE  LET k == AccessCheck(uw, o, l)
         IN  k.mmu \in MmuRegisters /\ k.fault \in BOOLEAN /\ k.cycle \in BOOLEAN
<1> DEFINE m == l.mmu
           va == l.vba
           md == m.mode
           bus == o.bus
           t == Relocate(m, va, md, bus)
           k == AccessCheck(uw, o, l)
<1>1. /\ k.cycle \in BOOLEAN
      /\ \/ k.mmu = t.mmu /\ k.fault = t.abort
         \/ k.mmu = m /\ k.fault = FALSE
  BY DEF AccessCheck
<1>2. m \in MmuRegisters /\ va \in W16 /\ md \in 0..3 /\ bus \in 0..4
  BY DEF IsOperands, MmuRegisters
<1> HIDE DEF m, va, md, bus, k
<1>3. t.mmu \in MmuRegisters /\ t.abort \in BOOLEAN
  BY <1>2, RelocateTyped
<1> HIDE DEF t
<1>4. k.mmu \in MmuRegisters /\ k.fault \in BOOLEAN /\ k.cycle \in BOOLEAN
  BY <1>1, <1>2, <1>3
<1> QED BY <1>4 DEF k

\* The first half of a cycle.
IsHalf(h) ==
  /\ IsOperands(h.o)
  /\ h.l.ba \in W18 /\ h.l.vba \in W16
  /\ h.done.ok \in BOOLEAN /\ h.done.data \in W16 /\ h.done.mem \in [Memory -> W16]
  /\ h.done.psw \in W16 /\ h.done.mmu \in MmuRegisters
  /\ h.odd \in BOOLEAN /\ h.fault \in BOOLEAN

\* Its operands, address and bus cycle have their widths.
LEMMA HalfTyped ==
  ASSUME CpuTypeOK, NEW uw, IsMicroword(uw)
  PROVE  IsHalf(BusHalf(uw))
<1> DEFINE h == BusHalf(uw)
           o == Operands(uw)
           l == LoadBa(uw, o)
           k == AccessCheck(uw, o, l)
           bus == o.bus
           adr == l.ba
           cycle == k.cycle
           m == k.mmu
           ss == SsOut(uw, o, unibusData)
           t == Transfer(cycle, bus, adr, ss, m)
<1>1. h = BusCycle(uw, o, l, k)
  BY DEF BusHalf
<1> HIDE DEF o
<1>2. IsOperands(o)
  BY OperandsTyped DEF o
<1> HIDE DEF l
<1>3. l.ba \in W18 /\ l.vba \in W16 /\ l.mmu \in MmuRegisters
  BY <1>2, AddressTyped DEF l
<1> HIDE DEF k
<1>4. k.mmu \in MmuRegisters /\ k.fault \in BOOLEAN /\ k.cycle \in BOOLEAN
  BY <1>2, <1>3, CheckTyped DEF k
<1>5. BusTypeOK /\ psw \in W16 /\ unibusData \in W16
  BY DEF CpuTypeOK, BusTypeOK
<1> HIDE DEF ss
<1>6. ss \in W16
  BY <1>2, <1>5, SsOutTyped DEF ss
<1>7. h.o = o /\ h.l = l /\ h.fault = k.fault /\ h.odd \in BOOLEAN /\ h.done = t
  BY <1>1 DEF BusCycle, ss
<1>8. bus \in 0..3 /\ adr \in W18 /\ cycle \in BOOLEAN /\ m \in MmuRegisters
  BY <1>2, <1>3, <1>4 DEF IsOperands
<1> HIDE DEF bus, adr, cycle, m
<1>9. /\ t.ok \in BOOLEAN /\ t.data \in W16 /\ t.mem \in [Memory -> W16]
      /\ t.psw \in W16 /\ t.mmu \in MmuRegisters
  BY <1>5, <1>6, <1>8, TransferTyped
<1> HIDE DEF t, h
<1>10. IsHalf(h)
  BY <1>2, <1>3, <1>4, <1>7, <1>9 DEF IsHalf
<1> QED BY <1>10 DEF h

\* What miscellaneous control leaves.
IsControl(x) ==
  /\ x.ir \in W16 /\ x.psw \in W16 /\ x.ss \in W16
  /\ x.servIr \in BOOLEAN /\ x.dbe \in BOOLEAN /\ x.setBe \in BOOLEAN
  /\ x.loadIr \in BOOLEAN /\ x.aborted \in BOOLEAN /\ x.stov \in BOOLEAN

\* It has its widths, of a cycle that has them.
LEMMA ControlTyped ==
  ASSUME CpuTypeOK, NEW uw, IsMicroword(uw), NEW h, IsHalf(h), NEW d54, NEW d87
  PROVE  IsControl(MiscControl(uw, h, d54, d87))
<1> DEFINE x       == MiscControl(uw, h, d54, d87)
           aborted == h.cancel \/ ~h.done.ok
           setBe   == h.odd \/ ~h.done.ok
           dbe     == setBe /\ d87.enabDbe
           misc    == IF aborted THEN NOP ELSE uw.misc
           loadIr  == misc = LOAD_IR
           o       == h.o
           data    == h.done.data
           old     == h.done.psw
           ss      == SsOut(uw, o, data)
           a       == o.a
           b       == o.b
           out     == o.alu.out
           low     == h.pswLow
           loaded  == LoadPsw(uw, d54, old, data)
           coded   == LoadCc(uw, low, old, a, b, out, ss)
           shown   == stov \/ /\ misc = ENAB_STOV /\ stovEn /\ Bit(psw, 15) = 0
                              /\ h.o.slot = 9 /\ h.o.alu.out < 256
<1>1. x = [misc |-> misc, aborted |-> aborted, setBe |-> setBe, dbe |-> dbe, loadIr |-> loadIr,
           ss |-> ss,
           ir |-> IF loadIr THEN data ELSE IF dbe THEN 0 ELSE ir,
           servIr |-> servIr /\ ~loadIr /\ ~dbe,
           psw |-> CASE misc = LOAD_PSW -> loaded [] misc = LOAD_CC -> coded [] OTHER -> old,
           stov |-> shown]
  BY DEF MiscControl
<1>2. IsOperands(o) /\ data \in W16 /\ old \in W16
  BY DEF IsHalf
<1>3. psw \in W16 /\ ir \in W16 /\ rotCbit \in 0..1
  BY DEF CpuTypeOK, BusTypeOK
<1>4. a \in W16 /\ b \in W16 /\ out \in W16
  BY <1>2 DEF IsOperands
<1>5. aborted \in BOOLEAN /\ setBe \in BOOLEAN /\ dbe \in BOOLEAN /\ loadIr \in BOOLEAN
      /\ (servIr /\ ~loadIr /\ ~dbe) \in BOOLEAN /\ shown \in BOOLEAN
  OBVIOUS
<1> HIDE DEF o, data, old, aborted, setBe, dbe, misc, loadIr, shown
<1>6. ss \in W16
  BY <1>2, <1>3, SsOutTyped
<1> HIDE DEF ss, a, b, out
<1>7. loaded \in W16
  BY <1>2, LoadPswTyped
<1>8. coded \in W16
  BY <1>2, <1>3, <1>4, <1>6, LoadCcTyped
<1> HIDE DEF loaded, coded, low
<1>9. x.psw \in W16
  <2>1. x.psw = loaded \/ x.psw = coded \/ x.psw = old
    BY <1>1
  <2> QED BY <2>1, <1>2, <1>7, <1>8
<1>10. x.ir \in W16
  <2>1. x.ir = data \/ x.ir = 0 \/ x.ir = ir
    BY <1>1
  <2> QED BY <2>1, <1>2, <1>3, Small
<1>11. /\ x.ss = ss /\ x.servIr = (servIr /\ ~loadIr /\ ~dbe) /\ x.dbe = dbe /\ x.setBe = setBe
       /\ x.loadIr = loadIr /\ x.aborted = aborted /\ x.stov = shown
  BY <1>1
<1> HIDE DEF x
<1>12. IsControl(x)
  BY <1>5, <1>6, <1>9, <1>10, <1>11 DEF IsControl
<1> QED BY <1>12 DEF x

\* The shift registers keep their widths.
LEMMA ShiftsTyped ==
  ASSUME CpuTypeOK, NEW h, IsHalf(h), NEW x, IsControl(x), NEW svc, svc.vector \in W16,
         NEW d62, d62.serial \in 0..1, d62.bModeMask \in 0..3, d62.rotC \in 0..1,
         NEW d87, d87.bMode \in 0..3, d87.bxMode \in 0..3, d87.shiftMux \in 0..3, NEW byte
  PROVE  LET s == BregUpdate(h, x, svc, d62, d87, byte)
         IN  s.b \in W16 /\ s.bx \in W16 /\ s.rotCbit \in 0..1
<1> DEFINE s     == BregUpdate(h, x, svc, d62, d87, byte)
           taken == svc.do \in {"trap", "interrupt"}
           b15   == Bit(bReg, 15)
           x15   == Bit(bxReg, 15)
           b8    == Bit(bReg, 8)
           x8    == Bit(bxReg, 8)
           sr    == d62.serial
           low   == bReg % 2
           cout  == h.o.alu.cout
           inB   == <<b15, sr, 0, x15>>[d87.shiftMux + 1]
           inBx  == IF d87.bxMode = 2 THEN low ELSE <<cout, ovx, 1, 0>>[d87.shiftMux + 1]
           load  == IF taken THEN svc.vector ELSE x.ss
           in07  == IF byte THEN sr ELSE b8
           mode  == Logic(AND, d87.bMode, d62.bModeMask)
           bxMode == d87.bxMode
           b     == ShiftRegister(mode, bReg, load, inB, in07)
           bx    == ShiftRegister(bxMode, bxReg, load, inBx, x8)
<1>1. s = [b |-> IF taken THEN svc.vector ELSE b, bx |-> bx, rotCbit |-> d62.rotC]
  BY DEF BregUpdate
<1>2. bReg \in W16 /\ bxReg \in W16 /\ ovx \in 0..1
  BY DEF CpuTypeOK
<1>3. b15 \in 0..1 /\ x15 \in 0..1 /\ b8 \in 0..1 /\ x8 \in 0..1
  BY <1>2, WordBit
<1>4. low \in 0..1
  BY <1>2 DEF W16
<1>5. cout \in 0..1 /\ sr \in 0..1
  BY DEF IsHalf, IsOperands
<1> HIDE DEF b15, x15, b8, x8, low, cout, sr
<1>6. inB \in 0..1 /\ inBx \in 0..1
  <2>1. d87.shiftMux + 1 \in 1..4
    OBVIOUS
  <2>2. \A k \in 1..4 : <<b15, sr, 0, x15>>[k] \in 0..1 /\ <<cout, ovx, 1, 0>>[k] \in 0..1
    BY <1>2, <1>3, <1>5
  <2> QED BY <1>4, <2>1, <2>2
<1>7. in07 \in 0..1
  BY <1>3, <1>5
<1>8. load \in W16
  BY DEF IsControl
<1>9. mode \in 0..3 /\ bxMode \in 0..3
  <2> DEFINE m == d87.bMode  k == d62.bModeMask
  <2>1. m \in 0..3 /\ k \in 0..3
    OBVIOUS
  <2> HIDE DEF m, k
  <2>2. m \in W16 /\ k \in W16
    BY <2>1 DEF W16
  <2>3. Logic(AND, m, k) \in 0..k
    BY <2>2, AndBelow
  <2>4. Logic(AND, m, k) \in 0..3
    <3> DEFINE l == Logic(AND, m, k)
    <3>1. l \in 0..k
      BY <2>3
    <3> HIDE DEF l
    <3> QED BY <2>1, <3>1 DEF l
  <2> QED BY <2>4 DEF m, k
<1> HIDE DEF inB, inBx, load, in07, mode, bxMode
<1>10. b \in W16
  BY <1>2, <1>6, <1>7, <1>8, <1>9, ShiftTyped
<1>11. bx \in W16
  BY <1>2, <1>3, <1>6, <1>8, <1>9, ShiftTyped
<1> HIDE DEF b, bx
<1>12. s.b \in W16 /\ s.bx \in W16 /\ s.rotCbit \in 0..1
  BY <1>1, <1>10, <1>11
<1> QED BY <1>12 DEF s

\* A queue of words.
IsWordQueue(q) == IsQueue(q) /\ Pending(q) \subseteq W16

\* Taking a request out leaves words.
LEMMA SwapOutWords ==
  ASSUME NEW q, IsWordQueue(q), NEW i \in DOMAIN q
  PROVE  IsWordQueue(SwapOut(q, i))
<1> DEFINE S == Pending(q)
           t == SwapOut(q, i)
<1>1. q \in Seq(S) /\ S \subseteq W16
  BY DEF IsWordQueue, IsQueue
<1> HIDE DEF S
<1>2. t \in Seq(S)
  BY <1>1, SwapOutKeeps
<1> HIDE DEF t
<1>3. IsQueue(t)
  BY <1>2, QueueOfPending DEF IsQueue
<1>4. Pending(t) \subseteq S
  <2>1. DOMAIN t = 1..Len(t) /\ \A j \in 1..Len(t) : t[j] \in S
    BY <1>2
  <2> QED BY <2>1 DEF Pending
<1>5. IsWordQueue(t)
  BY <1>1, <1>3, <1>4 DEF IsWordQueue
<1> QED BY <1>5 DEF t

\* A request of a word adds it, or nothing.
LEMMA RequestWords ==
  ASSUME NEW q, IsWordQueue(q), NEW v \in W16
  PROVE  IsWordQueue(Request(q, v))
<1> DEFINE t == Append(q, v)
<1>1. q \in Seq(W16)
  <2>1. q \in Seq(Pending(q)) /\ Pending(q) \subseteq W16
    BY DEF IsWordQueue, IsQueue
  <2> HIDE DEF Pending
  <2>2. \A j \in DOMAIN q : q[j] \in W16
    BY <2>1
  <2>3. DOMAIN q = 1..Len(q) /\ Len(q) \in Nat /\ q = [j \in 1..Len(q) |-> q[j]]
    BY <2>1
  <2> QED BY <2>2, <2>3
<1>2. t \in Seq(W16)
  BY <1>1
<1> HIDE DEF t
<1>3. IsWordQueue(t)
  <2>1. IsQueue(t)
    BY <1>2, QueueOfPending DEF IsQueue
  <2>2. DOMAIN t = 1..Len(t) /\ \A j \in 1..Len(t) : t[j] \in W16
    BY <1>2
  <2>3. Pending(t) \subseteq W16
    BY <2>2 DEF Pending
  <2> QED BY <2>1, <2>3 DEF IsWordQueue
<1>4. Request(q, v) = q \/ Request(q, v) = t
  BY DEF Request, t
<1> QED BY <1>3, <1>4

\* No requests are words.
LEMMA EmptyWords == IsWordQueue(<<>>)
<1>1. Pending(<<>>) = {}
  BY DEF Pending
<1> QED BY <1>1 DEF IsWordQueue, IsQueue

\* What a cycle leaves in the registers.
IsLeft(c) ==
  /\ c.mpc \in 0..511 /\ c.sp \in [0..15 -> W16]
  /\ c.ir \in W16 /\ c.irCode \in 0..7
  /\ c.bReg \in W16 /\ c.bxReg \in W16
  /\ c.count \in 0..63 /\ c.ovx \in 0..1 /\ c.rotCbit \in 0..1
  /\ c.ba \in W18 /\ c.vba \in W16
  /\ c.mem \in [Memory -> W16] /\ c.psw \in W16 /\ c.mmu \in MmuRegisters /\ c.unibusData \in W16
  /\ IsWordQueue(c.intc)
  /\ c.servIr \in BOOLEAN /\ c.irValid \in BOOLEAN
  /\ c.haltRqst \in BOOLEAN /\ c.busError \in BOOLEAN /\ c.stov \in BOOLEAN /\ c.stovEn \in BOOLEAN
  /\ c.mmuKte \in BOOLEAN /\ c.resetInst \in BOOLEAN /\ c.halted \in BOOLEAN

\* A slot of the scratchpad takes a word, or the low byte of one.
LEMMA SlotTyped ==
  ASSUME sp \in [0..15 -> W16], NEW dest \in 0..15, NEW w \in W16, NEW low
  PROVE  [sp EXCEPT ![dest] = IF low THEN (@ - (@ % 256)) + (w % 256) ELSE w] \in [0..15 -> W16]
<1> DEFINE v == sp[dest]
           k == (v - (v % 256)) + (w % 256)
           n == IF low THEN k ELSE w
<1>1. v \in W16
  OBVIOUS
<1> HIDE DEF v
<1>2. k \in W16
  BY <1>1, LowByte
<1> HIDE DEF k
<1>3. n \in W16
  BY <1>2
<1>4. [sp EXCEPT ![dest] = n] \in [0..15 -> W16]
  <2> HIDE DEF n
  <2> QED BY <1>3
<1> QED BY <1>4 DEF v, k, n

\* The counter's next value.
LEMMA CounterTyped ==
  ASSUME count \in 0..63, NEW ss \in W16, NEW misc
  PROVE  (CASE misc = LOAD_COUNT -> ss % 64 [] misc = CLK_COUNT -> ClockCount(count)
            [] OTHER -> count) \in 0..63
<1> DEFINE s == ss % 64
           c == ClockCount(count)
<1>1. s \in 0..63
  BY DEF W16
<1>2. c \in 0..63
  BY CountTyped
<1> HIDE DEF s, c
<1>3. (CASE misc = LOAD_COUNT -> s [] misc = CLK_COUNT -> c [] OTHER -> count) \in 0..63
  BY <1>1, <1>2
<1> QED BY <1>3 DEF s, c

\* Memory management after a fetch and INIT.
LEMMA MmuLeftTyped ==
  ASSUME NEW d \in MmuRegisters, NEW pc \in W16, NEW fetch, NEW pulse
  PROVE  (LET m == IF fetch THEN MmuFetch(d, pc) ELSE d
          IN  IF pulse THEN [m EXCEPT !.sr0 = 0] ELSE m) \in MmuRegisters
<1> DEFINE m == IF fetch THEN MmuFetch(d, pc) ELSE d
           z == 0
<1>1. m \in MmuRegisters
  BY FetchTyped
<1>2. z \in W16
  BY Small
<1> HIDE DEF m, z
<1>3. [m EXCEPT !.sr0 = z] \in MmuRegisters
  BY <1>1, <1>2 DEF MmuRegisters
<1>4. (IF pulse THEN [m EXCEPT !.sr0 = z] ELSE m) \in MmuRegisters
  BY <1>1, <1>3
<1> QED BY <1>4 DEF m, z

\* A service has a word to load, and grants a request of the queue.
IsService(svc, ps) ==
  /\ svc.vector \in W16
  /\ svc.do = "interrupt" => FirstGrantable(intc, Slice(ps, 7, 5)) \in DOMAIN intc

\* The shift registers hold words.
IsShift(s) == s.b \in W16 /\ s.bx \in W16 /\ s.rotCbit \in 0..1

\* A cycle's results have their widths.
LEMMA LeavesTyped ==
  ASSUME CpuTypeOK, NEW uw, IsMicroword(uw), NEW h, IsHalf(h), NEW x, IsControl(x),
         NEW svc, IsService(svc, x.psw), NEW mpc1, mpc1 \in 0..511, NEW shift, IsShift(shift),
         NEW d54, d54.startReset \in BOOLEAN, NEW d87
  PROVE  IsLeft(Leaves(uw, h, x, svc, mpc1, shift, d54, d87))
<1> DEFINE c       == Leaves(uw, h, x, svc, mpc1, shift, d54, d87)
           done    == h.done
           taken   == svc.do \in {"trap", "interrupt"}
           sel     == uw.spaDst
           i       == x.ir
           p       == x.psw
           adr     == h.l.ba
           ss      == x.ss
           misc    == x.misc
           dest    == SpaResolve(uw, sel, i, p, adr)
           stovEn1 == IF svc.stovServ THEN ~stovEn ELSE uw.butService \/ stovEn
           pulse   == InitPulse(d54, resetInst)
           low     == h.o.e80.disableUpper
           user    == Bit(psw, 15)
           sp1     == [sp EXCEPT ![dest] = IF low THEN (@ - (@ % 256)) + (ss % 256) ELSE ss]
           count1  == CASE misc = LOAD_COUNT -> ss % 64 [] misc = CLK_COUNT -> ClockCount(count)
                        [] OTHER -> count
           ovx1    == IF x.loadIr THEN 0
                      ELSE IF d87.enabOvx /\ Bit(bReg, 15) # Bit(bReg, 14) THEN 1 ELSE ovx
           coded   == LoadedIrCode(i, user)
           halt1   == IF x.loadIr THEN E53Enabled(i) /\ E53(i, user).haltRqst
                      ELSE (x.dbe \/ haltRqst) /\ ~taken
           mmu1    == LET m == IF x.loadIr THEN MmuFetch(done.mmu, sp[8]) ELSE done.mmu
                      IN  IF pulse THEN [m EXCEPT !.sr0 = 0] ELSE m
           g       == FirstGrantable(intc, Slice(p, 7, 5))
           q       == SwapOut(intc, g)
           intc1   == IF svc.do = "interrupt" THEN q ELSE IF pulse THEN <<>> ELSE intc
<1>0. /\ svc.vector \in W16 /\ shift.b \in W16 /\ shift.bx \in W16 /\ shift.rotCbit \in 0..1
      /\ svc.do = "interrupt" => g \in DOMAIN intc
  BY DEF IsService, IsShift
<1>1. c =
   [mpc |-> mpc1,
    sp |-> IF uw.spaDst = SPA_RBA \/ x.aborted THEN sp ELSE sp1,
    ir |-> x.ir,
    servIr |-> x.servIr \/ (uw.butService /\ svc.do # "halt"),
    irValid |-> x.loadIr,
    ba |-> h.l.ba,
    vba |-> h.l.vba,
    unibusData |-> IF svc.do = "interrupt" THEN svc.vector ELSE done.data,
    psw |-> x.psw,
    mem |-> done.mem,
    count |-> count1,
    ovx |-> ovx1,
    irCode |-> IF x.loadIr THEN coded ELSE IF taken THEN 0 ELSE irCode,
    haltRqst |-> halt1,
    busError |-> (busError \/ x.setBe) /\ ~taken,
    stovEn |-> stovEn1,
    stov |-> x.stov /\ stovEn1,
    mmuKte |-> (mmuKte \/ h.fault) /\ svc.do # "trap",
    mmu |-> mmu1,
    bReg |-> shift.b, bxReg |-> shift.bx, rotCbit |-> shift.rotCbit,
    resetInst |-> d54.startReset,
    halted |-> x.dbe \/ svc.do = "halt",
    intc |-> intc1]
  BY DEF Leaves
<1>2. /\ sp \in [0..15 -> W16] /\ psw \in W16 /\ count \in 0..63 /\ ovx \in 0..1
      /\ irCode \in 0..7 /\ IsWordQueue(intc)
  BY DEF CpuTypeOK, BusTypeOK, IsWordQueue
<1>3. i \in W16 /\ p \in W16 /\ ss \in W16
  BY DEF IsControl
<1>4. adr \in W18 /\ sel \in 0..3
  BY DEF IsHalf, IsMicroword
<1>5. ovx1 \in 0..1
  BY <1>2
<1>6. halt1 \in BOOLEAN
  BY DEF E53, IsControl
<1>7. stovEn1 \in BOOLEAN
  OBVIOUS
<1>8. done.data \in W16 /\ done.mem \in [Memory -> W16] /\ done.mmu \in MmuRegisters
  BY DEF IsHalf
<1> HIDE DEF i, p, adr, sel, ss, ovx1, halt1, stovEn1, misc, done
<1>9. dest \in 0..15
  BY <1>3, <1>4, SpaTyped
<1> HIDE DEF dest, low
<1>10. sp1 \in [0..15 -> W16]
  BY <1>2, <1>3, <1>9, SlotTyped
<1>11. count1 \in 0..63
  BY <1>2, <1>3, CounterTyped
<1>12. user \in 0..1
  BY <1>2, WordBit
<1> HIDE DEF user
<1>13. coded \in 0..7
  BY <1>3, <1>12, IrCodeTyped
<1>14. sp[8] \in W16
  BY <1>2
<1>15. mmu1 \in MmuRegisters
  <2> DEFINE d == done.mmu  pc == sp[8]  f == x.loadIr
  <2>1. d \in MmuRegisters /\ pc \in W16
    BY <1>8, <1>14
  <2> HIDE DEF d, pc, f, pulse
  <2>2. (LET m == IF f THEN MmuFetch(d, pc) ELSE d
         IN  IF pulse THEN [m EXCEPT !.sr0 = 0] ELSE m) \in MmuRegisters
    BY <2>1, MmuLeftTyped
  <2> QED BY <2>2 DEF d, pc, f
<1>16. IsWordQueue(intc1)
  <2>1. CASE svc.do = "interrupt"
    <3>1. g \in DOMAIN intc
      BY <1>0, <2>1
    <3> HIDE DEF g
    <3>2. IsWordQueue(q)
      BY <1>2, <3>1, SwapOutWords
    <3> QED BY <2>1, <3>2
  <2>2. CASE svc.do # "interrupt"
    <3>1. intc1 = <<>> \/ intc1 = intc
      BY <2>2
    <3> QED BY <1>2, <3>1, EmptyWords
  <2> QED BY <2>1, <2>2
<1> HIDE DEF sp1, count1, coded, mmu1, intc1, taken
<1> DEFINE sp2  == IF uw.spaDst = SPA_RBA \/ x.aborted THEN sp ELSE sp1
           code == IF x.loadIr THEN coded ELSE IF taken THEN 0 ELSE irCode
           data == IF svc.do = "interrupt" THEN svc.vector ELSE done.data
<1>17. sp2 \in [0..15 -> W16] /\ code \in 0..7 /\ data \in W16
  BY <1>0, <1>2, <1>8, <1>10, <1>13
<1> DEFINE bs == x.servIr \/ (uw.butService /\ svc.do # "halt")
           bb == (busError \/ x.setBe) /\ ~taken
           bt == x.stov /\ stovEn1
           bk == (mmuKte \/ h.fault) /\ svc.do # "trap"
           bh == x.dbe \/ svc.do = "halt"
<1>18. bs \in BOOLEAN /\ bb \in BOOLEAN /\ bt \in BOOLEAN /\ bk \in BOOLEAN /\ bh \in BOOLEAN
  OBVIOUS
<1>19. /\ c.mpc = mpc1 /\ c.sp = sp2 /\ c.ir = x.ir /\ c.irCode = code /\ c.bReg = shift.b
       /\ c.bxReg = shift.bx /\ c.count = count1 /\ c.ovx = ovx1 /\ c.rotCbit = shift.rotCbit
       /\ c.ba = h.l.ba /\ c.vba = h.l.vba /\ c.mem = done.mem /\ c.psw = x.psw /\ c.mmu = mmu1
       /\ c.unibusData = data /\ c.intc = intc1
  BY <1>1
<1>20. /\ c.servIr = bs /\ c.irValid = x.loadIr /\ c.haltRqst = halt1 /\ c.busError = bb
       /\ c.stov = bt /\ c.stovEn = stovEn1 /\ c.mmuKte = bk /\ c.resetInst = d54.startReset
       /\ c.halted = bh
  BY <1>1
<1> HIDE DEF c, sp2, code, data, bs, bb, bt, bk, bh
<1>21. /\ x.ir \in W16 /\ x.psw \in W16 /\ x.loadIr \in BOOLEAN
       /\ h.l.ba \in W18 /\ h.l.vba \in W16
  BY DEF IsControl, IsHalf
<1>22. IsLeft(c)
  BY <1>0, <1>5, <1>6, <1>7, <1>8, <1>11, <1>15, <1>16, <1>17, <1>18, <1>19, <1>20, <1>21 DEF IsLeft
<1> QED BY <1>22 DEF c

\* The cycle of any micro-word leaves the widths.
LEMMA CycleTyped ==
  ASSUME CpuTypeOK, NEW uw, IsMicroword(uw)
  PROVE  IsLeft(Cycle(uw, BusHalf(uw), E54(Pins(ir, servIr), Bit(psw, 15)), E87Rom[uw.bbx]))
<1> DEFINE h == BusHalf(uw)
           d54 == E54(Pins(ir, servIr), Bit(psw, 15))
           d87 == E87Rom[uw.bbx]
           byte == E68(ir).byte
           x == MiscControl(uw, h, d54, d87)
           i == x.ir  serv == x.servIr  p == x.psw  st == x.stov
           svc == Service(uw, i, serv, p, st)
           taken == svc.do \in {"trap", "interrupt"}
           next == NextAddress(uw, h, x, taken)
           alu == h.o.alu
           d62 == ShiftControl(next, alu, byte)
           shift == BregUpdate(h, x, svc, d62, d87, byte)
           c == Leaves(uw, h, x, svc, next, shift, d54, d87)
<1>1. Cycle(uw, h, d54, d87) = c
  BY DEF Cycle
<1>2. d54.startReset \in BOOLEAN
  BY DEF E54
<1>3. d87.bMode \in 0..3 /\ d87.bxMode \in 0..3 /\ d87.shiftMux \in 0..3
  <2>1. uw.bbx \in 0..15
    BY DEF IsMicroword
  <2> QED BY <2>1, ShiftControls
<1>4. IsHalf(h)
  BY HalfTyped
<1> HIDE DEF h, d54, d87, byte
<1>5. IsControl(x)
  BY <1>4, ControlTyped
<1>6. /\ IsQueue(intc) /\ Pending(intc) \subseteq W16 /\ irCode \in 0..7 /\ count \in 0..63
      /\ bxReg \in W16 /\ bReg \in W16 /\ ir \in W16 /\ psw \in W16
  BY DEF CpuTypeOK, BusTypeOK
<1> HIDE DEF x, i, serv, p, st
<1>7. svc.vector \in W16
  BY <1>6, ServiceTyped
<1>8. svc.do = "interrupt" => FirstGrantable(intc, Slice(p, 7, 5)) \in DOMAIN intc
  BY <1>6, ServiceGrants
<1> HIDE DEF svc, taken
<1>9. next \in 0..511
  <2>1. /\ x.ir \in W16 /\ h.o.a \in W16 /\ h.o.alu.out \in W16 /\ h.o.alu.cout \in 0..1
    BY <1>4, <1>5 DEF IsControl, IsHalf, IsOperands
  <2> QED BY <1>6, <2>1, NextTyped
<1> HIDE DEF next
<1>10. d62.serial \in 0..1 /\ d62.bModeMask \in 0..3 /\ d62.rotC \in 0..1
  <2> DEFINE out == alu.out
             n == IF byte THEN 7 ELSE 15
             b0 == bReg % 2  c0 == psw % 2  sn == Bit(out, n)
             on == E62(ir, b0, c0, sn)
  <2>1. out \in W16
    BY <1>4 DEF IsHalf, IsOperands
  <2>2. n \in 0..17
    OBVIOUS
  <2>3. d62 = on \/ d62 = E62Off
    BY DEF ShiftControl
  <2> HIDE DEF out, n, d62
  <2>4. sn \in 0..1
    BY <2>1, <2>2, WordBit
  <2>5. b0 \in 0..1 /\ c0 \in 0..1
    BY <1>6 DEF W16
  <2> HIDE DEF b0, c0, sn
  <2>6. on.serial \in 0..1 /\ on.bModeMask \in 0..3 /\ on.rotC \in 0..1
    BY <1>6, <2>4, <2>5, ShiftProm
  <2>7. E62Off.serial \in 0..1 /\ E62Off.bModeMask \in 0..3 /\ E62Off.rotC \in 0..1
    BY <1>6, <2>4, <2>5, ShiftProm
  <2> QED BY <2>3, <2>6, <2>7
<1> HIDE DEF d62, alu
<1>11. shift.b \in W16 /\ shift.bx \in W16 /\ shift.rotCbit \in 0..1
  BY <1>3, <1>4, <1>5, <1>7, <1>10, ShiftsTyped
<1> HIDE DEF shift
<1>12. IsService(svc, x.psw) /\ IsShift(shift)
  BY <1>7, <1>8, <1>11 DEF IsService, IsShift, p
<1>13. IsLeft(c)
  BY <1>2, <1>4, <1>5, <1>9, <1>12, LeavesTyped
<1> HIDE DEF c
<1>14. IsLeft(Cycle(uw, h, d54, d87))
  BY <1>1, <1>13
<1> QED BY <1>14 DEF h, d54, d87

\* A micro-cycle keeps the widths of every register.
LEMMA UstepTyped ==
  ASSUME CpuTypeOK, Ustep
  PROVE  CpuTypeOK'
<1> DEFINE uw == Microword[mpc]
           c  == Cycle(uw, BusHalf(uw), E54(Pins(ir, servIr), Bit(psw, 15)), E87Rom[uw.bbx])
<1>1. IsMicroword(uw)
  BY Microprogram DEF CpuTypeOK
<1>2. /\ mpc' = c.mpc /\ sp' = c.sp
      /\ ir' = c.ir /\ servIr' = c.servIr /\ irValid' = c.irValid /\ irCode' = c.irCode
      /\ bReg' = c.bReg /\ bxReg' = c.bxReg /\ rotCbit' = c.rotCbit
      /\ count' = c.count /\ ovx' = c.ovx
      /\ ba' = c.ba /\ vba' = c.vba /\ unibusData' = c.unibusData /\ mem' = c.mem
      /\ psw' = c.psw /\ mmu' = c.mmu
      /\ haltRqst' = c.haltRqst /\ busError' = c.busError /\ mmuKte' = c.mmuKte
      /\ stov' = c.stov /\ stovEn' = c.stovEn
      /\ resetInst' = c.resetInst /\ halted' = c.halted /\ intc' = c.intc
  BY DEF Ustep
<1> HIDE DEF uw
<1>3. IsLeft(c)
  BY <1>1, CycleTyped
<1> HIDE DEF c
<1>4. IsWordQueue(intc')
  BY <1>2, <1>3 DEF IsLeft
<1>5. IsQueue(intc)' /\ (Pending(intc) \subseteq W16)'
  BY <1>4 DEF IsWordQueue
<1>6. BusTypeOK'
  BY <1>2, <1>3 DEF IsLeft, BusTypeOK
<1> QED BY <1>2, <1>3, <1>5, <1>6 DEF IsLeft, CpuTypeOK

\* A device requests the vector v between two micro-cycles.
RequestOf(v) ==
  /\ intc' = Request(intc, v)
  /\ UNCHANGED <<mpc, sp, ir, servIr, irValid, bReg, bxReg, count, ovx, rotCbit, ba, vba,
                 unibusData, psw, irCode, haltRqst, busError, stov, stovEn, mmu, mmuKte,
                 resetInst, halted, mem>>

\* The processor with any words in its memory and registers, at any micro-address
\* and with any devices.
Machine == CpuTypeOK /\ [][Ustep \/ \E v \in W16 : RequestOf(v)]_cpuVars

\* A request keeps the widths.
LEMMA RequestTyped ==
  ASSUME CpuTypeOK, NEW v \in W16, RequestOf(v)
  PROVE  CpuTypeOK'
<1>1. IsWordQueue(intc)
  BY DEF CpuTypeOK, IsWordQueue
<1>2. IsWordQueue(intc')
  BY <1>1, RequestWords DEF RequestOf
<1>3. IsQueue(intc)' /\ (Pending(intc) \subseteq W16)'
  BY <1>2 DEF IsWordQueue
<1> QED BY <1>3 DEF RequestOf, CpuTypeOK, BusTypeOK

\* Whatever words are in the memory and the registers, and whatever devices
\* request, every register, bus and word of memory keeps its width, and the
\* micro-address is one of the control store.
THEOREM MachineTypeCorrect == Machine => []CpuTypeOK
<1>1. CpuTypeOK /\ [Ustep \/ \E v \in W16 : RequestOf(v)]_cpuVars => CpuTypeOK'
  <2> SUFFICES ASSUME CpuTypeOK, [Ustep \/ \E v \in W16 : RequestOf(v)]_cpuVars PROVE CpuTypeOK'
    OBVIOUS
  <2>1. CASE Ustep
    BY <2>1, UstepTyped
  <2>2. CASE \E v \in W16 : RequestOf(v)
    BY <2>2, RequestTyped
  <2>3. CASE UNCHANGED cpuVars
    BY <2>3 DEF cpuVars, CpuTypeOK, BusTypeOK, IsQueue, Pending
  <2> QED BY <2>1, <2>2, <2>3
<1> QED BY <1>1, PTL DEF Machine

\* Such a machine is a processor in the sense above.
LEMMA MachineIncluded == Machine => Processor
<1> DEFINE kept == <<bReg, ba, mmu, resetInst, intc>>
<1>1. CpuTypeOK => HasRegisters(mmu) /\ IsQueue(intc)
  <2> SUFFICES ASSUME CpuTypeOK PROVE HasRegisters(mmu) /\ IsQueue(intc)
    OBVIOUS
  <2> DEFINE S == {mmu.par, mmu.pdr, mmu.sr0, mmu.sr2, mmu.page, mmu.mode}
  <2>1. mmu \in MmuRegisters
    BY DEF CpuTypeOK, BusTypeOK
  <2>2. mmu \in [par : S, pdr : S, sr0 : S, sr2 : S, page : S, mode : S]
    BY <2>1 DEF MmuRegisters
  <2> HIDE DEF S
  <2>3. HasRegisters(mmu)
    BY <2>2 DEF HasRegisters
  <2> QED BY <2>3 DEF CpuTypeOK
<1>2. [Ustep \/ \E v \in W16 : RequestOf(v)]_cpuVars => [Ustep \/ Requested]_kept
  BY DEF RequestOf, Requested, cpuVars
<1> QED BY <1>1, <1>2, PTL DEF Machine, Processor

\* SR0 and SR2 hold its first abort until SR0 is written or INIT is given.
THEOREM MachineFrozen == Machine => FrozenAfterAbort
<1>1. CpuTypeOK => ba \in Nat
  BY DEF CpuTypeOK, W18
<1>2. Machine => [](ba \in Nat)
  BY <1>1, MachineTypeCorrect, PTL
<1> QED BY <1>2, MachineIncluded, Frozen, PTL

-----------------------------------------------------------------------------
(* The programs of the runs have words in their memory and registers. *)

\* The code, R0 to R5, stack pointer and status of a program are words, and so
\* are the vectors its devices request.
IsCase(c) ==
  /\ c.code \in Seq(W16) /\ c.r \in [1..6 -> W16]
  /\ c.sp \in W16 /\ c.psw \in W16 /\ c.due \subseteq W16

\* One and two words of code.
LEMMA CodeWords ==
  ASSUME NEW w \in W16
  PROVE  <<w>> \in Seq(W16) /\ \A v \in W16 : <<w, v>> \in Seq(W16)
OBVIOUS

\* Six registers.
LEMMA SixWords ==
  ASSUME NEW a \in W16, NEW b \in W16, NEW c \in W16, NEW d \in W16, NEW e \in W16, NEW f \in W16
  PROVE  <<a, b, c, d, e, f>> \in [1..6 -> W16]
OBVIOUS

\* The registers of a program that points to its data.
LEMMA PointingWords == Pointing \in [1..6 -> W16]
<1>1. /\ \o40123 \in W16 /\ \o2002 \in W16 /\ \o2012 \in W16 /\ \o2022 \in W16 /\ \o2032 \in W16
      /\ \o1004 \in W16
  BY DEF W16
<1> QED BY <1>1, SixWords DEF Pointing

\* A program of such code, registers and status.
LEMMA CaseTyped ==
  ASSUME NEW code \in Seq(W16), NEW r \in [1..6 -> W16], NEW ps \in W16
  PROVE  IsCase(Case(code, r, ps))
<1> DEFINE k == \o704
<1>1. k \in W16
  BY DEF W16
<1> HIDE DEF k
<1>2. Case(code, r, ps) = [code |-> code, r |-> r, sp |-> k, psw |-> ps, due |-> {}, n |-> 1]
  BY DEF Case, k
<1> QED BY <1>1, <1>2 DEF IsCase

\* The words an addressing mode takes after the instruction.
LEMMA ExtensionWords ==
  ASSUME NEW spec
  PROVE  Extension(spec) \in Seq(W16)
<1> DEFINE a == \o100200  b == \o2006  c == \o1000  d == \o1014  e == \o177776
           x == Extension(spec)
<1>1. a \in W16 /\ b \in W16 /\ c \in W16 /\ d \in W16 /\ e \in W16
  BY DEF W16
<1>2. x = <<>> \/ x = <<a>> \/ x = <<b>> \/ x = <<c>> \/ x = <<d>> \/ x = <<e>>
  BY DEF Extension
<1> HIDE DEF a, b, c, d, e, x
<1>3. /\ <<>> \in Seq(W16) /\ <<a>> \in Seq(W16) /\ <<b>> \in Seq(W16) /\ <<c>> \in Seq(W16)
      /\ <<d>> \in Seq(W16) /\ <<e>> \in Seq(W16)
  BY <1>1
<1>4. x \in Seq(W16)
  BY <1>2, <1>3, Zenon
<1> QED BY <1>4 DEF x

\* An instruction with two addressing modes.
LEMMA CodedWords ==
  ASSUME NEW op \in Nat, NEW src \in Nat, NEW dst \in Nat, op <= 57344, src <= 63, dst <= 63
  PROVE  Coded(op, src, dst) \in Seq(W16)
<1> DEFINE w == op + 64 * src + dst
           e == Extension(src)
           f == Extension(dst)
<1>1. w \in W16
  BY DEF W16
<1> HIDE DEF w
<1>2. <<w>> \in Seq(W16) /\ e \in Seq(W16) /\ f \in Seq(W16)
  BY <1>1, CodeWords, ExtensionWords
<1> HIDE DEF e, f
<1>3. <<w>> \o e \in Seq(W16)
  BY <1>2, ConcatProperties
<1>4. (<<w>> \o e) \o f \in Seq(W16)
  BY <1>2, <1>3, ConcatProperties
<1> QED BY <1>4 DEF Coded, w, e, f

\* A program of one word.
LEMMA OneWord ==
  ASSUME NEW w \in W16, NEW r \in [1..6 -> W16], NEW ps \in W16
  PROVE  IsCase(Case(<<w>>, r, ps))
<1> DEFINE code == <<w>>
<1>1. code \in Seq(W16)
  BY CodeWords
<1> HIDE DEF code
<1>2. IsCase(Case(code, r, ps))
  BY <1>1, CaseTyped
<1> QED BY <1>2 DEF code

\* The operands at their boundaries.
LEMMA BoundaryWords == Boundaries \subseteq W16
BY DEF Boundaries, W16

\* The programs of operations on boundary values.
LEMMA OperationCases ==
  ASSUME NEW c \in Doubles \cup Singles \cup Multiplies \cup Divides \cup Shifts
  PROVE  IsCase(c)
<1> DEFINE z == 0
<1>0. z \in W16
  BY Small
<1>1. CASE c \in Doubles
  <2>1. PICK op \in 1..14 \ {7, 8}, x \in Boundaries, y \in Boundaries, f \in {0, \o17} :
          c = Case(<<4096 * op + \o102>>, <<0, x, y, 0, 0, 0>>, f)
    BY <1>1 DEF Doubles, Boundaries
  <2> DEFINE w == 4096 * op + \o102
             r == <<z, x, y, z, z, z>>
  <2>2. w \in W16 /\ f \in W16
    BY DEF W16
  <2>3. r \in [1..6 -> W16]
    BY <1>0, BoundaryWords, SixWords
  <2>4. c = Case(<<w>>, r, f)
    BY <2>1
  <2> HIDE DEF w, r
  <2> QED BY <2>2, <2>3, <2>4, OneWord
<1>2. CASE c \in Singles
  <2>1. PICK b \in {0, 1}, op \in \o50..\o63, x \in Boundaries, f \in {0, \o17} :
          c = Case(<<32768 * b + 64 * op + 1>>, <<0, x, 0, 0, 0, 0>>, f)
    BY <1>2 DEF Singles, Boundaries
  <2> DEFINE w == 32768 * b + 64 * op + 1
             r == <<z, x, z, z, z, z>>
  <2>2. w \in W16 /\ f \in W16
    BY DEF W16
  <2>3. r \in [1..6 -> W16]
    BY <1>0, BoundaryWords, SixWords
  <2>4. c = Case(<<w>>, r, f)
    BY <2>1
  <2> HIDE DEF w, r
  <2> QED BY <2>2, <2>3, <2>4, OneWord
<1>3. CASE c \in Multiplies
  <2>1. PICK n \in {2, 3}, x \in Boundaries, y \in {1, \o77777, \o100000, \o177777} :
          c = Case(<<\o70001 + 64 * n>>, <<0, x, y, y, 0, 0>>, 0)
    BY <1>3 DEF Multiplies, Boundaries
  <2> DEFINE w == \o70001 + 64 * n
             r == <<z, x, y, y, z, z>>
  <2>2. w \in W16 /\ y \in W16
    BY DEF W16
  <2>3. r \in [1..6 -> W16]
    BY <1>0, <2>2, BoundaryWords, SixWords
  <2>4. c = Case(<<w>>, r, z)
    BY <2>1
  <2> HIDE DEF w, r, z
  <2> QED BY <1>0, <2>2, <2>3, <2>4, OneWord
<1>4. CASE c \in Divides
  <2>1. PICK h \in {0, 1, \o177777, \o177776}, l \in {0, 7, \o177777},
             y \in {0, 1, 2, \o77777, \o177777, \o177771, \o100000} :
          c = Case(<<\o71204>>, <<0, 0, h, l, y, 0>>, 0)
    BY <1>4 DEF Divides
  <2> DEFINE w == \o71204
             r == <<z, z, h, l, y, z>>
  <2>2. w \in W16 /\ h \in W16 /\ l \in W16 /\ y \in W16
    BY DEF W16
  <2>3. r \in [1..6 -> W16]
    BY <1>0, <2>2, SixWords
  <2>4. c = Case(<<w>>, r, z)
    BY <2>1
  <2> HIDE DEF w, r, z
  <2> QED BY <1>0, <2>2, <2>3, <2>4, OneWord
<1>5. CASE c \in Shifts
  <2>1. PICK both \in {0, 1}, n \in {0, 1}, h \in {1, \o177777, \o77777},
             l \in {\o100001, \o77777}, k \in {0, 1, 15, 31, 32, 48, 63}, f \in {1} :
          c = Case(<<\o72204 + 512 * both + 64 * n>>, <<0, 0, h, l, k, 0>>, f)
    BY <1>5 DEF Shifts
  <2> DEFINE w == \o72204 + 512 * both + 64 * n
             r == <<z, z, h, l, k, z>>
  <2>2. w \in W16 /\ h \in W16 /\ l \in W16 /\ k \in W16 /\ f \in W16
    BY DEF W16
  <2>3. r \in [1..6 -> W16]
    BY <1>0, <2>2, SixWords
  <2>4. c = Case(<<w>>, r, f)
    BY <2>1
  <2> HIDE DEF w, r
  <2> QED BY <2>2, <2>3, <2>4, OneWord
<1> QED BY <1>1, <1>2, <1>3, <1>4, <1>5

\* Registers that point to data, but for one.
LEMMA PointingBut ==
  ASSUME NEW k \in 1..6, NEW x \in W16
  PROVE  [Pointing EXCEPT ![k] = x] \in [1..6 -> W16]
BY PointingWords

\* The programs of SOB, condition codes and branches.
LEMMA BranchCases ==
  ASSUME NEW c \in Sobs \cup CcOps \cup Branches
  PROVE  IsCase(c)
<1> DEFINE z == 0
<1>0. z \in W16
  BY Small
<1>1. CASE c \in Sobs
  <2>1. PICK x \in {0, 1, 2} : c = Case(<<\o77102>>, [Pointing EXCEPT ![2] = x], 0)
    BY <1>1 DEF Sobs
  <2> DEFINE w == \o77102
             r == [Pointing EXCEPT ![2] = x]
  <2>2. w \in W16 /\ x \in W16
    BY DEF W16
  <2>3. r \in [1..6 -> W16]
    BY <2>2, PointingBut
  <2>4. c = Case(<<w>>, r, z)
    BY <2>1
  <2> HIDE DEF w, r, z
  <2> QED BY <1>0, <2>2, <2>3, <2>4, OneWord
<1>2. CASE c \in CcOps
  <2>1. PICK i \in \o240..\o277, f \in {0, 5, 10, 15} : c = Case(<<i>>, Pointing, f)
    BY <1>2 DEF CcOps
  <2>2. i \in W16 /\ f \in W16
    BY DEF W16
  <2> QED BY <2>1, <2>2, PointingWords, OneWord
<1>3. CASE c \in Branches
  <2>1. \/ \E k \in (1..7) \cup (128..135), offset \in {\o203}, f \in 0..15 :
               c = Case(<<256 * k + offset>>, Pointing, f)
        \/ c = Case(<<\o403>>, Pointing, 0)
    BY <1>3 DEF Branches
  <2>2. CASE c = Case(<<\o403>>, Pointing, 0)
    <3> DEFINE w == \o403
    <3>1. w \in W16 /\ c = Case(<<w>>, Pointing, z)
      BY <2>2 DEF W16
    <3> HIDE DEF w, z
    <3> QED BY <1>0, <3>1, PointingWords, OneWord
  <2>3. CASE \E k \in (1..7) \cup (128..135), offset \in {\o203}, f \in 0..15 :
               c = Case(<<256 * k + offset>>, Pointing, f)
    <3>1. PICK k \in (1..7) \cup (128..135), offset \in {\o203}, f \in 0..15 :
            c = Case(<<256 * k + offset>>, Pointing, f)
      BY <2>3
    <3> DEFINE w == 256 * k + offset
    <3>2. w \in W16 /\ f \in W16
      BY DEF W16
    <3>3. c = Case(<<w>>, Pointing, f)
      BY <3>1
    <3> HIDE DEF w
    <3> QED BY <3>2, <3>3, PointingWords, OneWord
  <2> QED BY <2>1, <2>2, <2>3
<1> QED BY <1>1, <1>2, <1>3

\* A program that runs longer, has another stack pointer, or is interrupted.
LEMMA AlteredTyped ==
  ASSUME NEW code \in Seq(W16), NEW r \in [1..6 -> W16], NEW ps \in W16, NEW k,
         NEW top \in W16, NEW d \in SUBSET W16
  PROVE  LET c == Case(code, r, ps)
         IN  /\ IsCase([c EXCEPT !.n = k]) /\ IsCase([c EXCEPT !.sp = top, !.n = k])
             /\ IsCase([c EXCEPT !.due = d, !.n = k])
<1> DEFINE c == Case(code, r, ps)
           o == \o704
<1>1. o \in W16
  BY DEF W16
<1> HIDE DEF o
<1>2. c = [code |-> code, r |-> r, sp |-> o, psw |-> ps, due |-> {}, n |-> 1]
  BY DEF Case, o
<1> HIDE DEF c
<1>3. IsCase([c EXCEPT !.n = k]) /\ IsCase([c EXCEPT !.sp = top, !.n = k])
      /\ IsCase([c EXCEPT !.due = d, !.n = k])
  BY <1>1, <1>2 DEF IsCase
<1> QED BY <1>3 DEF c

\* The addressing modes that the programs use are six bits.
LEMMA SpecsNarrow ==
  /\ \A s \in SrcSpecs : s \in Nat /\ s <= 63
  /\ \A s \in DstSpecs \cup {\o06, \o27} : s \in Nat /\ s <= 63
BY DEF SrcSpecs, DstSpecs

\* The programs of addressing modes.
LEMMA AddressingCases ==
  ASSUME NEW c \in Moves \cup ByteMoves \cup OneOperand
  PROVE  IsCase(c)
<1> DEFINE z == 0
           f == \o17
<1>0. z \in W16 /\ f \in W16
  BY DEF W16
<1>1. CASE c \in Moves
  <2> DEFINE Ops == {\o10000, \o160000}
             Row(op, s, d) == Case(Coded(op, s, d), Pointing, z)
  <2>1. Moves = {Row(op, s, d) : op \in Ops, s \in SrcSpecs, d \in DstSpecs}
    BY DEF Moves
  <2>2. \A op \in Ops : op \in Nat /\ op <= 57344
    OBVIOUS
  <2> HIDE DEF Ops, Row
  <2>3. PICK op \in Ops, s \in SrcSpecs, d \in DstSpecs : c = Row(op, s, d)
    BY <1>1, <2>1
  <2>4. Coded(op, s, d) \in Seq(W16)
    BY <2>2, SpecsNarrow, CodedWords
  <2> HIDE DEF z
  <2>5. IsCase(Row(op, s, d))
    BY <1>0, <2>4, PointingWords, CaseTyped DEF Row
  <2> QED BY <2>3, <2>5
<1>2. CASE c \in ByteMoves
  <2> DEFINE Ops == {\o110000, \o120000, \o150000}
             Regs(odd) == [Pointing EXCEPT ![2] = \o2003, ![3] = \o2012 + odd]
             Row(op, s, d, odd) == Case(Coded(op, s, d), Regs(odd), z)
             Dst == {\o02, \o12, \o22, \o34, \o42, \o67}
             Odds == {0, 1}
  <2>1. ByteMoves = {Row(op, s, d, odd) : op \in Ops, s \in SrcSpecs, d \in Dst, odd \in Odds}
    BY DEF ByteMoves
  <2>2. \A op \in Ops : op \in Nat /\ op <= 57344
    OBVIOUS
  <2>3. \A d \in Dst : d \in Nat /\ d <= 63
    OBVIOUS
  <2>4. \A odd \in Odds : Regs(odd) \in [1..6 -> W16]
    <3> SUFFICES ASSUME NEW odd \in Odds PROVE Regs(odd) \in [1..6 -> W16]
      OBVIOUS
    <3> DEFINE a == \o2003  b == \o2012 + odd
    <3>1. a \in W16 /\ b \in W16
      BY DEF W16
    <3> HIDE DEF a, b
    <3>2. [Pointing EXCEPT ![2] = a, ![3] = b] \in [1..6 -> W16]
      BY <3>1, PointingWords
    <3> QED BY <3>2 DEF a, b
  <2> HIDE DEF Ops, Row, Dst, Odds, Regs
  <2>5. PICK op \in Ops, s \in SrcSpecs, d \in Dst, odd \in Odds : c = Row(op, s, d, odd)
    BY <1>2, <2>1
  <2>6. Coded(op, s, d) \in Seq(W16)
    BY <2>2, <2>3, SpecsNarrow, CodedWords
  <2> HIDE DEF z
  <2>7. IsCase(Row(op, s, d, odd))
    BY <1>0, <2>4, <2>6, CaseTyped DEF Row
  <2> QED BY <2>5, <2>7
<1>3. CASE c \in OneOperand
  <2> DEFINE Ops == {\o100, \o300, \o5000, \o105000, \o105200, \o6000, \o106000, \o106400, \o6500,
                     \o6600, \o6700, \o106700, \o4100, \o4700, \o70000, \o74000}
             Dst == DstSpecs \cup {\o06, \o27}
             At == {\o2012, \o2013}
             Row(op, s, a) == Case(Coded(op, 0, s), [Pointing EXCEPT ![3] = a], f)
  <2>1. OneOperand = {Row(op, s, a) : op \in Ops, s \in Dst, a \in At}
    BY DEF OneOperand
  <2>2. \A op \in Ops : op \in Nat /\ op <= 57344
    OBVIOUS
  <2>3. \A a \in At : a \in W16
    BY DEF W16
  <2>4. \A s \in Dst : s \in Nat /\ s <= 63
    BY SpecsNarrow
  <2> HIDE DEF Ops, Row, Dst, At
  <2>5. PICK op \in Ops, s \in Dst, a \in At : c = Row(op, s, a)
    BY <1>3, <2>1
  <2>6. Coded(op, 0, s) \in Seq(W16)
    BY <2>2, <2>4, CodedWords
  <2>7. [Pointing EXCEPT ![3] = a] \in [1..6 -> W16]
    BY <2>3, PointingBut
  <2> HIDE DEF f
  <2>8. IsCase(Row(op, s, a))
    BY <1>0, <2>6, <2>7, CaseTyped DEF Row
  <2> QED BY <2>5, <2>8
<1> QED BY <1>1, <1>2, <1>3

\* The programs of calls, returns, traps and the status as an operand.
LEMMA ControlCases ==
  ASSUME NEW c \in Calls \cup Returns \cup Trapping \cup PswStores \cup PswLoads
  PROVE  IsCase(c)
<1>1. CASE c \in Calls
  <2> DEFINE Xs == {\o1002, \o1004, \o2002}
             Ps == {0, \o140017, \o170000}
             Is == (\o200..\o205) \cup {\o207, \o6400, \o6401, \o6402, \o77501, \o77002, \o77103,
                                        \o4711, \o4112, \o4513}
             Row(x, p, i) == Case(<<i>>, [Pointing EXCEPT ![6] = x], p)
  <2>1. Calls = {Row(x, p, i) : x \in Xs, p \in Ps, i \in Is}
    BY DEF Calls
  <2>2. Xs \subseteq W16 /\ Ps \subseteq W16 /\ Is \subseteq W16
    BY DEF W16
  <2> HIDE DEF Xs, Ps, Is, Row
  <2>3. PICK x \in Xs, p \in Ps, i \in Is : c = Row(x, p, i)
    BY <1>1, <2>1
  <2>4. [Pointing EXCEPT ![6] = x] \in [1..6 -> W16]
    BY <2>2, PointingBut
  <2>5. IsCase(Row(x, p, i))
    BY <2>2, <2>4, OneWord DEF Row
  <2> QED BY <2>3, <2>5
<1>2. CASE c \in Returns
  <2> DEFINE Is == {2, 6}
             Ps == {0, \o340, \o140000, \o170340, \o20, \o140020}
             Row(i, p) == [Case(<<i>>, Pointing, p) EXCEPT !.n = 2]
  <2>1. Returns = {Row(i, p) : i \in Is, p \in Ps}
    BY DEF Returns
  <2>2. Ps \subseteq W16 /\ Is \subseteq W16 /\ 0 \in W16 /\ {} \in SUBSET W16
    BY DEF W16
  <2> HIDE DEF Ps, Is, Row
  <2>3. PICK i \in Is, p \in Ps : c = Row(i, p)
    BY <1>2, <2>1
  <2> DEFINE code == <<i>>
             z == 0
  <2>4. code \in Seq(W16)
    BY <2>2, CodeWords
  <2>5. z \in W16 /\ p \in W16
    BY <2>2
  <2> HIDE DEF code, z
  <2>6. IsCase([Case(code, Pointing, p) EXCEPT !.n = 2])
    BY <2>2, <2>4, <2>5, PointingWords, AlteredTyped
  <2> QED BY <2>3, <2>6 DEF Row, code
<1>3. CASE c \in Trapping
  <2> DEFINE Is == {0, 1, 5, 3, 4, 7, \o10, \o77, \o100, \o107, \o210, \o227, \o230, \o237, \o4000,
                    \o4707, \o7000, \o7777, \o75000, \o75037, \o75040, \o76000, \o76777, \o104000,
                    \o104377, \o104400, \o104777, \o107000, \o107777, \o170000, \o177777, \o240,
                    \o10102}
             Ps == {0, \o140000, \o170357, \o20, \o140020}
             Row(i, p) == Case(<<i>>, Pointing, p)
  <2>1. Trapping = {Row(i, p) : i \in Is, p \in Ps}
    BY DEF Trapping
  <2>2. Ps \subseteq W16 /\ Is \subseteq W16
    BY DEF W16
  <2> HIDE DEF Ps, Is, Row
  <2>3. PICK i \in Is, p \in Ps : c = Row(i, p)
    BY <1>3, <2>1
  <2>4. IsCase(Row(i, p))
    BY <2>2, PointingWords, OneWord DEF Row
  <2> QED BY <2>3, <2>4
<1>4. CASE c \in PswStores
  <2> DEFINE Is == {\o10137, \o110137, \o40137, \o50137, \o150137, \o5137, \o105037, \o5237, \o6337,
                    \o106737, \o6637, \o337, \o6737, \o4437, \o105137, \o74137}
             Xs == {PswAt, PswAt + 1}
             Ps == {0, \o357, \o140017}
             Row(i, x, p) == Case(<<i, x>>, Pointing, p)
  <2>1. PswStores = {Row(i, x, p) : i \in Is, x \in Xs, p \in Ps}
    BY DEF PswStores
  <2>2. Ps \subseteq W16 /\ Is \subseteq W16 /\ Xs \subseteq W16
    BY DEF W16, PswAt
  <2> HIDE DEF Ps, Is, Xs, Row
  <2>3. PICK i \in Is, x \in Xs, p \in Ps : c = Row(i, x, p)
    BY <1>4, <2>1
  <2>4. <<i, x>> \in Seq(W16)
    BY <2>2, CodeWords
  <2>5. IsCase(Row(i, x, p))
    BY <2>2, <2>4, PointingWords, CaseTyped DEF Row
  <2> QED BY <2>3, <2>5
<1>5. CASE c \in PswLoads
  <2> DEFINE Is == {\o13702, \o113702, \o23702, \o6537, \o106437, \o106402}
             x == PswAt
             Ps == {0, \o377, \o140017, \o30005}
             Row(i, p) == Case(<<i, x>>, Pointing, p)
  <2>1. PswLoads = {Row(i, p) : i \in Is, p \in Ps}
    BY DEF PswLoads
  <2>2. Ps \subseteq W16 /\ Is \subseteq W16 /\ x \in W16
    BY DEF W16, PswAt
  <2> HIDE DEF Ps, Is, x, Row
  <2>3. PICK i \in Is, p \in Ps : c = Row(i, p)
    BY <1>5, <2>1
  <2>4. <<i, x>> \in Seq(W16)
    BY <2>2, CodeWords
  <2>5. IsCase(Row(i, p))
    BY <2>2, <2>4, PointingWords, CaseTyped DEF Row
  <2> QED BY <2>3, <2>5
<1> QED BY <1>1, <1>2, <1>3, <1>4, <1>5

\* The programs near the stack's limit.
LEMMA StackCases ==
  ASSUME NEW c \in StackLimit
  PROVE  IsCase(c)
<1> DEFINE Is == {\o4111, \o10046, \o6501, \o110046, \o5056, \o104000, \o5766}
           Ts == {\o376, \o400, \o402, \o404}
           Row(i, m, t, top) == [Case(<<i>>, Pointing, m + t) EXCEPT !.sp = top, !.n = 4]
<1>1. StackLimit = {Row(i, m, t, top) : i \in Is, m \in Modes, t \in Traced, top \in Ts}
  BY DEF StackLimit, Modes, Traced
<1>2. /\ Is \subseteq W16 /\ Ts \subseteq W16 /\ {} \in SUBSET W16
      /\ \A m \in Modes, t \in Traced : m + t \in W16
  BY DEF W16, Modes, Traced
<1> HIDE DEF Is, Ts, Row
<1>3. PICK i \in Is, m \in Modes, t \in Traced, top \in Ts : c = Row(i, m, t, top)
  BY <1>1
<1> DEFINE code == <<i>>
           p == m + t
<1>4. code \in Seq(W16) /\ p \in W16 /\ top \in W16
  BY <1>2, CodeWords
<1> HIDE DEF code, p
<1>5. IsCase([Case(code, Pointing, p) EXCEPT !.sp = top, !.n = 4])
  BY <1>2, <1>4, PointingWords, AlteredTyped
<1> QED BY <1>3, <1>5 DEF Row, code, p

\* The programs that are interrupted.
LEMMA InterruptCases ==
  ASSUME NEW c \in Interrupted
  PROVE  IsCase(c)
<1> DEFINE Codes == {<<1, \o240>>, <<2, \o240>>, <<5, \o240>>, <<\o106427, 0>>, <<\o104400>>,
                     <<\o12142, 3>>, <<\o70211, 7>>, <<\o4111>>}
           Others == {<<\o10102, 1>>, <<1, 1>>}
           Pris == {0, \o200, \o300}
           One == {\o200}
           Dues == {{\o60}, {\o100}}
           both == {\o60, \o100}
           Row(code, m, t, pri, d) ==
             [Case(code, Pointing, m + t + pri) EXCEPT !.due = d, !.n = 3]
           Two(code, pri) == [Case(code, Pointing, pri) EXCEPT !.due = both, !.n = 3]
<1>1. Interrupted = {Row(code, m, t, pri, d) :
                       code \in Codes, m \in Modes, t \in Traced, pri \in One, d \in Dues}
                    \cup {Two(code, pri) : code \in Others, pri \in Pris}
  BY DEF Interrupted, Modes, Traced
<1>2. Codes \subseteq Seq(W16) /\ Others \subseteq Seq(W16)
  <2>1. /\ 0 \in W16 /\ 1 \in W16 /\ 2 \in W16 /\ 3 \in W16 /\ 5 \in W16 /\ 7 \in W16
        /\ \o240 \in W16 /\ \o106427 \in W16 /\ \o104400 \in W16 /\ \o12142 \in W16
        /\ \o70211 \in W16 /\ \o4111 \in W16 /\ \o10102 \in W16
    BY DEF W16
  <2> QED BY <2>1
<1>3. /\ \A m \in Modes, t \in Traced, pri \in One : m + t + pri \in W16
      /\ Pris \subseteq W16 /\ 0 \in W16
  BY DEF W16, Modes, Traced
<1>4. Dues \subseteq SUBSET W16 /\ both \in SUBSET W16
  BY DEF W16
<1> HIDE DEF Codes, Others, Pris, One, Dues, both, Row, Two
<1>5. CASE \E code \in Codes, m \in Modes, t \in Traced, pri \in One, d \in Dues :
             c = Row(code, m, t, pri, d)
  <2>1. PICK code \in Codes, m \in Modes, t \in Traced, pri \in One, d \in Dues :
          c = Row(code, m, t, pri, d)
    BY <1>5
  <2> DEFINE p == m + t + pri
             z == 0
  <2>2. p \in W16 /\ z \in W16 /\ code \in Seq(W16) /\ d \in SUBSET W16
    BY <1>2, <1>3, <1>4
  <2> HIDE DEF p, z
  <2>3. IsCase([Case(code, Pointing, p) EXCEPT !.due = d, !.n = 3])
    BY <2>2, PointingWords, AlteredTyped
  <2> QED BY <2>1, <2>3 DEF Row, p
<1>6. CASE \E code \in Others, pri \in Pris : c = Two(code, pri)
  <2>1. PICK code \in Others, pri \in Pris : c = Two(code, pri)
    BY <1>6
  <2> DEFINE z == 0
  <2>2. pri \in W16 /\ z \in W16 /\ code \in Seq(W16)
    BY <1>2, <1>3
  <2> HIDE DEF z
  <2>3. IsCase([Case(code, Pointing, pri) EXCEPT !.due = both, !.n = 3])
    BY <1>4, <2>2, PointingWords, AlteredTyped
  <2> QED BY <2>1, <2>3 DEF Two
<1> QED BY <1>1, <1>5, <1>6

\* So are all of the programs without memory management.
LEMMA CasesTyped ==
  ASSUME NEW c \in Cases
  PROVE  IsCase(c)
<1>1. \/ c \in Doubles \cup Singles \cup Multiplies \cup Divides \cup Shifts
      \/ c \in Sobs \cup CcOps \cup Branches \/ c \in Moves \cup ByteMoves \cup OneOperand
      \/ c \in Calls \cup Returns \cup Trapping \cup PswStores \cup PswLoads
      \/ c \in StackLimit \/ c \in Interrupted
  BY DEF Cases
<1> QED BY <1>1, OperationCases, BranchCases, AddressingCases, ControlCases, StackCases,
           InterruptCases

\* Words from the address first.
IsBlock(words, first, last) ==
  /\ words \in Seq(W16) /\ first \in Nat /\ last \in Nat
  /\ last <= first + 2 * (Len(words) - 1)

WordAt(words, first, a) == words[(a - first) \div 2 + 1]

\* A word of a block of them.
LEMMA BlockWord ==
  ASSUME NEW words, NEW first, NEW last, IsBlock(words, first, last), NEW a, a \in WordsIn(first, last)
  PROVE  WordAt(words, first, a) \in W16
<1> DEFINE i == (a - first) \div 2 + 1
<1>0. words \in Seq(W16) /\ first \in Nat /\ last \in Nat /\ last <= first + 2 * (Len(words) - 1)
  BY DEF IsBlock
<1>1. a \in first..last
  BY DEF WordsIn
<1>2. Len(words) \in Nat
  BY <1>0
<1>3. i \in 1..Len(words)
  BY <1>0, <1>1, <1>2
<1> HIDE DEF i
<1> QED BY <1>0, <1>3 DEF i, WordAt

\* The stacks, data and pointers are words.
LEMMA StoredWords ==
  /\ KernelStack \in Seq(W16) /\ Len(KernelStack) = 3
  /\ UserStack \in Seq(W16) /\ Len(UserStack) = 3
  /\ Data \in Seq(W16) /\ Len(Data) = 7
  /\ Pointers \in Seq(W16) /\ Len(Pointers) = 8
<1>1. /\ \o2030 \in W16 /\ \o1004 \in W16 /\ \o20 \in W16 /\ \o2032 \in W16 /\ \o1002 \in W16
      /\ \o177777 \in W16
  BY DEF W16
<1>2. /\ \o123456 \in W16 /\ \o377 \in W16 /\ \o100200 \in W16 /\ \o77777 \in W16 /\ 1 \in W16
      /\ \o54321 \in W16 /\ \o177601 \in W16
  BY DEF W16
<1>3. /\ \o2004 \in W16 /\ \o2006 \in W16 /\ \o2011 \in W16 /\ \o2003 \in W16 /\ \o2012 \in W16
      /\ \o2014 \in W16 /\ \o2017 \in W16 /\ \o2000 \in W16
  BY DEF W16
<1>4. KernelStack \in Seq(W16) /\ Len(KernelStack) = 3 /\ UserStack \in Seq(W16) /\ Len(UserStack) = 3
  BY <1>1 DEF KernelStack, UserStack
<1>5. Data \in Seq(W16) /\ Len(Data) = 7
  BY <1>2 DEF Data
<1>6. Pointers \in Seq(W16) /\ Len(Pointers) = 8
  BY <1>3 DEF Pointers
<1> QED BY <1>4, <1>5, <1>6

\* What memory holds without a program.
LEMMA ContentsWords ==
  ASSUME NEW a \in MemoryMap
  PROVE  Contents[a] \in W16
<1> DEFINE v == Contents[a]
           k == KernelStack[(a - \o704) \div 2 + 1]
           u == UserStack[(a - \o1104) \div 2 + 1]
           d == Data[(a - \o2000) \div 2 + 1]
           p == Pointers[(a - \o2020) \div 2 + 1]
           x == \o1004  y == \o170000  z == \o340
<1>1. \/ v = x \/ v = y \/ v = z \/ v = 0
      \/ a \in WordsIn(\o704, \o710) /\ v = k
      \/ a \in WordsIn(\o1104, \o1110) /\ v = u
      \/ a \in WordsIn(\o2000, \o2014) /\ v = d
      \/ a \in WordsIn(\o2020, \o2036) /\ v = p
  BY DEF Contents, Handler
<1>2. x \in W16 /\ y \in W16 /\ z \in W16 /\ 0 \in W16
  BY DEF W16
<1>3. a \in WordsIn(\o704, \o710) => k \in W16
  <2> SUFFICES ASSUME a \in WordsIn(\o704, \o710) PROVE k \in W16
    OBVIOUS
  <2> DEFINE first == \o704  last == \o710  words == KernelStack
  <2>1. words \in Seq(W16) /\ Len(words) = 3
    BY StoredWords
  <2>2. IsBlock(words, first, last)
    BY <2>1 DEF IsBlock
  <2>3. a \in WordsIn(first, last)
    OBVIOUS
  <2> HIDE DEF first, last, words
  <2>4. WordAt(words, first, a) \in W16
    BY <2>2, <2>3, BlockWord
  <2> QED BY <2>4 DEF first, words, WordAt
<1>4. a \in WordsIn(\o1104, \o1110) => u \in W16
  <2> SUFFICES ASSUME a \in WordsIn(\o1104, \o1110) PROVE u \in W16
    OBVIOUS
  <2> DEFINE first == \o1104  last == \o1110  words == UserStack
  <2>1. words \in Seq(W16) /\ Len(words) = 3
    BY StoredWords
  <2>2. IsBlock(words, first, last)
    BY <2>1 DEF IsBlock
  <2>3. a \in WordsIn(first, last)
    OBVIOUS
  <2> HIDE DEF first, last, words
  <2>4. WordAt(words, first, a) \in W16
    BY <2>2, <2>3, BlockWord
  <2> QED BY <2>4 DEF first, words, WordAt
<1>5. a \in WordsIn(\o2000, \o2014) => d \in W16
  <2> SUFFICES ASSUME a \in WordsIn(\o2000, \o2014) PROVE d \in W16
    OBVIOUS
  <2> DEFINE first == \o2000  last == \o2014  words == Data
  <2>1. words \in Seq(W16) /\ Len(words) = 7
    BY StoredWords
  <2>2. IsBlock(words, first, last)
    BY <2>1 DEF IsBlock
  <2>3. a \in WordsIn(first, last)
    OBVIOUS
  <2> HIDE DEF first, last, words
  <2>4. WordAt(words, first, a) \in W16
    BY <2>2, <2>3, BlockWord
  <2> QED BY <2>4 DEF first, words, WordAt
<1>6. a \in WordsIn(\o2020, \o2036) => p \in W16
  <2> SUFFICES ASSUME a \in WordsIn(\o2020, \o2036) PROVE p \in W16
    OBVIOUS
  <2> DEFINE first == \o2020  last == \o2036  words == Pointers
  <2>1. words \in Seq(W16) /\ Len(words) = 8
    BY StoredWords
  <2>2. IsBlock(words, first, last)
    BY <2>1 DEF IsBlock
  <2>3. a \in WordsIn(first, last)
    OBVIOUS
  <2> HIDE DEF first, last, words
  <2>4. WordAt(words, first, a) \in W16
    BY <2>2, <2>3, BlockWord
  <2> QED BY <2>4 DEF first, words, WordAt
<1> HIDE DEF v, k, u, d, p, x, y, z
<1>7. v \in W16
  BY <1>1, <1>2, <1>3, <1>4, <1>5, <1>6
<1> QED BY <1>7 DEF v

\* The word of a program at an address.
LEMMA CodeWord ==
  ASSUME NEW code \in Seq(W16), NEW at \in Nat, NEW a \in {at + 2 * (i - 1) : i \in DOMAIN code}
  PROVE  code[(a - at) \div 2 + 1] \in W16
<1>1. PICK i \in DOMAIN code : a = at + 2 * (i - 1)
  OBVIOUS
<1>2. i \in Nat /\ code[i] \in W16
  OBVIOUS
<1>3. (a - at) \div 2 + 1 = i
  <2>1. a - at = 2 * (i - 1)
    BY <1>1, <1>2
  <2>2. (2 * (i - 1)) \div 2 = i - 1
    BY <1>2
  <2> QED BY <1>2, <2>1, <2>2
<1> QED BY <1>2, <1>3

\* Memory with a program holds words.
LEMMA MemoryWords ==
  ASSUME NEW map, NEW code \in Seq(W16)
  PROVE  MemoryOf(map, code) \in [map -> W16]
<1> DEFINE At == {Code + 2 * (i - 1) : i \in DOMAIN code}
           v(a) == IF a \in At THEN code[(a - Code) \div 2 + 1]
                   ELSE IF a \in MemoryMap THEN Contents[a] ELSE 0
<1>1. MemoryOf(map, code) = [a \in map |-> v(a)]
  BY DEF MemoryOf
<1>2. \A a : v(a) \in W16
  <2> SUFFICES ASSUME NEW a PROVE v(a) \in W16
    OBVIOUS
  <2>1. Code \in Nat
    BY DEF Code
  <2>2. a \in At => code[(a - Code) \div 2 + 1] \in W16
    BY <2>1, CodeWord
  <2>3. a \in MemoryMap => Contents[a] \in W16
    BY ContentsWords
  <2> HIDE DEF At
  <2> QED BY <2>2, <2>3, Small
<1> HIDE DEF v
<1> QED BY <1>1, <1>2

-----------------------------------------------------------------------------
(* The programs with memory management *)

\* A program with memory management, and its handler, are of words.
IsUserCase(c) ==
  /\ c.code \in Seq(W16) /\ c.handler \in Seq(W16)
  /\ c.sp \in W16 /\ c.usp \in W16 /\ c.psw \in W16 /\ c.due \subseteq W16

\* Such programs, with another stack or I/O page, or interrupted.
LEMMA UserCaseTyped ==
  ASSUME NEW code \in Seq(W16), NEW handler \in Seq(W16), NEW x \in W16, NEW d \in SUBSET W16, NEW k
  PROVE  LET c == UserCase(code, handler)
         IN  /\ IsUserCase(c) /\ IsUserCase([c EXCEPT !.io = TRUE])
             /\ IsUserCase([c EXCEPT !.usp = x]) /\ IsUserCase([c EXCEPT !.sp = x])
             /\ IsUserCase([c EXCEPT !.due = d, !.n = k])
<1> DEFINE c == UserCase(code, handler)
           o == \o704  u == \o40  p == \o140000
<1>1. o \in W16 /\ u \in W16 /\ p \in W16
  BY DEF W16
<1> HIDE DEF o, u, p
<1>2. c = [code |-> code, handler |-> handler, sp |-> o, usp |-> u, io |-> FALSE,
           psw |-> p, due |-> {}, n |-> 4]
  BY DEF UserCase, o, u, p
<1> HIDE DEF c
<1>3. /\ IsUserCase(c) /\ IsUserCase([c EXCEPT !.io = TRUE])
      /\ IsUserCase([c EXCEPT !.usp = x]) /\ IsUserCase([c EXCEPT !.sp = x])
      /\ IsUserCase([c EXCEPT !.due = d, !.n = k])
  BY <1>1, <1>2 DEF IsUserCase
<1> QED BY <1>3 DEF c

\* Their codes and handlers.
LEMMA UserWords ==
  /\ UserHandlers \subseteq Seq(W16) /\ References \subseteq Seq(W16)
  /\ Privileged \subseteq Seq(W16) /\ IoPageUses \subseteq Seq(W16)
  /\ Rti \in Seq(W16) /\ Unfreeze \in Seq(W16)
<1>1. /\ 0 \in W16 /\ 1 \in W16 /\ 2 \in W16 /\ 5 \in W16 /\ 6 \in W16 /\ \o6512 \in W16
      /\ \o6611 \in W16 /\ \o6613 \in W16
      /\ \o5037 \in W16 /\ \o177572 \in W16 /\ \o12737 \in W16
  BY DEF W16
<1>2. /\ \o12123 \in W16 /\ \o10015 \in W16 /\ \o10011 \in W16 /\ \o12312 \in W16 /\ \o5224 \in W16
      /\ \o110061 \in W16 /\ \o51311 \in W16 /\ \o4713 \in W16 /\ \o112 \in W16 /\ \o10045 \in W16
      /\ \o104400 \in W16 /\ \o10037 \in W16 /\ \o177776 \in W16 /\ \o177602 \in W16
      /\ \o177606 \in W16 /\ \o10013 \in W16 /\ \o240 \in W16
  BY DEF W16
<1>3. Rti \in Seq(W16) /\ Unfreeze \in Seq(W16)
  BY <1>1 DEF Rti, Unfreeze
<1>4. UserHandlers \subseteq Seq(W16)
  BY <1>1, <1>3 DEF UserHandlers
<1>5. References \subseteq Seq(W16)
  BY <1>1, <1>2 DEF References
<1>6. Privileged \subseteq Seq(W16)
  BY <1>1, <1>2 DEF Privileged
<1>7. IoPageUses \subseteq Seq(W16)
  BY <1>1, <1>2 DEF IoPageUses, RW
<1> QED BY <1>3, <1>4, <1>5, <1>6, <1>7

\* All of the programs with memory management are of words.
LEMMA UserCasesTyped ==
  ASSUME NEW c \in UserCases
  PROVE  IsUserCase(c)
<1> DEFINE Codes == References \cup Privileged
           Two == {Rti, Unfreeze}
           jsr == <<\o4713>>  trap == <<\o104400>>  fetch == <<\o12312>>  wait == <<1>>
           nop == <<\o240>>   reset == <<5, 2>>
           Stops == {\o40000, \o40002, 1}
           top == \o600
           Vs == {\o60}
           both == {\o60, \o100}
           Io(code, h) == [UserCase(code, h) EXCEPT !.io = TRUE]
           Stack(h, u) == [UserCase(jsr, h) EXCEPT !.usp = u]
           Due(code, h, d) == [UserCase(code, h) EXCEPT !.due = d, !.n = 3]
           Waits == {fetch, wait}
<1>1. \/ \E code \in Codes, h \in UserHandlers : c = UserCase(code, h)
      \/ \E code \in IoPageUses, h \in Two : c = Io(code, h)
      \/ \E h \in UserHandlers, u \in Stops : c = Stack(h, u)
      \/ c = [UserCase(trap, Rti) EXCEPT !.sp = top]
      \/ \E code \in Waits, h \in Two, v \in Vs : c = Due(code, h, {v})
      \/ c = Due(nop, reset, both)
  BY DEF UserCases
<1>2. /\ jsr \in Seq(W16) /\ trap \in Seq(W16) /\ fetch \in Seq(W16) /\ wait \in Seq(W16)
      /\ nop \in Seq(W16) /\ reset \in Seq(W16)
  <2>1. /\ \o4713 \in W16 /\ \o104400 \in W16 /\ \o12312 \in W16 /\ 1 \in W16 /\ \o240 \in W16
        /\ 5 \in W16 /\ 2 \in W16
    BY DEF W16
  <2> QED BY <2>1
<1>3. Stops \subseteq W16 /\ top \in W16 /\ Vs \subseteq W16 /\ both \in SUBSET W16
  BY DEF W16
<1>4. Codes \subseteq Seq(W16) /\ Two \subseteq Seq(W16)
  BY UserWords
<1>5. Waits \subseteq Seq(W16)
  BY <1>2
<1> HIDE DEF Codes, Two, jsr, trap, fetch, wait, nop, reset, Stops, top, Vs, both, Waits
<1>6. \A code \in Seq(W16), h \in Seq(W16) :
        /\ IsUserCase(UserCase(code, h)) /\ IsUserCase(Io(code, h))
        /\ \A x \in W16 : /\ IsUserCase([UserCase(code, h) EXCEPT !.usp = x])
                          /\ IsUserCase([UserCase(code, h) EXCEPT !.sp = x])
        /\ \A d \in SUBSET W16 : IsUserCase(Due(code, h, d))
  <2> TAKE code \in Seq(W16), h \in Seq(W16)
  <2> DEFINE e == {}  k == 3
  <2>1. e \in SUBSET W16
    OBVIOUS
  <2> HIDE DEF e, k
  <2>2. \A x \in W16, d \in SUBSET W16 :
          /\ IsUserCase(UserCase(code, h)) /\ IsUserCase([UserCase(code, h) EXCEPT !.io = TRUE])
          /\ IsUserCase([UserCase(code, h) EXCEPT !.usp = x])
          /\ IsUserCase([UserCase(code, h) EXCEPT !.sp = x])
          /\ IsUserCase([UserCase(code, h) EXCEPT !.due = d, !.n = k])
    BY UserCaseTyped
  <2> QED BY <1>3, <2>1, <2>2 DEF k
<1>7. CASE \E code \in Codes, h \in UserHandlers : c = UserCase(code, h)
  BY <1>4, <1>6, <1>7, UserWords
<1>8. CASE \E code \in IoPageUses, h \in Two : c = Io(code, h)
  <2> HIDE DEF Io
  <2> QED BY <1>4, <1>6, <1>8, UserWords
<1>9. CASE \E h \in UserHandlers, u \in Stops : c = Stack(h, u)
  <2>1. PICK h \in UserHandlers, u \in Stops : c = Stack(h, u)
    BY <1>9
  <2>2. h \in Seq(W16) /\ u \in W16
    BY <1>3, UserWords
  <2>3. IsUserCase([UserCase(jsr, h) EXCEPT !.usp = u])
    BY <1>2, <1>6, <2>2
  <2> QED BY <2>1, <2>3
<1>10. CASE c = [UserCase(trap, Rti) EXCEPT !.sp = top]
  BY <1>2, <1>3, <1>6, <1>10, UserWords
<1>11. CASE \E code \in Waits, h \in Two, v \in Vs : c = Due(code, h, {v})
  <2>1. PICK code \in Waits, h \in Two, v \in Vs : c = Due(code, h, {v})
    BY <1>11
  <2> DEFINE d == {v}
  <2>2. d \in SUBSET W16
    BY <1>3
  <2> HIDE DEF d, Due
  <2>3. IsUserCase(Due(code, h, d))
    BY <1>4, <1>5, <1>6, <2>2
  <2> QED BY <2>1, <2>3 DEF d
<1>12. CASE c = Due(nop, reset, both)
  <2> HIDE DEF Due
  <2> QED BY <1>2, <1>3, <1>6, <1>12
<1> QED BY <1>1, <1>7, <1>8, <1>9, <1>10, <1>11, <1>12

\* Memory with such a program holds words.
LEMMA UserMemoryWords ==
  ASSUME NEW c, IsUserCase(c)
  PROVE  UserMemory(c) \in [Map -> W16]
<1> DEFINE code == c.code
           handler == c.handler
           Here(a) == a \in {Code + 2 * (i - 1) : i \in DOMAIN handler}
           There(a) == a \in {UserCode + 2 * (i - 1) : i \in DOMAIN code}
           Vector(a) == a \in VectorWords \cup WordsIn(\o244, \o252)
           first == Code
           level == \o340
           x(a) == handler[(a - Code) \div 2 + 1]
           y(a) == code[(a - UserCode) \div 2 + 1]
           Row(a) == CASE Vector(a) -> IF a % 4 = 0 THEN first ELSE level
                       [] Here(a) -> x(a) [] There(a) -> y(a) [] a = \o1240 -> 2 [] OTHER -> 0
<1>1. UserMemory(c) = [a \in Map |-> Row(a)]
  BY DEF UserMemory
<1>2. code \in Seq(W16) /\ handler \in Seq(W16)
  BY DEF IsUserCase
<1>3. Code \in Nat /\ UserCode \in Nat /\ first \in W16 /\ level \in W16 /\ 0 \in W16 /\ 2 \in W16
  BY DEF Code, UserCode, W16
<1>4. \A a : Row(a) \in W16
  <2> SUFFICES ASSUME NEW a PROVE Row(a) \in W16
    OBVIOUS
  <2> DEFINE r == Row(a)  m == x(a)  n == y(a)
  <2>1. \/ r \in {first, level, 0, 2}
        \/ Here(a) /\ r = m
        \/ There(a) /\ r = n
    <3> HIDE DEF Vector, Here, There, x, y, first, level
    <3> QED OBVIOUS
  <2> HIDE DEF code, handler, first, level
  <2>2. Here(a) => m \in W16
    BY <1>2, <1>3, CodeWord
  <2>3. There(a) => n \in W16
    BY <1>2, <1>3, CodeWord
  <2> HIDE DEF r, m, n, Here, There
  <2>4. r \in W16
    BY <1>3, <2>1, <2>2, <2>3
  <2> QED BY <2>4 DEF r
<1> HIDE DEF Row
<1> QED BY <1>1, <1>4

\* The registers of memory management, initialised and mapped.
LEMMA MappingTyped == MmuInit \in MmuRegisters /\ \A io : Mapping(io) \in MmuRegisters
<1> DEFINE z == 0
<1>1. z \in W16 /\ z \in W12 /\ 1 \in W16
  BY DEF W16, W12
<1>2. MmuInit \in MmuRegisters
  <2>1. MmuInit = [par |-> [i \in 0..15 |-> z], pdr |-> [i \in 0..15 |-> z], sr0 |-> z, sr2 |-> z,
                   page |-> 0, mode |-> 0]
    BY DEF MmuInit
  <2>2. 0 \in -1..15 /\ 0 \in 0..3
    OBVIOUS
  <2> HIDE DEF z
  <2> QED BY <1>1, <2>1, <2>2 DEF MmuRegisters
<1>3. ASSUME NEW io PROVE Mapping(io) \in MmuRegisters
  <2> DEFINE a == \o7600  b == \o12  d == \o13  e == 4096 + \o13 - 127
             f == Full + RW  g == Full + Downward + RW  h == RW  k == RO  one == 1
             P(i) == CASE i \in {7, 15} -> a [] i = 8 -> b [] i \in {9, 10, 11} -> d
                       [] i = 12 -> e [] OTHER -> z
             D(i) == CASE i \in {0, 7} -> f [] i \in {8, 11} -> h [] i = 9 -> k
                       [] i = 12 -> g [] i = 15 /\ io -> f [] OTHER -> z
  <2>1. Mapping(io) = [par |-> [i \in 0..15 |-> P(i)], pdr |-> [i \in 0..15 |-> D(i)],
                       sr0 |-> one, sr2 |-> z, page |-> 0, mode |-> 0]
    BY DEF Mapping
  <2>2. a \in W12 /\ b \in W12 /\ d \in W12 /\ e \in W12
    BY DEF W12
  <2>3. f \in W16 /\ g \in W16 /\ h \in W16 /\ k \in W16 /\ one \in W16
    BY DEF W16, Full, RW, RO, Downward
  <2> HIDE DEF a, b, d, e, f, g, h, k, one, z
  <2>4. \A i : P(i) \in W12 /\ D(i) \in W16
    BY <1>1, <2>2, <2>3
  <2> HIDE DEF P, D
  <2>5. [i \in 0..15 |-> P(i)] \in [0..15 -> W12] /\ [i \in 0..15 |-> D(i)] \in [0..15 -> W16]
    BY <2>4
  <2>6. 0 \in -1..15 /\ 0 \in 0..3
    OBVIOUS
  <2> QED BY <1>1, <2>1, <2>3, <2>5, <2>6 DEF MmuRegisters
<1> QED BY <1>2, <1>3

\* The scratchpad a program starts with holds words.
LEMMA ScratchpadTyped ==
  ASSUME NEW r \in [1..6 -> W16], NEW ksp \in W16, NEW usp \in W16, NEW pc \in W16
  PROVE  Scratchpad(r, ksp, usp, pc) \in [0..15 -> W16]
<1> DEFINE fill == \o52525
           V(k) == CASE k \in 10..15 -> r[16 - k] [] k = 9 -> ksp [] k = 8 -> pc
                     [] k = 1 -> usp [] OTHER -> fill
<1>1. Scratchpad(r, ksp, usp, pc) = [k \in 0..15 |-> V(k)]
  BY DEF Scratchpad
<1>2. fill \in W16
  BY DEF W16
<1> HIDE DEF fill
<1>3. \A k \in 0..15 : V(k) \in W16
  <2> TAKE k \in 0..15
  <2>1. k \in 10..15 => r[16 - k] \in W16
    <3>1. k \in 10..15 => 16 - k \in 1..6
      OBVIOUS
    <3> QED BY <3>1
  <2> QED BY <1>2, <2>1
<1> HIDE DEF V
<1> QED BY <1>1, <1>3

\* A program starts with the widths, and its devices' vectors are words.
LEMMA InitTyped ==
  ASSUME Memory = Map, Init
  PROVE  CpuTypeOK /\ due \subseteq W16
<1>1. /\ psw \in W16 /\ sp \in [0..15 -> W16] /\ mmu \in MmuRegisters /\ mem \in [Memory -> W16]
      /\ due \subseteq W16 /\ Ready
  <2>1. CASE \E c \in Cases :
               /\ mem = MemoryOf(Map, c.code) /\ psw = c.psw /\ mmu = MmuInit
               /\ sp = Scratchpad(c.r, c.sp, \o1104, Code) /\ due = c.due /\ Ready
    <3> DEFINE usp == \o1104  pc == Code
    <3>1. PICK c \in Cases :
            /\ mem = MemoryOf(Map, c.code) /\ psw = c.psw /\ mmu = MmuInit
            /\ sp = Scratchpad(c.r, c.sp, usp, pc) /\ due = c.due /\ Ready
      BY <2>1
    <3>2. usp \in W16 /\ pc \in W16
      BY DEF W16, Code
    <3> HIDE DEF usp, pc
    <3>3. /\ c.code \in Seq(W16) /\ c.r \in [1..6 -> W16]
          /\ c.sp \in W16 /\ c.psw \in W16 /\ c.due \subseteq W16
      BY CasesTyped DEF IsCase
    <3>4. sp \in [0..15 -> W16]
      BY <3>1, <3>2, <3>3, ScratchpadTyped
    <3>5. mem \in [Memory -> W16]
      BY <3>1, <3>3, MemoryWords
    <3> QED BY <3>1, <3>3, <3>4, <3>5, MappingTyped
  <2>2. CASE \E c \in UserCases :
               /\ mem = UserMemory(c) /\ psw = c.psw /\ mmu = Mapping(c.io)
               /\ sp = Scratchpad(UserRegisters, c.sp, c.usp, 0) /\ due = c.due /\ Ready
    <3> DEFINE pc == 0
    <3>1. PICK c \in UserCases :
            /\ mem = UserMemory(c) /\ psw = c.psw /\ mmu = Mapping(c.io)
            /\ sp = Scratchpad(UserRegisters, c.sp, c.usp, pc) /\ due = c.due /\ Ready
      BY <2>2
    <3>2. pc \in W16
      BY Small
    <3> HIDE DEF pc
    <3>3. IsUserCase(c)
      BY UserCasesTyped
    <3>4. UserRegisters \in [1..6 -> W16]
      <4>1. /\ 5 \in W16 /\ \o20000 \in W16 /\ \o40000 \in W16 /\ \o60000 \in W16 /\ \o60076 \in W16
            /\ \o117700 \in W16
        BY DEF W16
      <4> QED BY <4>1, SixWords DEF UserRegisters
    <3>5. c.sp \in W16 /\ c.usp \in W16 /\ c.psw \in W16 /\ c.due \subseteq W16
      BY <3>3 DEF IsUserCase
    <3>6. sp \in [0..15 -> W16]
      BY <3>1, <3>2, <3>4, <3>5, ScratchpadTyped
    <3>7. mem \in [Memory -> W16]
      BY <3>1, <3>3, UserMemoryWords
    <3> QED BY <3>1, <3>5, <3>6, <3>7, MappingTyped
  <2> QED BY <2>1, <2>2 DEF Init
<1>2. /\ 0 \in W16 /\ 6 \in W16 /\ 0 \in W18
  BY DEF W16, W18
<1>3. intc = <<>>
  BY <1>1 DEF Ready
<1>4. IsQueue(intc) /\ Pending(intc) \subseteq W16
  BY <1>3, EmptyWords DEF IsWordQueue
<1>5. BusTypeOK
  BY <1>1, <1>2 DEF Ready, BusTypeOK
<1>6. /\ mpc = 0 /\ ir = 6 /\ irCode = 0 /\ bReg = 0 /\ bxReg = 0 /\ rotCbit = 0 /\ count = 0
      /\ ovx = 0 /\ ba = 0 /\ vba = 0
      /\ servIr \in BOOLEAN /\ irValid \in BOOLEAN /\ haltRqst \in BOOLEAN /\ busError \in BOOLEAN
      /\ stov \in BOOLEAN /\ stovEn \in BOOLEAN /\ mmuKte \in BOOLEAN /\ resetInst \in BOOLEAN
      /\ halted \in BOOLEAN
  BY <1>1 DEF Ready
<1>7. CpuTypeOK
  <2>1. 0 \in 0..511 /\ 0 \in 0..7 /\ 0 \in 0..63 /\ 0 \in 0..1
    OBVIOUS
  <2> QED BY <1>1, <1>2, <1>4, <1>5, <1>6, <2>1 DEF CpuTypeOK
<1> QED BY <1>1, <1>7

\* The programs of the runs are run by such a machine.
LEMMA MachineHere == ASSUME Memory = Map PROVE Spec => Machine
<1>1. Init => CpuTypeOK /\ due \subseteq W16
  BY InitTyped
<1>2. due \subseteq W16 /\ [Next]_mvars => (due \subseteq W16)'
  BY DEF Next, Step, Arrive, mvars
<1>3. due \subseteq W16 /\ [Next]_mvars => [Ustep \/ \E v \in W16 : RequestOf(v)]_cpuVars
  BY DEF Next, Step, Arrive, RequestOf, mvars
<1> QED BY <1>1, <1>2, <1>3, PTL DEF Spec, Machine

\* So their registers and memory keep their widths.
THEOREM TypeCorrectHere == ASSUME Memory = Map PROVE Spec => []CpuTypeOK
<1>1. Spec => Machine
  BY MachineHere
<1> QED BY <1>1, MachineTypeCorrect, PTL

\* And SR0 and SR2 hold their aborts.
THEOREM FrozenHere == ASSUME Memory = Map PROVE Spec => FrozenAfterAbort
<1>1. Spec => Machine
  BY MachineHere
<1> QED BY <1>1, MachineFrozen, PTL

-----------------------------------------------------------------------------
(* Stores through pages *)

\* The seven entries of a ROM in its word w, the first in its highest digit.
Entries(rom, q, w) ==
  /\ Nibble(rom, 7 * q) = (w \div 16777216) % 16
  /\ Nibble(rom, 7 * q + 1) = (w \div 1048576) % 16
  /\ Nibble(rom, 7 * q + 2) = (w \div 65536) % 16
  /\ Nibble(rom, 7 * q + 3) = (w \div 4096) % 16
  /\ Nibble(rom, 7 * q + 4) = (w \div 256) % 16
  /\ Nibble(rom, 7 * q + 5) = (w \div 16) % 16
  /\ Nibble(rom, 7 * q + 6) = w % 16

\* A word of a ROM is seven entries.
LEMMA Digits ==
  ASSUME NEW rom, NEW q \in Nat, NEW w \in Nat, rom[q + 1] = w
  PROVE  Entries(rom, q, w)
<1>1. /\ 16^0 = 1 /\ 16^1 = 16 /\ 16^2 = 256 /\ 16^3 = 4096 /\ 16^4 = 65536
      /\ 16^5 = 1048576 /\ 16^6 = 16777216
  BY SMT
<1>2. ASSUME NEW r \in 0..6
      PROVE  Nibble(rom, 7 * q + r) = (w \div 16^(6 - r)) % 16
  <2>1. (7 * q + r) \div 7 = q /\ (7 * q + r) % 7 = r
    BY SMT
  <2> QED BY <2>1, Zenon DEF Nibble
<1>3. /\ Nibble(rom, 7 * q + 0) = (w \div 16^(6 - 0)) % 16
      /\ Nibble(rom, 7 * q + 1) = (w \div 16^(6 - 1)) % 16
      /\ Nibble(rom, 7 * q + 2) = (w \div 16^(6 - 2)) % 16
      /\ Nibble(rom, 7 * q + 3) = (w \div 16^(6 - 3)) % 16
      /\ Nibble(rom, 7 * q + 4) = (w \div 16^(6 - 4)) % 16
      /\ Nibble(rom, 7 * q + 5) = (w \div 16^(6 - 5)) % 16
      /\ Nibble(rom, 7 * q + 6) = (w \div 16^(6 - 6)) % 16
  BY <1>2
<1>4. 7 * q + 0 = 7 * q /\ w \div 1 = w
  BY SMT
<1> QED BY <1>1, <1>3, <1>4, SMT DEF Entries

\* A write passes E83 in a page that permits writing, of kernel or user mode, and
\* on the right side of its limit.
LEMMA WritePasses ==
  ASSUME NEW p \in 160..255, p < 192 \/ p > 223, Nibble(KTE83Image, p) % 8 = 0
  PROVE  p \in {172, 175, 236, 239}
<1> DEFINE rom == KTE83Image
           Row(q) == p \in 7 * q..7 * q + 6
<1>1. \E q \in {22, 23, 24, 25, 26, 27, 32, 33, 34, 35, 36} : Row(q)
  <2>1. p \div 7 \in Nat /\ p \in 7 * (p \div 7)..7 * (p \div 7) + 6
    BY SMT
  <2>2. p \div 7 \in {22, 23, 24, 25, 26, 27, 32, 33, 34, 35, 36}
    BY SMT
  <2> QED BY <2>1, <2>2
<1>2. CASE Row(22)
  <2> DEFINE q == 22  w == \h0000001
  <2>1. rom[q + 1] = w /\ q \in Nat /\ w \in Nat
    BY SMT DEF KTE83Image
  <2> HIDE DEF q, w, rom
  <2>2. Entries(rom, q, w)
    BY <2>1, Digits
  <2> QED BY <1>2, <2>2, SMT DEF rom, w, q, Entries
<1>3. CASE Row(23)
  <2> DEFINE q == 23  w == \h3314664
  <2>1. rom[q + 1] = w /\ q \in Nat /\ w \in Nat
    BY SMT DEF KTE83Image
  <2> HIDE DEF q, w, rom
  <2>2. Entries(rom, q, w)
    BY <2>1, Digits
  <2> QED BY <1>3, <2>2, SMT DEF rom, w, q, Entries
<1>4. CASE Row(24)
  <2> DEFINE q == 24  w == \h1331022
  <2>1. rom[q + 1] = w /\ q \in Nat /\ w \in Nat
    BY SMT DEF KTE83Image
  <2> HIDE DEF q, w, rom
  <2>2. Entries(rom, q, w)
    BY <2>1, Digits
  <2> QED BY <1>4, <2>2, SMT DEF rom, w, q, Entries
<1>5. CASE Row(25)
  <2> DEFINE q == 25  w == \h0133157
  <2>1. rom[q + 1] = w /\ q \in Nat /\ w \in Nat
    BY SMT DEF KTE83Image
  <2> HIDE DEF q, w, rom
  <2>2. Entries(rom, q, w)
    BY <2>1, Digits
  <2> QED BY <1>5, <2>2, SMT DEF rom, w, q, Entries
<1>6. CASE Row(26)
  <2> DEFINE q == 26  w == \h7513311
  <2>1. rom[q + 1] = w /\ q \in Nat /\ w \in Nat
    BY SMT DEF KTE83Image
  <2> HIDE DEF q, w, rom
  <2>2. Entries(rom, q, w)
    BY <2>1, Digits
  <2> QED BY <1>6, <2>2, SMT DEF rom, w, q, Entries
<1>7. CASE Row(27)
  <2> DEFINE q == 27  w == \h3310000
  <2>1. rom[q + 1] = w /\ q \in Nat /\ w \in Nat
    BY SMT DEF KTE83Image
  <2> HIDE DEF q, w, rom
  <2>2. Entries(rom, q, w)
    BY <2>1, Digits
  <2> QED BY <1>7, <2>2, SMT DEF rom, w, q, Entries
<1>8. CASE Row(32)
  <2> DEFINE q == 32  w == \h1331466
  <2>1. rom[q + 1] = w /\ q \in Nat /\ w \in Nat
    BY SMT DEF KTE83Image
  <2> HIDE DEF q, w, rom
  <2>2. Entries(rom, q, w)
    BY <2>1, Digits
  <2> QED BY <1>8, <2>2, SMT DEF rom, w, q, Entries
<1>9. CASE Row(33)
  <2> DEFINE q == 33  w == \h4133102
  <2>1. rom[q + 1] = w /\ q \in Nat /\ w \in Nat
    BY SMT DEF KTE83Image
  <2> HIDE DEF q, w, rom
  <2>2. Entries(rom, q, w)
    BY <2>1, Digits
  <2> QED BY <1>9, <2>2, SMT DEF rom, w, q, Entries
<1>10. CASE Row(34)
  <2> DEFINE q == 34  w == \h2013315
  <2>1. rom[q + 1] = w /\ q \in Nat /\ w \in Nat
    BY SMT DEF KTE83Image
  <2> HIDE DEF q, w, rom
  <2>2. Entries(rom, q, w)
    BY <2>1, Digits
  <2> QED BY <1>10, <2>2, SMT DEF rom, w, q, Entries
<1>11. CASE Row(35)
  <2> DEFINE q == 35  w == \h7751331
  <2>1. rom[q + 1] = w /\ q \in Nat /\ w \in Nat
    BY SMT DEF KTE83Image
  <2> HIDE DEF q, w, rom
  <2>2. Entries(rom, q, w)
    BY <2>1, Digits
  <2> QED BY <1>11, <2>2, SMT DEF rom, w, q, Entries
<1>12. CASE Row(36)
  <2> DEFINE q == 36  w == \h1331000
  <2>1. rom[q + 1] = w /\ q \in Nat /\ w \in Nat
    BY SMT DEF KTE83Image
  <2> HIDE DEF q, w, rom
  <2>2. Entries(rom, q, w)
    BY <2>1, Digits
  <2> QED BY <1>12, <2>2, SMT DEF rom, w, q, Entries
<1> HIDE DEF Row
<1> QED BY <1>1, <1>2, <1>3, <1>4, <1>5, <1>6, <1>7, <1>8, <1>9, <1>10, <1>11, <1>12

\* A page's descriptor permits writing its block.
Writable(pdr, block) ==
  LET limit == Slice(pdr, 14, 8)
  IN  /\ Slice(pdr, 2, 1) = 3
      /\ IF Bit(pdr, 3) = 1 THEN block >= limit ELSE block <= limit

\* E83 passes a write that the descriptor permits only, and of kernel or user mode.
LEMMA PassedWrite ==
  ASSUME NEW pdr \in W16, NEW block \in 0..127, NEW mode \in 0..3, NEW bus \in 2..3,
         AccessFaults(pdr, block, mode, bus) = 0
  PROVE  Writable(pdr, block) /\ mode \in {0, 3}
<1> DEFINE plf == Slice(pdr, 14, 8)
           ed == Bit(pdr, 3)
           b1 == Bit(pdr, 1)
           b2 == Bit(pdr, 2)
           beyond == Flag(block > plf \/ (ed = 1 /\ block = plf))
           ill == Flag(mode \in {1, 2})
           c0 == bus % 2
           c1 == bus \div 2
           bits == <<ed, beyond, b1, b2, ill, 1, c0, c1>>
           p == Pack(bits)
           d == Nibble(KTE83Image, p)
<1>1. AccessFaults(pdr, block, mode, bus) =
        ABORT_NR * Bit(d, 0) + ABORT_PL * Bit(d, 1) + ABORT_RO * Bit(d, 2)
  BY DEF AccessFaults
<1>2. beyond \in 0..1 /\ ill \in 0..1
  BY Flags
<1>3. ed \in 0..1 /\ b1 \in 0..1 /\ b2 \in 0..1
  <2>1. pdr \in Int
    BY DEF W16
  <2> QED BY <2>1, Binary
<1>4. c0 \in 0..1 /\ c1 = 1
  BY SMT
<1>5. beyond = 1 <=> block > plf \/ (ed = 1 /\ block = plf)
  BY SMT DEF Flag
<1>6. ill = 0 => mode \in {0, 3}
  BY SMT DEF Flag
<1>7. (b1 = 1 /\ b2 = 1) => Slice(pdr, 2, 1) = 3
  <2> DEFINE e == pdr \div 2  f == pdr \div 4
  <2>1. e \in Nat /\ f = e \div 2
    BY SMT DEF W16
  <2>2. b1 = e % 2 /\ b2 = f % 2
    BY Weights, SMT DEF Bit
  <2>3. Slice(pdr, 2, 1) = e % 4
    BY Weights, SMT DEF Slice
  <2> HIDE DEF e, f, b1, b2
  <2>4. e % 2 = 1 /\ (e \div 2) % 2 = 1 => e % 4 = 3
    BY <2>1, SMT
  <2> QED BY <2>1, <2>2, <2>3, <2>4
<1>8. plf \in Nat
  BY Weights, SMT DEF Slice, W16
<1> HIDE DEF plf, ed, b1, b2, beyond, ill, c0, c1
<1>9. p = ed + 2 * beyond + 4 * b1 + 8 * b2 + 16 * ill + 32 + 64 * c0 + 128
  <2>1. Len(bits) = 8 /\ bits[1] = ed /\ bits[2] = beyond /\ bits[3] = b1 /\ bits[4] = b2
        /\ bits[5] = ill /\ bits[6] = 1 /\ bits[7] = c0 /\ bits[8] = c1
    OBVIOUS
  <2> HIDE DEF bits
  <2>2. Pack(bits) = 2^0 * bits[1] + 2^1 * bits[2] + 2^2 * bits[3] + 2^3 * bits[4] + 2^4 * bits[5]
                     + 2^5 * bits[6] + 2^6 * bits[7] + 2^7 * bits[8] + 0
    BY <2>1 DEF Pack
  <2> QED BY <1>2, <1>3, <1>4, <2>1, <2>2, Weights
<1> HIDE DEF p
<1>10. p \in 160..255 /\ (p < 192 \/ p > 223)
  BY <1>2, <1>3, <1>4, <1>9, SMT
<1>11. d \in 0..15
  <2>1. p \in 0..255
    BY <1>10, SMT
  <2> QED BY <2>1, RomEntries
<1> HIDE DEF d
<1>12. d % 8 = 0
  <2> DEFINE x == Bit(d, 0)  y == Bit(d, 1)  z == Bit(d, 2)
  <2>1. x = d % 2 /\ y = (d \div 2) % 2 /\ z = (d \div 4) % 2
    BY <1>11, Weights, SMT DEF Bit
  <2>2. x \in 0..1 /\ y \in 0..1 /\ z \in 0..1
    BY <1>11, Binary
  <2> HIDE DEF x, y, z
  <2>3. x = 0 /\ y = 0 /\ z = 0
    BY <1>1, <2>2, SMT DEF ABORT_NR, ABORT_PL, ABORT_RO, x, y, z
  <2>4. d \in {0, 8}
    BY <1>11, <2>1, <2>3, SMT
  <2> QED BY <2>4, SMT
<1>13. p \in {172, 175, 236, 239}
  BY <1>10, <1>12, WritePasses DEF d
<1>14. b1 = 1 /\ b2 = 1 /\ ill = 0 /\ (ed = beyond)
  BY <1>2, <1>3, <1>4, <1>9, <1>13, SMT
<1>15. IF ed = 1 THEN block >= plf ELSE block <= plf
  BY <1>3, <1>5, <1>8, <1>14, SMT
<1>16. Writable(pdr, block)
  BY <1>7, <1>14, <1>15 DEF Writable, plf, ed
<1> QED BY <1>6, <1>14, <1>16

\* The page of a reference.
Page(va, mode) == Slice(va, 15, 13) + (IF mode = 3 THEN 8 ELSE 0)

\* The enable bit is not one of those that follow a reference.
LEMMA ReferenceEnable ==
  ASSUME NEW w \in W16, NEW mode \in 0..3, NEW pg \in 0..7
  PROVE  Bit(Reference(w, mode, pg), 0) = Bit(w, 0)
<1> DEFINE s == Slice(w, 6, 1)
           q == w \div 2
           r == w % 2
<1>1. w = 2 * q + r /\ q \in Nat /\ r \in 0..1 /\ s \in Nat
  BY Weights DEF W16, Slice
<1>2. Bit(w, 0) = r
  BY <1>1, Weights DEF Bit
<1>3. Reference(w, mode, pg) = 2 * (q - s + 16 * mode + pg) + r
  <2> HIDE DEF s, q, r
  <2>1. Reference(w, mode, pg) = w - 2 * s + 32 * mode + 2 * pg
    BY DEF Reference, s
  <2> QED BY <1>1, <2>1
<1> HIDE DEF s, q, r
<1> DEFINE e == q - s + 16 * mode + pg
<1>4. e \in Int
  BY <1>1
<1> HIDE DEF e
<1>5. Bit(2 * e + r, 0) = r
  <2>1. (2 * e + r) % 2 = r
    BY <1>1, <1>4
  <2>2. Bit(2 * e + r, 0) = ((2 * e + r) \div 1) % 2
    BY Weights DEF Bit
  <2>3. (2 * e + r) \div 1 = 2 * e + r
    BY <1>1, <1>4
  <2> QED BY <2>1, <2>2, <2>3
<1> QED BY <1>2, <1>3, <1>5 DEF e

\* The reference that was relocated last: its page, and its address.
Relocated(m, va, a) ==
  /\ m.page = Page(va, m.mode)
  /\ a = (((m.par[m.page] + Slice(va, 12, 6)) % 4096) * 64) + (va % 64)

\* The address on the bus is that of the last reference, relocated or, with
\* relocation off, not; a register of memory management may have been written
\* there since.
Addressed(m, va, a) ==
  \/ Relocated(m, va, a)
  \/ m.page = -1 /\ ~Relocating(m)
  \/ MmuRegister(a - (a % 2))

\* Two states of the registers map the same addresses.
SameMap(m, n) ==
  n.par = m.par /\ n.page = m.page /\ n.mode = m.mode /\ (Relocating(n) <=> Relocating(m))

\* A reference is relocated by its page's frame and leaves the frames, the
\* descriptors and the enable bit alone.
LEMMA RelocateMaps ==
  ASSUME NEW m \in MmuRegisters, NEW va \in W16, NEW mode \in 0..3, NEW bus \in 0..4
  PROVE  LET t == Relocate(m, va, mode, bus)
             i == Page(va, mode)
         IN  /\ t.mmu.par = m.par /\ t.mmu.pdr = m.pdr
             /\ t.mmu.page = i /\ t.mmu.mode = mode
             /\ (Relocating(t.mmu) <=> Relocating(m))
             /\ t.pba = (((m.par[i] + Slice(va, 12, 6)) % 4096) * 64) + (va % 64)
             /\ t.abort \/ bus = MAP \/ AccessFaults(m.pdr[i], Slice(va, 12, 6), mode, bus) = 0
<1> DEFINE pg    == Slice(va, 15, 13)
           index == pg + (IF mode = 3 THEN 8 ELSE 0)
           block == Slice(va, 12, 6)
           ref   == Reference(m.sr0, mode, pg)
           seen  == IF NoFault(m.sr0) THEN ref ELSE m.sr0
           access == AccessFaults(m.pdr[index], block, mode, bus)
           fault == IF bus = MAP THEN 0 ELSE access
           new   == IF fault # 0 /\ NoFault(seen) THEN seen + fault ELSE seen
           n     == [m EXCEPT !.sr0 = new, !.page = index, !.mode = mode]
           t     == Relocate(m, va, mode, bus)
           pa    == (((m.par[index] + block) % 4096) * 64) + (va % 64)
<1>1. t.mmu = n /\ t.pba = pa /\ t.abort = (fault # 0)
  BY DEF Relocate
<1>2. HasBits(3, pg) /\ HasBits(7, block)
  <2>1. va \in Nat
    BY DEF W16
  <2> QED BY <2>1, Sliced
<1>3. index = Page(va, mode)
  BY DEF Page
<1> HIDE DEF t, pg, block, pa
<1>4. pg \in 0..7 /\ block \in 0..127
  BY <1>2 DEF HasBits
<1>5. index \in 0..15
  BY <1>4
<1>6. m.sr0 \in W16 /\ m.pdr[index] \in W16
  BY <1>5 DEF MmuRegisters
<1> HIDE DEF index
<1>7. n.par = m.par /\ n.pdr = m.pdr /\ n.page = index /\ n.mode = mode /\ n.sr0 = new
  BY DEF MmuRegisters
<1> HIDE DEF n
<1>8. fault \in Nat /\ fault % 2 = 0
  <2>1. CASE bus = MAP
    BY <2>1
  <2>2. CASE bus # MAP
    <3>1. bus \in 0..3
      BY <2>2 DEF MAP
    <3> DEFINE descriptor == m.pdr[index]
               c == bus
               f == AccessFaults(descriptor, block, mode, c)
    <3>2. descriptor \in W16 /\ c \in 0..3
      BY <1>6, <3>1
    <3>3. fault = f
      BY <2>2
    <3> HIDE DEF descriptor, c
    <3>4. f \in FaultFlags
      BY <1>4, <3>2, FaultBits
    <3> HIDE DEF f
    <3> QED BY <3>3, <3>4 DEF FaultFlags
  <2> QED BY <2>1, <2>2
<1>9. fault # 0 \/ bus = MAP \/ access = 0
  OBVIOUS
<1> HIDE DEF fault, access
<1>10. Bit(seen, 0) = Bit(m.sr0, 0) /\ seen \in Int
  <2>1. Bit(ref, 0) = Bit(m.sr0, 0)
    BY <1>4, <1>6, ReferenceEnable
  <2>2. ref \in Int
    <3>1. Slice(m.sr0, 6, 1) \in Int
      BY <1>6, Weights DEF Slice, W16
    <3> QED BY <1>4, <1>6, <3>1 DEF Reference, W16
  <2> HIDE DEF ref
  <2> QED BY <1>6, <2>1, <2>2 DEF W16
<1> HIDE DEF seen
<1>11. Bit(new, 0) = Bit(seen, 0)
  <2>1. \A x \in Int : Bit(x, 0) = x % 2
    BY Weights, SMT DEF Bit
  <2>2. (seen + fault) % 2 = seen % 2
    BY <1>8, <1>10, SMT
  <2>3. seen + fault \in Int
    BY <1>8, <1>10
  <2> QED BY <1>10, <2>1, <2>2, <2>3
<1> HIDE DEF new
<1>12. Relocating(n) <=> Relocating(m)
  BY <1>7, <1>10, <1>11 DEF Relocating
<1>13. /\ t.mmu.par = m.par /\ t.mmu.pdr = m.pdr
       /\ t.mmu.page = index /\ t.mmu.mode = mode
       /\ (Relocating(t.mmu) <=> Relocating(m))
       /\ t.pba = pa
       /\ t.abort \/ bus = MAP \/ access = 0
  BY <1>1, <1>7, <1>9, <1>12
<1>14. pa = (((m.par[index] + Slice(va, 12, 6)) % 4096) * 64) + (va % 64)
  BY DEF pa, block
<1>15. access = AccessFaults(m.pdr[index], Slice(va, 12, 6), mode, bus)
  BY DEF access, block
<1> QED BY <1>3, <1>13, <1>14, <1>15 DEF t

\* A change that leaves the map alone leaves the address where it was.
LEMMA MapKept ==
  ASSUME NEW m, NEW n, NEW va, NEW a, SameMap(m, n), Addressed(m, va, a)
  PROVE  Addressed(n, va, a)
BY DEF SameMap, Addressed, Relocated

\* Loading BA addresses a reference; otherwise BA keeps its own.
LEMMA AddressMapped ==
  ASSUME CpuTypeOK, NEW uw, NEW o, IsOperands(o), uw.loadBa \/ Addressed(mmu, vba, ba)
  PROVE  LET l == LoadBa(uw, o)
         IN  /\ Addressed(l.mmu, l.vba, l.ba)
             /\ l.mmu.par = mmu.par /\ l.mmu.pdr = mmu.pdr
             /\ (Relocating(l.mmu) <=> Relocating(mmu))
<1> DEFINE l == LoadBa(uw, o)
           md == ReferenceMode(uw)
           a == o.a
<1>1. CASE ~uw.loadBa
  <2>1. l.mmu = mmu /\ l.vba = vba /\ l.ba = ba
    BY <1>1 DEF LoadBa
  <2> QED BY <1>1, <2>1
<1>2. CASE uw.loadBa /\ RelocateH(uw)
  <2> DEFINE t == Relocate(mmu, a, md, MAP)
  <2>1. l.mmu = t.mmu /\ l.vba = a /\ l.ba = t.pba
    BY <1>2 DEF LoadBa, Translate
  <2>2. a \in W16 /\ mmu \in MmuRegisters /\ MAP \in 0..4
    BY DEF IsOperands, CpuTypeOK, BusTypeOK, MAP
  <2>3. md \in 0..3
    <3> DEFINE p == psw
               m1 == Slice(p, 13, 12)
               m2 == Slice(p, 15, 14)
    <3>1. p \in Nat
      BY DEF CpuTypeOK, BusTypeOK, W16
    <3>2. md = 0 \/ md = m1 \/ md = m2
      BY DEF ReferenceMode
    <3> HIDE DEF p, md
    <3>3. HasBits(2, m1) /\ HasBits(2, m2)
      BY <3>1, Sliced
    <3> HIDE DEF m1, m2
    <3>4. m1 \in 0..3 /\ m2 \in 0..3
      BY <3>3 DEF HasBits
    <3> QED BY <3>2, <3>4
  <2> HIDE DEF md, a, l
  <2>4. /\ t.mmu.par = mmu.par /\ t.mmu.pdr = mmu.pdr
        /\ t.mmu.page = Page(a, md) /\ t.mmu.mode = md
        /\ (Relocating(t.mmu) <=> Relocating(mmu))
        /\ t.pba = (((mmu.par[Page(a, md)] + Slice(a, 12, 6)) % 4096) * 64) + (a % 64)
    BY <2>2, <2>3, RelocateMaps
  <2> HIDE DEF t
  <2>5. Relocated(t.mmu, a, t.pba)
    BY <2>4 DEF Relocated
  <2> QED BY <2>1, <2>4, <2>5 DEF l, Addressed
<1>3. CASE uw.loadBa /\ ~RelocateH(uw)
  <2> DEFINE n == [mmu EXCEPT !.page = -1]
  <2>1. l.mmu = n
    BY <1>3 DEF LoadBa, Translate
  <2> HIDE DEF l
  <2>2. n.par = mmu.par /\ n.pdr = mmu.pdr /\ n.page = -1 /\ n.sr0 = mmu.sr0
    BY DEF CpuTypeOK, BusTypeOK, MmuRegisters
  <2> HIDE DEF n
  <2>3. ~Relocating(mmu) /\ ~Relocating(n)
    BY <1>3, <2>2 DEF RelocateH, Relocating
  <2> QED BY <2>1, <2>2, <2>3 DEF l, Addressed
<1> QED BY <1>1, <1>2, <1>3

\* The access check uses the same map, and a bus cycle passed it.
LEMMA CheckMaps ==
  ASSUME NEW uw, NEW o, IsOperands(o), NEW l, l.vba \in W16, l.mmu \in MmuRegisters,
         Addressed(l.mmu, l.vba, l.ba)
  PROVE  LET k == AccessCheck(uw, o, l)
         IN  /\ Addressed(k.mmu, l.vba, l.ba)
             /\ Relocated(l.mmu, l.vba, l.ba) => k.mmu.page = l.mmu.page
             /\ Relocated(l.mmu, l.vba, l.ba) /\ k.cycle
                => AccessFaults(l.mmu.pdr[l.mmu.page], Slice(l.vba, 12, 6), l.mmu.mode, o.bus) = 0
<1> DEFINE m == l.mmu
           va == l.vba
           a == l.ba
           md == m.mode
           bus == o.bus
           t == Relocate(m, va, md, bus)
           k == AccessCheck(uw, o, l)
           access(i) == AccessFaults(m.pdr[i], Slice(va, 12, 6), md, bus)
<1>0. m \in MmuRegisters /\ va \in W16 /\ md \in 0..3 /\ bus \in 0..4 /\ bus # MAP /\ bus \in 0..3
  BY DEF IsOperands, MmuRegisters, MAP
<1>1. \/ k.mmu = t.mmu /\ (k.cycle => ~t.abort) /\ m.page >= 0
      \/ k.mmu = m /\ (k.cycle => ~(m.page >= 0))
  BY DEF AccessCheck
<1>2. Addressed(m, va, a)
  OBVIOUS
<1> HIDE DEF m, va, a, md, bus, k
<1>3. /\ t.mmu.par = m.par /\ t.mmu.pdr = m.pdr
      /\ t.mmu.page = Page(va, md) /\ t.mmu.mode = md
      /\ (Relocating(t.mmu) <=> Relocating(m))
      /\ t.abort \/ bus = MAP \/ access(Page(va, md)) = 0
  BY <1>0, RelocateMaps
<1> HIDE DEF t, access
<1>4. Page(va, md) \in 0..15
  <2>1. va \in Nat
    BY <1>0 DEF W16
  <2> DEFINE pg == Slice(va, 15, 13)
  <2>2. HasBits(3, pg)
    BY <2>1, Sliced
  <2>3. Page(va, md) = pg + (IF md = 3 THEN 8 ELSE 0)
    BY DEF Page
  <2> HIDE DEF pg
  <2> QED BY <2>2, <2>3 DEF HasBits
<1>5. m.mode = md
  BY DEF md
<1>6. CASE k.mmu = t.mmu /\ (k.cycle => ~t.abort) /\ m.page >= 0
  <2>1. Relocated(m, va, a) => Relocated(t.mmu, va, a)
    BY <1>3, <1>5 DEF Relocated
  <2>2. Addressed(t.mmu, va, a)
    BY <1>2, <1>6, <2>1 DEF Addressed
  <2>3. Relocated(m, va, a) /\ k.cycle => access(m.page) = 0
    BY <1>0, <1>3, <1>5, <1>6 DEF Relocated
  <2>4. Relocated(m, va, a) => t.mmu.page = m.page
    BY <1>3, <1>5 DEF Relocated
  <2> QED BY <1>6, <2>2, <2>3, <2>4 DEF k, m, va, a, md, bus, access
<1>7. CASE k.mmu = m /\ (k.cycle => ~(m.page >= 0))
  <2>1. Relocated(m, va, a) => m.page >= 0
    BY <1>4, <1>5 DEF Relocated
  <2> QED BY <1>2, <1>7, <2>1 DEF k, m, va, a
<1> QED BY <1>1, <1>6, <1>7

\* A bus cycle changes the map through a register of memory management only.
LEMMA TransferMaps ==
  ASSUME NEW cycle, NEW bus, NEW a \in Nat, NEW ss, NEW m \in MmuRegisters
  PROVE  SameMap(m, Transfer(cycle, bus, a, ss, m).mmu) \/ MmuRegister(a - (a % 2))
<1> DEFINE n    == Transfer(cycle, bus, a, ss, m).mmu
           byte == bus = DATOB
           even == a - (a % 2)
           at   == IF byte THEN a ELSE even
           w    == BusWrite(a, ss, byte, m)
           new  == [m EXCEPT !.pdr[m.page] = Logic(OR, @, PDR_W)]
<1>1. n = m \/ n = w.mmu \/ n = SetW(w.mmu, a, byte)
  BY DEF Transfer
<1>2. w.mmu = m \/ MmuRegister(at)
  BY DEF BusWrite
<1>3. MmuRegister(at) => MmuRegister(even)
  <2>1. a % 2 \in 0..1 /\ even = 2 * (a \div 2) /\ a \div 2 \in Nat /\ a = even + (a % 2)
    BY SMT
  <2> HIDE DEF byte, even
  <2> QED BY <2>1, SMT DEF MmuRegister
<1>4. SetW(m, a, byte) = m \/ SetW(m, a, byte) = new
  <2> USE DEF SetW
  <2> QED BY Zenon DEF PDR_W
<1>5. SameMap(m, m) /\ SameMap(m, new)
  BY DEF SameMap, MmuRegisters, Relocating
<1> HIDE DEF n, w, even, byte, at, new
<1> QED BY <1>1, <1>2, <1>3, <1>4, <1>5 DEF n, even

\* A bus cycle stores at its own word, when it is a write.
LEMMA TransferStores ==
  ASSUME NEW cycle \in BOOLEAN, NEW bus, NEW a \in Nat, NEW ss, NEW m, NEW x \in Memory,
         mem \in [Memory -> W16], Transfer(cycle, bus, a, ss, m).mem[x] # mem[x]
  PROVE  cycle /\ bus \notin {DATI, DATIP} /\ x = a - (a % 2)
<1> DEFINE byte == bus = DATOB
           even == a - (a % 2)
           w    == BusWrite(a, ss, byte, m)
           new  == WriteLane(mem[even], a, ss, byte)
<1>1. cycle /\ bus \notin {DATI, DATIP} /\ Transfer(cycle, bus, a, ss, m).mem = w.mem
  BY DEF Transfer
<1>2. w.mem = mem \/ w.mem = [mem EXCEPT ![even] = new]
  <2>1. CASE even \in Memory
    BY <2>1 DEF BusWrite
  <2>2. CASE even \notin Memory
    BY <2>2 DEF BusWrite
  <2> QED BY <2>1, <2>2
<1> HIDE DEF w, even, new
<1>3. w.mem[x] # mem[x]
  BY <1>1
<1>4. x = even
  BY <1>2, <1>3
<1> QED BY <1>1, <1>4 DEF even

\* An address in the block of a page, and the block of an address.
Placed(par, block, low) == (((par + block) % 4096) * 64) + low
BlockOf(a, par)         == ((a \div 64) - par + 4096) % 4096

\* The block of a word is found again from its address and its page's frame.
LEMMA BlockFound ==
  ASSUME NEW par \in W12, NEW block \in 0..127, NEW low \in 0..63, NEW a, a = Placed(par, block, low)
  PROVE  BlockOf(a - (a % 2), par) = block
<1> DEFINE s == par + block
           f == s % 4096
           x == a - (a % 2)
<1>1. s \in Nat /\ s < 8192 /\ par \in Nat /\ par < 4096
  BY SMT DEF W12
<1>2. a = f * 64 + low
  BY DEF Placed
<1>3. f - par = block \/ f - par = block - 4096
  <2>1. s - par = block
    BY <1>1, SMT
  <2> HIDE DEF s
  <2>2. f = s \/ f = s - 4096
    <3> DEFINE g == s \div 4096
    <3>1. g \in Int /\ s = 4096 * g + f /\ f \in Nat /\ f < 4096
      BY <1>1, SMT
    <3> HIDE DEF g, f
    <3>2. g = 0 \/ g = 1
      BY <1>1, <3>1, SMT
    <3> QED BY <1>1, <3>1, <3>2, SMT
  <2> HIDE DEF f
  <2> QED BY <1>1, <2>1, <2>2, SMT
<1>4. f \in Nat /\ f < 4096
  BY <1>1, SMT
<1> HIDE DEF f, s
<1>5. x >= f * 64 /\ x <= f * 64 + 63 /\ x \in Nat
  BY <1>2, <1>4, SMT
<1> HIDE DEF x
<1>6. x \div 64 = f
  BY <1>4, <1>5, SMT
<1> DEFINE e == f - par
<1>7. (e + 4096) % 4096 = block
  <2> HIDE DEF e
  <2>1. e = block \/ e = block - 4096
    BY <1>3 DEF e
  <2> QED BY <2>1, SMT
<1> QED BY <1>6, <1>7 DEF BlockOf, x

\* A store to memory of a relocated word is through a page that permits it.
LEMMA StoreChecked ==
  ASSUME CpuTypeOK, NEW uw, IsMicroword(uw), uw.loadBa \/ Addressed(mmu, vba, ba),
         NEW x \in Memory, ~MmuRegister(x), Relocating(mmu), BusHalf(uw).done.mem[x] # mem[x]
  PROVE  LET i == BusHalf(uw).done.mmu.page IN i \in 0..15 /\ Permits(mmu, i, x)
<1> DEFINE h == BusHalf(uw)
           o == Operands(uw)
           l == LoadBa(uw, o)
           k == AccessCheck(uw, o, l)
           bus == o.bus
           ss == SsOut(uw, o, unibusData)
           m == l.mmu
           va == l.vba
           a == l.ba
           cycle == k.cycle
           n == k.mmu
           i == m.page
           md == m.mode
           pdr == mmu.pdr[i]
           par == mmu.par[i]
           block == Slice(va, 12, 6)
           low == va % 64
<1>1. h.done = Transfer(cycle, bus, a, ss, n)
  BY DEF BusHalf, BusCycle
<1> HIDE DEF h, o
<1>2. IsOperands(o)
  BY OperandsTyped DEF o
<1>3. /\ Addressed(m, va, a)
      /\ m.par = mmu.par /\ m.pdr = mmu.pdr
      /\ (Relocating(m) <=> Relocating(mmu))
  BY <1>2, AddressMapped
<1> HIDE DEF l
<1>4. a \in W18 /\ va \in W16 /\ m \in MmuRegisters
  BY <1>2, AddressTyped DEF l
<1>5. /\ Relocated(m, va, a) => n.page = i
      /\ Relocated(m, va, a) /\ cycle => AccessFaults(m.pdr[i], block, md, bus) = 0
  BY <1>2, <1>3, <1>4, CheckMaps
<1>6. cycle \in BOOLEAN /\ n \in MmuRegisters
  BY <1>2, <1>4, CheckTyped
<1>7. mem \in [Memory -> W16] /\ a \in Nat
  BY <1>4 DEF CpuTypeOK, BusTypeOK, W18
<1>8. bus \in 0..3
  BY <1>2 DEF IsOperands
<1> HIDE DEF k, ss, m, va, a, cycle, n, i, md, bus
<1>9. Transfer(cycle, bus, a, ss, n).mem[x] # mem[x]
  BY <1>1 DEF h
<1>10. cycle /\ bus \notin {DATI, DATIP} /\ x = a - (a % 2)
  BY <1>6, <1>7, <1>9, TransferStores
<1>11. Relocated(m, va, a)
  BY <1>3, <1>10 DEF Addressed
<1>12. i \in 0..15 /\ block \in 0..127
  <2>1. va \in Nat
    BY <1>4 DEF W16
  <2> DEFINE pg == Slice(va, 15, 13)
  <2>2. HasBits(3, pg) /\ HasBits(7, block)
    BY <2>1, Sliced
  <2>3. i = pg + (IF m.mode = 3 THEN 8 ELSE 0)
    BY <1>11 DEF Page, Relocated, i
  <2> HIDE DEF pg, block
  <2> QED BY <2>2, <2>3 DEF HasBits
<1>13. a = Placed(par, block, low)
  BY <1>3, <1>11 DEF Relocated, Placed, i
<1>14. AccessFaults(pdr, block, md, bus) = 0
  BY <1>3, <1>5, <1>10, <1>11
<1>15. par \in W12 /\ pdr \in W16 /\ md \in 0..3 /\ low \in 0..63
  <2>1. mmu \in MmuRegisters
    BY DEF CpuTypeOK, BusTypeOK
  <2>2. par \in W12 /\ pdr \in W16
    BY <1>12, <2>1 DEF MmuRegisters
  <2>3. md \in 0..3
    BY <1>4 DEF MmuRegisters, md
  <2>4. low \in 0..63
    BY <1>4 DEF W16
  <2> QED BY <2>2, <2>3, <2>4
<1>16. bus \in 2..3
  BY <1>8, <1>10 DEF DATI, DATIP
<1> HIDE DEF pdr, par, block, low
<1>17. Writable(pdr, block)
  BY <1>12, <1>14, <1>15, <1>16, PassedWrite
<1>18. BlockOf(a - (a % 2), par) = block
  BY <1>12, <1>13, <1>15, BlockFound
<1>19. BlockOf(x, par) = block
  BY <1>10, <1>18
<1>20. Permits(mmu, i, x)
  BY <1>12, <1>17, <1>19 DEF Permits, BlockOf, Writable, pdr, par
<1>21. h.done.mmu.page = i
  <2> DEFINE t == Transfer(cycle, bus, a, ss, n)
  <2>1. SameMap(n, t.mmu) \/ MmuRegister(a - (a % 2))
    BY <1>6, <1>7, TransferMaps
  <2> HIDE DEF t
  <2>2. t.mmu.page = n.page
    BY <1>10, <2>1 DEF SameMap
  <2> QED BY <1>1, <1>5, <1>11, <2>2 DEF t
<1> QED BY <1>12, <1>20, <1>21 DEF h

\* The end of a cycle keeps the address.
LEMMA LeftMaps ==
  ASSUME NEW d \in MmuRegisters, NEW va, NEW a, Addressed(d, va, a),
         NEW pc \in W16, NEW fetch, NEW pulse
  PROVE  LET m == IF fetch THEN MmuFetch(d, pc) ELSE d
             n == IF pulse THEN [m EXCEPT !.sr0 = 0] ELSE m
         IN  Addressed(n, va, a) /\ n.page = d.page
<1> DEFINE m == IF fetch THEN MmuFetch(d, pc) ELSE d
           n == [m EXCEPT !.sr0 = 0]
<1>1. m \in MmuRegisters /\ SameMap(d, m)
  BY FetchTyped DEF MmuFetch, SameMap, Relocating, MmuRegisters
<1>2. Addressed(m, va, a)
  BY <1>1, MapKept
<1> HIDE DEF m
<1>3. n.par = m.par /\ n.page = m.page /\ n.mode = m.mode /\ n.sr0 = 0
  BY <1>1 DEF MmuRegisters
<1> HIDE DEF n
<1>4. ~Relocating(n)
  BY <1>3, Weights DEF Relocating, Bit
<1>5. Addressed(n, va, a)
  BY <1>2, <1>3, <1>4 DEF Addressed, Relocated
<1>6. m.page = d.page
  BY <1>1 DEF SameMap
<1> DEFINE after == IF pulse THEN n ELSE m
<1>7. Addressed(after, va, a) /\ after.page = d.page
  BY <1>2, <1>3, <1>5, <1>6
<1> QED BY <1>7 DEF after, n, m

\* A micro-cycle leaves on the bus the address it has referred to.
LEMMA AddressedStep ==
  ASSUME CpuTypeOK, Ustep, Microword[mpc].loadBa \/ Addressed(mmu, vba, ba)
  PROVE  /\ Addressed(mmu', vba', ba')
         /\ mem' = BusHalf(Microword[mpc]).done.mem
         /\ mmu'.page = BusHalf(Microword[mpc]).done.mmu.page
<1> DEFINE uw == Microword[mpc]
           h == BusHalf(uw)
           d54 == E54(Pins(ir, servIr), Bit(psw, 15))
           d87 == E87Rom[uw.bbx]
           c == Cycle(uw, h, d54, d87)
<1>1. ba' = c.ba /\ vba' = c.vba /\ mem' = c.mem /\ mmu' = c.mmu
  BY DEF Ustep
<1>2. IsMicroword(uw)
  BY Microprogram DEF CpuTypeOK
<1> HIDE DEF uw, h, d54, d87
<1> DEFINE byte == E68(ir).byte
           x == MiscControl(uw, h, d54, d87)
           svc == Service(uw, x.ir, x.servIr, x.psw, x.stov)
           next == NextAddress(uw, h, x, svc.do \in {"trap", "interrupt"})
           shift == BregUpdate(h, x, svc, ShiftControl(next, h.o.alu, byte), d87, byte)
           e == Leaves(uw, h, x, svc, next, shift, d54, d87)
           fetch == x.loadIr
           pulse == InitPulse(d54, resetInst)
           pc == sp[8]
           d == h.done.mmu
<1>3. c = e
  BY DEF Cycle
<1> HIDE DEF byte, x, svc, next, shift, c
<1>4. /\ e.ba = h.l.ba /\ e.vba = h.l.vba /\ e.mem = h.done.mem
      /\ e.mmu = (LET m == IF fetch THEN MmuFetch(d, pc) ELSE d
                  IN  IF pulse THEN [m EXCEPT !.sr0 = 0] ELSE m)
  BY DEF Leaves
<1> HIDE DEF e, fetch, pulse
<1> DEFINE o == Operands(uw)
           l == LoadBa(uw, o)
           k == AccessCheck(uw, o, l)
           bus == o.bus
           ss == SsOut(uw, o, unibusData)
           cycle == k.cycle
           n == k.mmu
           a == l.ba
           t == Transfer(cycle, bus, a, ss, n)
<1>5. h.l = l /\ h.done = t
  BY DEF h, BusHalf, BusCycle
<1>6. IsHalf(h)
  BY <1>2, HalfTyped DEF h
<1> HIDE DEF o
<1>7. IsOperands(o)
  BY <1>2, OperandsTyped DEF o
<1>8. Addressed(l.mmu, l.vba, l.ba)
  BY <1>7, AddressMapped DEF uw
<1> HIDE DEF l
<1>9. l.ba \in W18 /\ l.vba \in W16 /\ l.mmu \in MmuRegisters
  BY <1>2, <1>7, AddressTyped DEF l
<1> HIDE DEF k
<1>10. Addressed(n, l.vba, a)
  BY <1>7, <1>8, <1>9, CheckMaps DEF k
<1>11. n \in MmuRegisters
  BY <1>2, <1>7, <1>9, CheckTyped DEF k
<1>12. a \in Nat
  BY <1>9 DEF W18
<1> HIDE DEF bus, ss, cycle, n, a
<1>13. SameMap(n, t.mmu) \/ MmuRegister(a - (a % 2))
  BY <1>11, <1>12, TransferMaps
<1> HIDE DEF t
<1>14. Addressed(t.mmu, l.vba, a)
  BY <1>10, <1>13, MapKept DEF Addressed
<1>15. Addressed(d, h.l.vba, h.l.ba) /\ d \in MmuRegisters
  BY <1>5, <1>6, <1>14 DEF a, IsHalf
<1> DEFINE va == h.l.vba  pa == h.l.ba
<1>16. pc \in W16
  BY DEF CpuTypeOK
<1> HIDE DEF d, pc, va, pa
<1>17. LET m == IF fetch THEN MmuFetch(d, pc) ELSE d
           after == IF pulse THEN [m EXCEPT !.sr0 = 0] ELSE m
       IN  Addressed(after, va, pa) /\ after.page = d.page
  BY <1>15, <1>16, LeftMaps DEF va, pa
<1>18. Addressed(e.mmu, e.vba, e.ba) /\ e.mmu.page = d.page
  BY <1>4, <1>17 DEF va, pa
<1> QED BY <1>1, <1>3, <1>4, <1>18 DEF h, uw, d

\* Where the registers of memory management are not memory, every store goes
\* through the page it refers to, and that page permits it, whatever the program.
THEOREM MachineStores ==
  ASSUME \A a \in Memory : ~MmuRegister(a)
  PROVE  Machine /\ Addressed(mmu, vba, ba) => StoresPermitted
<1> DEFINE Kept == CpuTypeOK /\ Addressed(mmu, vba, ba)
           Store == mem' # mem /\ Relocating(mmu) =>
                      /\ mmu'.page \in 0..15
                      /\ \A a \in Memory : mem'[a] # mem[a] => Permits(mmu, mmu'.page, a)
<1>1. Kept /\ [Ustep \/ \E v \in W16 : RequestOf(v)]_cpuVars => Addressed(mmu, vba, ba)' /\ [Store]_mem
  <2> SUFFICES ASSUME Kept, [Ustep \/ \E v \in W16 : RequestOf(v)]_cpuVars
               PROVE  Addressed(mmu', vba', ba') /\ [Store]_mem
    OBVIOUS
  <2>1. CASE Ustep
    <3> DEFINE uw == Microword[mpc]
               done == BusHalf(uw).done
    <3>1. Addressed(mmu', vba', ba') /\ mem' = done.mem /\ mmu'.page = done.mmu.page
      BY <2>1, AddressedStep
    <3>2. IsMicroword(uw)
      BY Microprogram DEF CpuTypeOK
    <3>3. ASSUME NEW x \in Memory, Relocating(mmu), mem'[x] # mem[x]
          PROVE  mmu'.page \in 0..15 /\ Permits(mmu, mmu'.page, x)
      <4> HIDE DEF uw
      <4>1. done.mem[x] # mem[x]
        BY <3>1, <3>3
      <4>2. done.mmu.page \in 0..15 /\ Permits(mmu, done.mmu.page, x)
        BY <3>2, <3>3, <4>1, StoreChecked
      <4> QED BY <3>1, <4>2
    <3>4. mem' # mem => \E x \in Memory : mem'[x] # mem[x]
      <4>1. mem \in [Memory -> W16] /\ mem' \in [Memory -> W16]
        BY <2>1, UstepTyped DEF CpuTypeOK, BusTypeOK
      <4> QED BY <4>1
    <3> QED BY <3>1, <3>3, <3>4
  <2>2. CASE \E v \in W16 : RequestOf(v)
    BY <2>2 DEF RequestOf
  <2>3. CASE UNCHANGED cpuVars
    BY <2>3 DEF cpuVars
  <2> QED BY <2>1, <2>2, <2>3
<1>2. [Store]_mem = [mem' # mem /\ Relocating(mmu) =>
                      /\ mmu'.page \in 0..15
                      /\ \A a \in Memory : mem'[a] # mem[a] => Permits(mmu, mmu'.page, a)]_mem
  OBVIOUS
<1> QED BY <1>1, MachineTypeCorrect, PTL DEF Machine, StoresPermitted

\* The programs of the runs begin with a reference to the kernel's first word.
LEMMA FirstAddress == Init => Addressed(mmu, vba, ba)
<1> SUFFICES ASSUME Init PROVE Addressed(mmu, vba, ba)
  OBVIOUS
<1>1. vba = 0 /\ ba = 0
  BY DEF Init, Ready
<1>2. mmu.page = 0 /\ mmu.mode = 0 /\ mmu.par[0] = 0
  <2>1. mmu = MmuInit \/ \E io : mmu = Mapping(io)
    BY DEF Init
  <2>2. MmuInit.page = 0 /\ MmuInit.mode = 0 /\ MmuInit.par[0] = 0
    BY DEF MmuInit
  <2>3. ASSUME NEW io PROVE Mapping(io).page = 0 /\ Mapping(io).mode = 0 /\ Mapping(io).par[0] = 0
    BY DEF Mapping
  <2> QED BY <2>1, <2>2, <2>3
<1>3. Page(0, 0) = 0 /\ Slice(0, 12, 6) = 0
  BY Weights DEF Page, Slice
<1>4. Relocated(mmu, vba, ba)
  BY <1>1, <1>2, <1>3 DEF Relocated
<1> QED BY <1>4 DEF Addressed

\* Their memory is below the registers.
LEMMA MapBelow == \A a \in Map : ~MmuRegister(a)
<1> DEFINE top == \o2036
           Low == {a \in Int : a <= top}
<1>1. ASSUME NEW f \in Int, NEW e \in Int, e <= top PROVE WordsIn(f, e) \subseteq Low
  BY <1>1 DEF WordsIn
<1>2. /\ WordsIn(0, \o36) \subseteq Low /\ WordsIn(\o60, \o62) \subseteq Low
      /\ WordsIn(\o100, \o102) \subseteq Low /\ WordsIn(\o364, \o404) \subseteq Low
      /\ WordsIn(\o660, \o714) \subseteq Low /\ WordsIn(Code, \o1006) \subseteq Low
      /\ WordsIn(\o1100, \o1110) \subseteq Low /\ WordsIn(\o2000, \o2036) \subseteq Low
      /\ WordsIn(\o244, \o252) \subseteq Low /\ WordsIn(UserCode, \o1210) \subseteq Low
      /\ WordsIn(\o1230, \o1242) \subseteq Low /\ WordsIn(\o1300, \o1302) \subseteq Low
  BY <1>1 DEF Code, UserCode
<1>3. {\o1376, \o1400} \subseteq Low
  OBVIOUS
<1>4. \A a \in Low : ~MmuRegister(a)
  BY DEF MmuRegister
<1> HIDE DEF Low
<1>5. Map \subseteq Low
  <2>1. VectorWords \subseteq Low
    BY <1>2 DEF VectorWords
  <2>2. MemoryMap \subseteq Low
    BY <1>2, <2>1 DEF MemoryMap
  <2> QED BY <1>2, <1>3, <2>2 DEF Map
<1> QED BY <1>4, <1>5

\* So every store of theirs is permitted by its page.
THEOREM StoresHere == ASSUME Memory = Map PROVE Spec => StoresPermitted
<1>1. Init => Addressed(mmu, vba, ba)
  BY FirstAddress
<1>2. Machine /\ Addressed(mmu, vba, ba) => StoresPermitted
  BY MapBelow, MachineStores
<1>3. Spec => Machine
  BY MachineHere
<1> QED BY <1>1, <1>2, <1>3, PTL DEF Spec
=============================================================================
