-------------------------------- MODULE Mmu ---------------------------------
(***************************************************************************)
(* The memory management of the KD11-EA (kd11ea/mmu.c): translation, abort *)
(* flags and the bus access to its registers.  An mmu is a record of the   *)
(* page address and descriptor registers, SR0, SR2 and the page and mode   *)
(* of the last relocation (page -1 for none).  The ROMs that decode the    *)
(* register addresses are in it, so that the address ranges are theirs.    *)
(***************************************************************************)
EXTENDS Words, RomImages

ABORT_NR == \h8000   ABORT_PL == \h4000   ABORT_RO == \h2000
PDR_W    == \h0040
MAP      == 4                \* MMU_MAP: only the address is computed

NoFault(sr0) == Slice(sr0, 15, 13) = 0

\* mmu_init
MmuInit == [par |-> [i \in 0..15 |-> 0], pdr |-> [i \in 0..15 |-> 0],
            sr0 |-> 0, sr2 |-> 0, page |-> 0, mode |-> 0]

\* SR0 6:1: the mode and page of a reference.
Reference(sr0, mode, page) == sr0 - 2 * Slice(sr0, 6, 1) + 32 * mode + 2 * page

LOCAL Or(a, b) == Logic(OR, a, b)
LOCAL And(a, b) == Logic(AND, a, b)

\* Mutant of AccessFaults: the block after the last one is in the page.
AccessFaultsLong(pdr, block, mode, bus) ==
  LET plf == Slice(pdr, 14, 8)
      ed == Bit(pdr, 3)
      d == Nibble(KTE83Image,
             Pack(<<ed, Flag(block > plf + 1 \/ (ed = 1 /\ block = plf)), Bit(pdr, 1), Bit(pdr, 2),
                    Flag(mode \in {1, 2}), 1, bus % 2, bus \div 2>>))
  IN  ABORT_NR * Bit(d, 0) + ABORT_PL * Bit(d, 1) + ABORT_RO * Bit(d, 2)

\* E83: the abort flags of a transfer (C1 C0 = bus) through a page.
AccessFaults(pdr, block, mode, bus) ==
  LET plf == Slice(pdr, 14, 8)
      ed == Bit(pdr, 3)
      d == Nibble(KTE83Image,
             Pack(<<ed, Flag(block > plf \/ (ed = 1 /\ block = plf)), Bit(pdr, 1), Bit(pdr, 2),
                    Flag(mode \in {1, 2}), 1, bus % 2, bus \div 2>>))
  IN  ABORT_NR * Bit(d, 0) + ABORT_PL * Bit(d, 1) + ABORT_RO * Bit(d, 2)

\* Mutant of Relocate: every abort writes SR0 again.
RelocateThawed(mmu, vba, mode, bus) ==
  LET page  == Slice(vba, 15, 13)
      index == page + (IF mode = 3 THEN 8 ELSE 0)
      block == Slice(vba, 12, 6)
      seen  == IF NoFault(mmu.sr0) THEN Reference(mmu.sr0, mode, page) ELSE mmu.sr0
      fault == IF bus = MAP THEN 0 ELSE AccessFaults(mmu.pdr[index], block, mode, bus)
  IN  [mmu |-> [mmu EXCEPT !.sr0 = IF fault = 0 THEN seen
                                   ELSE Or(Reference(seen, mode, page), fault),
                           !.page = index, !.mode = mode],
       pba |-> (((mmu.par[index] + block) % 4096) * 64) + (vba % 64),
       abort |-> fault # 0]

\* mmu_translate with relocation: SR0 follows every reference and keeps the
\* first fault.
Relocate(mmu, vba, mode, bus) ==
  LET page  == Slice(vba, 15, 13)
      index == page + (IF mode = 3 THEN 8 ELSE 0)
      block == Slice(vba, 12, 6)
      seen  == IF NoFault(mmu.sr0) THEN Reference(mmu.sr0, mode, page) ELSE mmu.sr0
      fault == IF bus = MAP THEN 0 ELSE AccessFaults(mmu.pdr[index], block, mode, bus)
  IN  [mmu |-> [mmu EXCEPT !.sr0 = IF fault # 0 /\ NoFault(seen) THEN seen + fault ELSE seen,
                           !.page = index, !.mode = mode],
       pba |-> (((mmu.par[index] + block) % 4096) * 64) + (vba % 64),
       abort |-> fault # 0]

\* mmu_translate
Translate(mmu, vba, mode, bus, relocate) ==
  IF relocate THEN Relocate(mmu, vba, mode, bus)
  ELSE [mmu |-> [mmu EXCEPT !.page = -1],
        pba |-> vba + (IF vba >= \o160000 THEN \o600000 ELSE 0),
        abort |-> FALSE]

\* Mutant of MmuFetch: the PC after the instruction.
MmuFetchNext(mmu, pc) == IF NoFault(mmu.sr0) THEN [mmu EXCEPT !.sr2 = (pc + 2) % 65536] ELSE mmu

\* LOAD IR (kd11ea.c): SR2 is the PC of the instruction, until an abort.
MmuFetch(mmu, pc) == IF NoFault(mmu.sr0) THEN [mmu EXCEPT !.sr2 = pc] ELSE mmu

-----------------------------------------------------------------------------
(* The registers on the bus. *)

IoPage(pba)      == Slice(pba, 17, 12) = 63 /\ Bit(pba, 10) = 1
GeneralRegs(pba) == Gather(pba, <<4, 5, 6, 8, 9, 11>>) = 63
ParPdr(pba)      == Bit(pba, 7) = 1 /\ Bit(pba, 4) = 0

\* read_e74_e75, read_e76_e77: the strobes are low, and high while idle.
LOCAL C(c1, c0) == 64 * c0 + 128 * c1
E74E75(image, pba, c1, c0, e74) ==
  IF IoPage(pba) /\ GeneralRegs(pba)
  THEN Nibble(image, e74 + 2 * Gather(pba, <<1, 2, 3, 7, 0>>) + C(c1, c0)) ELSE 15
E76E77(image, pba, c1, c0) ==
  IF IoPage(pba) /\ ParPdr(pba)
  THEN Nibble(image, Gather(pba, <<5, 6, 8, 9, 11, 0>>) + C(c1, c0)) ELSE 15

AprIndex(pba) == 8 * Bit(pba, 8) + Slice(pba, 3, 1)

\* LOAD PSW LOW L (kd11ea.c): a write to the low byte of the PSW.
LoadPswLow(pba, bus) ==
  bus >= 2 /\ Bit(E74E75(KTE75Image, pba, bus \div 2, bus % 2, 0), 2) = 0

\* mmu_read
MmuRead(mmu, pba) ==
  LET d76 == E76E77(KTE76Image, pba, 0, 0)
      d74 == E74E75(KTE74Image, pba, 0, 0, 1)
  IN  IF Bit(d76, 2) = 0
      THEN IF Bit(d76, 0) = 1 THEN mmu.par[AprIndex(pba)] ELSE mmu.pdr[AprIndex(pba)]
      ELSE IF Bit(d74, 2) = 1 THEN 0
      ELSE IF Bit(d74, 0) = 1 THEN mmu.sr0 ELSE mmu.sr2

\* lanes: the bytes whose strobe is low are loaded.
Lanes(old, data, lowL, highL) ==
  (IF lowL = 0 THEN data % 256 ELSE old % 256)
  + 256 * (IF highL = 0 THEN data \div 256 ELSE old \div 256)

\* mmu_kt_write: a write to SR0, a PAR or a PDR.
KtWrite(pba, c0) ==
  \/ E76E77(KTE77Image, pba, 1, c0) # 15
  \/ Slice(E74E75(KTE75Image, pba, 1, c0, 0), 1, 0) # 3

\* mmu_write
MmuWrite(mmu, pba, data, c0) ==
  LET d77 == E76E77(KTE77Image, pba, 1, c0)
      d75 == E74E75(KTE75Image, pba, 1, c0, 0)
      i == AprIndex(pba)
      par == Lanes(mmu.par[i], data, Bit(d77, 2), Bit(d77, 3))
      pdr == Lanes(mmu.pdr[i], data, Bit(d77, 0), Bit(d77, 1))
      sr0 == Lanes(mmu.sr0, data, Bit(d75, 0), Bit(d75, 1))
  IN  IF Slice(d77, 3, 2) # 3 THEN [mmu EXCEPT !.par[i] = par % 4096]
      ELSE IF Slice(d77, 1, 0) # 3 THEN [mmu EXCEPT !.pdr[i] = And(pdr, \h7F0E)]
      ELSE IF Slice(d75, 1, 0) # 3
      THEN [mmu EXCEPT !.sr0 = And(mmu.sr0, \h1EFE) + And(sr0, \hE101)]
      ELSE mmu
=============================================================================
