---------------------------- MODULE ControlStore ----------------------------
(***************************************************************************)
(* The microprogram: the words of the control store, assembled from its    *)
(* twelve ROMs (kd11ea/ucode_rom.h) and cut into fields (kd11ea/kd11ea.h). *)
(***************************************************************************)
EXTENDS Words, RomImages

NOP == 0        LOAD_IR == 1     LOAD_PSW == 2     LOAD_CC == 3
BUT_DEST == 4   ENAB_STOV == 5   LOAD_COUNT == 6   CLK_COUNT == 7

DATI == 0       DATIP == 1       DATO == 2         DATOB == 3

SPA_ROM == 0    SPA_RS == 1      SPA_RD == 2       SPA_RBA == 3

\* The ROM that holds bits 4 n to 4 n + 3 of the micro-word is the n-th.
Ucode == <<E110Ucode, E109Ucode, E108Ucode, E107Ucode, E106Ucode, E99Ucode,
           E97Ucode, E98Ucode, E100Ucode, E104Ucode, E103Ucode, E105Ucode>>

\* ucode_addr
UcodeAddr(at) == Gather(at, <<6, 4, 7, 3, 2, 1, 0, 8, 5>>)

\* Bit n of the micro-word (ucode_read): O4 to O1 of a ROM are bits upwards
\* (ucode_reverse_nibble), except on E98.
UB(at, n) ==
  LET i == n \div 4
  IN  Bit(Nibble(Ucode[i + 1], UcodeAddr(at)), IF i = 7 THEN n % 4 ELSE 3 - (n % 4))

\* Bits lo to hi of the micro-word: Ufr with the most significant lowest.
UField(at, hi, lo) == Pack([i \in 1..(hi - lo + 1) |-> UB(at, lo + i - 1)])
Ufr(at, hi, lo)    == Pack([i \in 1..(hi - lo + 1) |-> UB(at, hi - i + 1)])

\* The microprogram: the fields of the word at each address.
Microword ==
  Table([at \in 0..511 |->
    [next |-> Ufr(at, 8, 0),
     misc |-> Ufr(at, 11, 9),
     bufDatTran |-> UB(at, 12) = 1,
     busCtl |-> Ufr(at, 14, 13),
     enabMaint |-> UB(at, 15) = 1,
     loadBa |-> UB(at, 17) = 1,
     aux |-> UB(at, 18) = 1,
     aluFunc |-> UField(at, 23, 19),
     bbx |-> UField(at, 27, 24),
     ssMux |-> Ufr(at, 29, 28),
     amuxL |-> Ufr(at, 31, 30),
     but |-> UField(at, 35, 32),
     spaSrc |-> Ufr(at, 37, 36),
     spaDst |-> Ufr(at, 39, 38),
     forceRsv1 |-> UB(at, 40) = 0,
     prevMode |-> UB(at, 41) = 0,
     butService |-> UB(at, 42) = 1,
     forceKernel |-> UB(at, 43) = 1,
     romSpa |-> Ufr(at, 47, 44)]])
=============================================================================
