---------------------------- MODULE DecodeProms -----------------------------
(***************************************************************************)
(* The PROMs around the control store and their wiring                     *)
(* (kd11ea/rom_wiring.h): instruction decoding, branch conditions, ALU and *)
(* condition code control, byte control and trap priority.  Each operator  *)
(* is one PROM; the fields are its outputs, an output named L taken as     *)
(* asserted when it is low.                                                *)
(***************************************************************************)
EXTENDS Words, RomImages

LOCAL Zero(n) == Flag(n = 0)
LOCAL Low(d, n) == Bit(d, n) = 0
LOCAL High(d, n) == Bit(d, n) = 1

DstMode(ir) == Slice(ir, 5, 3)
SrcMode(ir) == Slice(ir, 11, 9)
Sop(ir)     == Slice(ir, 14, 12) = 0       \* not a double operand instruction

LOCAL E82Wiring == <<3, 0, 2, 1, 4>>
\* E82: the ALU function of a field of the micro-word (or of FuncCode).
E82Rom ==
  Table([field \in 0..31 |->
    LET d == E82Image[Gather(field, E82Wiring) + 1]
    IN  [s |-> Pack(<<1 - Bit(d, 4), 1 - Bit(d, 3), 1 - Bit(d, 1), 1 - Bit(d, 0)>>),
         logic |-> High(d, 2),
         cin |-> 1 - Bit(d, 5),
         bleg |-> Pack(<<Bit(d, 7), Bit(d, 6)>>)]])

LOCAL FieldWiring(field, a0) == Gather(2 * field + a0, <<0, 1, 3, 4, 2>>)
\* E87: the control of B, BX, OVX and DBE.
E87Rom ==
  Table([field \in 0..15 |->
    LET d == E87Image[FieldWiring(field, 0) + 1]
    IN  [bMode |-> Pack(<<1 - Bit(d, 0), 1 - Bit(d, 1)>>),
         bxMode |-> Pack(<<Bit(d, 2), Bit(d, 3)>>),
         shiftMux |-> Pack(<<Bit(d, 5), Bit(d, 4)>>),
         enabOvx |-> Low(d, 6),
         enabDbe |-> Low(d, 7)]])

\* E102: the conditions a micro-branch tests, one for each bit of the MPC.
E102Rom ==
  Table([field \in 0..15 |->
    LET d == E102Image[FieldWiring(field, 1) + 1]
    IN  [aluCout |-> Bit(d, 0), ccN |-> Bit(d, 1), sp15 |-> Bit(d, 2),
         bx01 |-> Bit(d, 3), bx00 |-> Bit(d, 4), count05 |-> Bit(d, 5),
         ccZ |-> Bit(d, 6), ir09 |-> Bit(d, 7)]])

\* E59 and E60: single operand instructions.
LOCAL E59E60Addr(ir) ==
  Zero(DstMode(ir)) + 2 * Gather(ir, <<6, 7, 8, 9, 10, 11, 15>>)
E59(ir) == LET d == Nibble(E59Image, E59E60Addr(ir))
           IN  [dest |-> Low(d, 0), irCode |-> 7 - d \div 2]
E60(ir) == 15 - Nibble(E60Image, E59E60Addr(ir))          \* MPC 06 to 03

\* E63: MPC 03 to 00 of the operate group.
E63(ir) ==
  LET d == Nibble(E63Image, Gather(ir, <<0, 5, 7, 1, 2, 3, 4, 6>>))
  IN  15 - Gather(d, <<3, 2, 1, 0>>)

\* E68: condition code category and byte operation.
E68(ir) ==
  LET d == Nibble(E68Image, Gather(ir, <<12, 9, 10, 7, 6, 14, 15, 13, 8>>))
  IN  [ccCode |-> d % 8, byte |-> Low(d, 3)]

\* E69 and E70: double operand instructions, at IR DECODE and at BUT DEST.
LOCAL E69Addr(ir, butDest, irDecode) ==
  Bit(ir, 12) + 2 * Zero(DstMode(ir)) + 4 * Zero(SrcMode(ir))
  + 8 * Flag(irDecode) + 16 * (1 - Flag(butDest)) + 32 * Gather(ir, <<14, 15, 13>>)
E69(ir, butDest, irDecode) ==
  LET d == Nibble(E69Image, E69Addr(ir, butDest, irDecode))
  IN  [src |-> Low(d, 0), movL |-> Bit(d, 1), mpc |-> 3 - d \div 4]
E70(ir, butDest, irDecode) ==
  LET d == Nibble(E70Image, E69Addr(ir, butDest, irDecode) + 256)
  IN  [irCode00 |-> Low(d, 0), mpc |-> 7 - d \div 2]

\* E71: is the branch taken (MPC 07)?
E71(ir, psw) ==
  Low(Nibble(E71Image, Gather(ir, <<8, 9, 10, 15>>) + 16 * Gather(psw, <<1, 2, 3, 0>>)), 0)

\* E74: extended instructions.
E74(ir, irDecode) ==
  LET d == E74Image[Gather(ir, <<9, 10, 11>>) + 8 * Flag(irDecode)
                    + 16 * Flag(Slice(ir, 14, 12) # 7) + 1]
  IN  [mpc |-> 31 - Gather(d, <<1, 2, 3, 4, 7>>), irCode00 |-> Low(d, 5),
       dest |-> Low(d, 6)]

\* E53: traps of the operate group and HALT.  Its enable (e53_enabled).
E53Enabled(ir) == Bit(ir, 6) = 0 /\ Slice(ir, 15, 8) = 0
E53(ir, user) ==
  LET d == Nibble(E53Image, Gather(ir, <<0, 5, 7, 1, 2, 3, 4>>) + 128 * user)
  IN  [haltRqst |-> Low(d, 0), irCode |-> 7 - d \div 2]

\* E54: RESET, RTI and RTT.
E54(ir, user) ==
  LET d == Nibble(E54Image,
             Gather(ir, <<0, 6>>) + 4 * Zero(DstMode(ir)) + 8 * Gather(ir, <<1, 2, 7>>)
             + 64 * (1 - user) + 128 * Flag(ir >= 256))
  IN  [disableLoadPsw |-> High(d, 1), enabTbit |-> High(d, 2), startReset |-> High(d, 3)]

\* E52 and E51: the trap to service, if any.  There is no parity error, power
\* failure or floating point unit.
E52(tbit, stov, be, kte, irCode) ==
  Nibble(E52Image, Pack(<<Flag(tbit), Flag(be), Flag(stov), 0, Flag(kte), 0>>)
                   + 64 * Gather(7 - irCode, <<2, 1, 0>>) + 512)
E51(e52) ==
  LET d == E51Image[Gather(e52, <<3, 2, 1, 0>>) + 16 + 1]
  IN  [stovServ |-> High(d, 2), enabGrants |-> High(d, 7),
       vector |-> 4 * Gather(d, <<6, 5, 4>>)]

\* SERVICE_VECTOR: a KT fault adds 240 (octal).
ServiceVector(e51, kte) == e51.vector + 160 * Flag(kte)

\* E61 and E83: FUNC CODE, the ALU function of the instruction.
E61(ir, c, n) ==
  Nibble(E61Image, Gather(ir, <<15, 6, 7, 8, 9, 10>>) + 64 * n + 128 * c)
E83(ir) ==
  Gather(E83Image[2 * Gather(ir, <<12, 13, 14, 15>>) + 1], <<2, 1, 0, 7>>)

\* E62: shifts and rotates.  The outputs of the disabled PROM are pulled up.
E62Off == [serial |-> 1, bModeMask |-> 3, rotC |-> 1]
E62(ir, b00, c, n) ==
  LET d == Nibble(E62Image, Bit(ir, 10) + 2 * c + 4 * b00 + 8 * n
                            + 16 * Gather(ir, <<9, 6, 7, 8>>))
  IN  [serial |-> Bit(d, 0), bModeMask |-> Slice(d, 2, 1), rotC |-> Bit(d, 3)]

\* E80: byte lanes, sign extension, and the writes and cycles they disable.
E80(ssMux, bdt, aux, byte, odd, movL) ==
  LET d == Nibble(E80Image, Pack(<<Flag(byte), Flag(odd), movL, Flag(aux), Flag(bdt),
                                   Bit(ssMux, 1), 0, Bit(ssMux, 0)>>))
  IN  [disableUpper |-> High(d, 0), disableMsynL |-> Bit(d, 1),
       sex |-> High(d, 2), swap |-> High(d, 3)]

\* E107: V and C of the result, from the signs of the operands.
E107(r, s, d, rotC, c, ccCode) ==
  LET v == Nibble(E107Image, ccCode + 8 * Pack(<<c, rotC, d, s, r>>))
  IN  [v |-> Bit(v, 3), c |-> Bit(v, 2)]
=============================================================================
