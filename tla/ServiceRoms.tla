---------------------------- MODULE ServiceRoms -----------------------------
(***************************************************************************)
(* The bus-grant PROM E29 of the M8266 board (roms/rom_images.h, wired by  *)
(* rom_wiring.h), through which int.c arbitrates the BR lines.  Data bits: *)
(* 1 = BG6, 2 = BG7, 4 = BG4, 8 = BG5.                                     *)
(***************************************************************************)
EXTENDS Integers, Sequences

\* The rows of the PROM, by the grants they make; HLT RQST high, in the second
\* half of each, forbids them all.
E29None == <<0, 0, 0, 0, 0, 0, 0, 0>>
E29Six  == <<1, 1, 1, 0, 0, 0, 0, 0>>
E29Four == <<4, 0, 4, 0, 0, 0, 0, 0>>

E29Half(five, seven) ==
  <<E29None, E29Six, E29Four, E29Six, seven, seven, seven, seven,
    five, E29Six, five, E29Six, seven, seven, seven, seven>>

\* e29_rom: PSW05 = 0 in the first half, 1 in the second.
E29 == <<E29Half(<<8, 8, 8, 0, 0, 0, 0, 0>>, <<2, 2, 2, 2, 0, 0, 0, 0>>),
         E29Half(<<8, 0, 8, 0, 0, 0, 0, 0>>, <<2, 2, 2, 0, 0, 0, 0, 0>>)>>

E29Bit(n, weight) == (n \div weight) % 2
E29Line(br, l) == IF l \in br THEN 1 ELSE 0

E29AddrSwapped(p, br) ==
  E29Bit(p, 4) + 2 * E29Bit(p, 2) + 8 * E29Line(br, 6) + 16 * E29Line(br, 5)
  + 32 * E29Line(br, 7) + 64 * E29Line(br, 4) + 128 * E29Bit(p, 1)

\* e29_addr, with HLT RQST low as int_pending passes it.
E29Addr(p, br) ==
  E29Bit(p, 4) + 2 * E29Bit(p, 2) + 8 * E29Line(br, 6) + 16 * E29Line(br, 4)
  + 32 * E29Line(br, 7) + 64 * E29Line(br, 5) + 128 * E29Bit(p, 1)

E29Data(a) == E29[(a \div 128) + 1][((a \div 8) % 16) + 1][(a % 8) + 1]

\* The level int_pending decodes from the PROM's data, 0 for no grant.
E29Grant(p, br) ==
  LET d == E29Data(E29Addr(p, br))
  IN  IF E29Bit(d, 2) = 1 THEN 7 ELSE IF E29Bit(d, 1) = 1 THEN 6
      ELSE IF E29Bit(d, 8) = 1 THEN 5 ELSE IF E29Bit(d, 4) = 1 THEN 4 ELSE 0
=============================================================================
