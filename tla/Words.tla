------------------------------- MODULE Words --------------------------------
(***************************************************************************)
(* Words of bits, as numbers: bit 0 is the least significant.              *)
(***************************************************************************)
EXTENDS Integers, Sequences, TLC

Bit(w, n) == (w \div 2^n) % 2

\* Bits hi down to lo of w, in place value order.
Slice(w, hi, lo) == (w \div 2^lo) % 2^(hi - lo + 1)

\* The number whose bits, from bit 0 up, are the elements of bits, nine at most.
Pack(bits) ==
  LET At(n) == IF n > Len(bits) THEN 0 ELSE 2^(n - 1) * bits[n]
  IN  At(1) + At(2) + At(3) + At(4) + At(5) + At(6) + At(7) + At(8) + At(9)

\* The number whose bit n is bit pins[n + 1] of w: how a ROM is wired to w.
Gather(w, pins) == Pack([n \in 1..Len(pins) |-> Bit(w, pins[n])])

Flag(c) == IF c THEN 1 ELSE 0

\* A function of two bits x and y is a number below 16, its truth table: the
\* value at (x, y) is bit 2x + y.
ZERO == 0   NOR == 1     NOTX == 3     ANDNOT == 4   NOTY == 5   XOR == 6
NAND == 7   AND == 8     XNOR == 9     Y == 10       ORNOTX == 11
X == 12     ORNOTY == 13 OR == 14      ONES == 15    NOTXANDY == 2

\* The function f: compared with itself, it is evaluated by TLC once and not at
\* every use.
Table(f) == CHOOSE g \in {f} : g = f

NibbleTable ==
  Table([f \in 0..15 |-> Table([xy \in 0..255 |->
     Pack([n \in 1..4 |-> Bit(f, 2 * Bit(xy \div 16, n - 1) + Bit(xy, n - 1))])])])

\* The function f applied to every bit of the 16-bit words x and y.
Logic(f, x, y) ==
  LET N(k) == NibbleTable[f][16 * ((x \div k) % 16) + ((y \div k) % 16)] * k
  IN  N(1) + N(16) + N(256) + N(4096)
=============================================================================
