------------------------------ MODULE Backplane -----------------------------
(***************************************************************************)
(* The interrupt vectors of the character devices and the line clock, and  *)
(* the request queue they share.  A device handler is a function of the    *)
(* device's registers and of the queue: it returns both, as [dev, q].      *)
(***************************************************************************)
EXTENDS Integers, Sequences, FiniteSets

\* DL11 receiver 060 and transmitter 064, PC11 reader 070 and punch 074 at
\* BR4, KW11-L 100 at BR6.
IoVectors == {"rx", "tx", "ptr", "ptp", "clk"}

\* Mutant of IoLevel: the clock's request wired to BR4.
IoLevelFlat == [v \in IoVectors |-> 4]

IoLevel == [v \in IoVectors |-> IF v = "clk" THEN 6 ELSE 4]

INSTANCE IntQueue WITH Vectors <- IoVectors, Level <- IoLevel, MaxPending <- 8

After(d, queue) == [dev |-> d, q |-> queue]

\* A deadline held in simulated time (0 in the code when there is none).
Deadlines == {"none", "ahead", "due"}
=============================================================================
