-------------------------------- MODULE Probe --------------------------------
(***************************************************************************)
(* The logic analyzer (probe/probe.c) and what the two front ends do with  *)
(* it.  Every micro-step shows it a sample, which is kept, when its turn   *)
(* comes, in a ring.  A sample is no more than whether it is the trigger's *)
(* value.  The selection of signals and the files written are left out.    *)
(***************************************************************************)
EXTENDS Integers, Sequences, FiniteSets

CONSTANTS Samples,    \* what a micro-step shows
          Depths,     \* the sizes of the ring, powers of two
          Percents,   \* the trigger's positions
          Dividers,   \* the micro-steps to a sample
          Counts32,   \* the values of a uint32_t
          NoTrigger

Deepest == CHOOSE d \in Depths : \A e \in Depths : e <= d

ASSUME DepthsAssumption   ==
  Depths \subseteq Nat \ {0} /\ \E d \in Depths : \A e \in Depths : e <= d
ASSUME PercentsAssumption == Percents \subseteq 0..100
ASSUME DividersAssumption == Dividers \subseteq Nat \ {0}
ASSUME Counts32Assumption ==
  Counts32 \in Nat /\ \A d \in Depths : 2 * d <= Counts32 /\ Counts32 % d = 0
ASSUME NoTriggerAssumption == NoTrigger \notin Samples

VARIABLES p,        \* struct Probe
          page      \* the front end is the web page

probevars == <<p, page>>

States   == {"idle", "armed", "capturing", "done"}
Triggers == Samples \cup {NoTrigger}

-----------------------------------------------------------------------------
(* probe.c.                                                                *)

Powered(depth, s) ==
  [state |-> "idle", depth |-> depth, trigger |-> NoTrigger, edge |-> FALSE, pct |-> 50,
   divider |-> 1, pre |-> 0, post |-> 0, div |-> 0, prev |-> "unknown", triggered |-> FALSE,
   sample |-> 0, abs |-> 0, head |-> 0, count |-> 0, buf |-> [i \in 0..(Deepest - 1) |-> s]]

Reset(q) == [q EXCEPT !.state = "idle", !.head = 0, !.count = 0, !.sample = 0, !.post = 0]

\* Requests are cut to the buffer and rounded down to a power of two.
SetDepth(q, d) == [(IF d # q.depth THEN Reset(q) ELSE q) EXCEPT !.depth = d]

\* A mutant: without a trigger it waits for one.
ArmAlways(q) ==
  [q EXCEPT !.head = 0, !.count = 0, !.sample = 0, !.pre = (q.depth * q.pct) \div 100,
            !.post = 0, !.div = q.divider, !.prev = "unknown", !.triggered = FALSE, !.abs = 0,
            !.state = "armed"]

Arm(q) ==
  [q EXCEPT !.head = 0, !.count = 0, !.sample = 0, !.pre = (q.depth * q.pct) \div 100,
            !.post = IF q.trigger = NoTrigger THEN q.depth ELSE 0,
            !.div = q.divider, !.prev = "unknown", !.triggered = FALSE, !.abs = 0,
            !.state = IF q.trigger = NoTrigger THEN "capturing" ELSE "armed"]

Disarm(q) == [q EXCEPT !.state = "idle"]

\* The divider's turn: the sample is stored.
Due(q) == q.div = 1
Stored(q, s) ==
  [q EXCEPT !.div = q.divider, !.buf[q.head % q.depth] = s,
            !.head = (@ + 1) % Counts32, !.count = (@ + 1) % Counts32]
Ticked(q, s) == IF Due(q) THEN Stored(q, s) ELSE [q EXCEPT !.div = @ - 1]

\* The trigger is looked at in every micro-step, and heeded when the part of
\* the ring before it is full.
Fires(q, met) == met /\ (q.edge => q.prev = "no")
\* A mutant: the place of the next sample.
NewestNext(q) == q.head

Newest(q) == (IF q.head > 0 THEN q.head ELSE 1) - 1

Left(q, stored) ==
  LET after == q.depth - q.pre
  IN  IF stored /\ after > 0 THEN after - 1 ELSE after

Triggered(q, left) ==
  [q EXCEPT !.state = IF left = 0 THEN "done" ELSE "capturing", !.triggered = TRUE,
            !.sample = Newest(q) % q.depth, !.abs = Newest(q),
            !.post = left, !.div = q.divider]

SampledArmed(q, s, met) ==
  LET t == [Ticked(q, s) EXCEPT !.prev = IF met THEN "yes" ELSE "no"]
  IN  IF Fires(q, met) /\ t.count >= t.pre THEN Triggered(t, Left(t, Due(q))) ELSE t

SampledCapturing(q, s) ==
  LET t == Ticked(q, s)
  IN  IF ~Due(q) THEN t
      ELSE [t EXCEPT !.post = @ - 1, !.state = IF t.post = 1 THEN "done" ELSE "capturing"]

\* What the front ends read: the number of samples, a sample by its age, and
\* the trigger's, negative if there is none.
ValidCount(q) == IF q.count < q.depth THEN q.count ELSE q.depth
\* A mutant: as if the ring were always full.
FirstFull(q)  == (q.head - q.depth + Counts32) % Counts32
First(q)      == (q.head - ValidCount(q) + Counts32) % Counts32
Get(q, i)     == q.buf[(First(q) + i) % q.depth]

Signed(n) == IF n >= Counts32 \div 2 THEN n - Counts32 ELSE n

TriggerIndex(q) ==
  IF ~q.triggered \/ q.abs < First(q) THEN -1 ELSE Signed(q.abs - First(q))

\* The command line's show works the place out from the ring.
ShownIndex(q) ==
  IF q.count >= q.depth THEN (q.sample + q.depth - (q.head % q.depth)) % q.depth ELSE q.sample

-----------------------------------------------------------------------------
(* The front ends.                                                         *)

ProbeInit ==
  /\ page \in BOOLEAN
  /\ \E s \in Samples : p = Powered(Deepest, s)

Sample ==
  /\ \/ p.state = "armed" /\ \E s \in Samples : p' = SampledArmed(p, s, s = p.trigger)
     \/ p.state = "capturing" /\ \E s \in Samples : p' = SampledCapturing(p, s)
  /\ UNCHANGED page

\* Commands of the command line, a capture under way or not.
CliTrigger == ~page /\ \E s \in Samples : p' = [p EXCEPT !.trigger = s]
CliPos     == ~page /\ \E n \in Percents : p' = [p EXCEPT !.pct = n]
CliRate    == ~page /\ \E n \in Dividers : p' = [p EXCEPT !.divider = n]
CliArm     == ~page /\ p' = Arm(p)
CliDepth   ==
  /\ ~page /\ p.state \notin {"armed", "capturing"}
  /\ \E d \in Depths : p' = SetDepth(p, d)

\* The page's Arm button sets everything.
Chosen(q, t, e) == [q EXCEPT !.trigger = t, !.edge = IF t = NoTrigger THEN @ ELSE e]
WebArm ==
  /\ page
  /\ \E t \in Triggers, e \in BOOLEAN, d \in Depths, n \in Dividers, pc \in Percents :
       p' = Arm([SetDepth(Chosen(p, t, e), d) EXCEPT !.divider = n, !.pct = pc])

Stop == p' = Disarm(p)

\* A button or a command that begins a capture, and the others.
Arming  == CliArm \/ WebArm
Setting == CliTrigger \/ CliPos \/ CliRate \/ CliDepth \/ Stop

ProbeNext == Sample \/ ((Arming \/ Setting) /\ UNCHANGED page)

ProbeSpec == ProbeInit /\ [][ProbeNext]_probevars
=============================================================================
