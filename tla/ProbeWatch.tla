----------------------------- MODULE ProbeWatch ------------------------------
(***************************************************************************)
(* What a reader of a capture may expect, stated with a history of the     *)
(* trigger, and the recorder that the ring implements.                     *)
(***************************************************************************)
EXTENDS Probe

VARIABLES hit,       \* the sample stored at the trigger, if one was
          wrapped    \* more samples were stored than can be counted

watchedvars == <<probevars, hit, wrapped>>

WatchInit == ProbeInit /\ hit = NoTrigger /\ wrapped = FALSE

Fired == p'.triggered /\ ~p.triggered
Kept  == p'.count # p.count

WatchSample ==
  /\ Sample
  /\ wrapped' = (wrapped \/ p'.count < p.count)
  /\ hit' = IF Fired /\ Kept THEN p.trigger ELSE hit

WatchNext ==
  \/ WatchSample
  \/ Arming /\ UNCHANGED page /\ hit' = NoTrigger /\ wrapped' = FALSE
  \/ Setting /\ UNCHANGED <<page, hit, wrapped>>

WatchSpec == WatchInit /\ [][WatchNext]_watchedvars

-----------------------------------------------------------------------------
ProbeTypeOK ==
  /\ p.state \in States /\ p.depth \in Depths /\ p.pct \in Percents \cup {50}
  /\ p.trigger \in Triggers /\ (p.state = "armed" => p.trigger # NoTrigger)
  /\ p.divider \in Dividers \cup {1} /\ p.pre \in 0..Deepest /\ p.post \in 0..p.depth
  /\ (p.state # "idle" => p.pre <= p.depth) /\ (p.state = "capturing" => p.post > 0)
  /\ (p.state \in {"armed", "capturing"} => p.div > 0)
  /\ p.head = p.count /\ p.count \in 0..(Counts32 - 1)
  /\ p.sample \in 0..(p.depth - 1)

\* The ring is a tape of the newest samples, though it is written round and
\* round, by counters that wrap; the trigger's sample keeps its mark.
Tape == [i \in 1..ValidCount(p) |-> Get(p, i - 1)]
Mark == IF ValidCount(p) = 0 \/ TriggerIndex(p) < 0 THEN 0 ELSE TriggerIndex(p) + 1

Tapes == INSTANCE Recorder
  WITH Sizes <- Depths, Width <- Counts32, mode <- p.state, size <- p.depth, tape <- Tape,
       kept <- p.count, mark <- Mark, before <- p.pre, quota <- p.post,
       first <- p.state = "capturing" /\ p.triggered /\ p.count = 0 /\ p.abs = 0
ImplementsRecorder == Tapes!Spec

\* A finished capture has its trigger where it was ordered: the part before it
\* on the one side, the rest on the other, the sample of the trigger at the
\* index if it was stored, and at the row that the command line shows.  Only a
\* capture without a part before may have lost a trigger that was not stored.
TriggerInPlace ==
  p.state = "done" /\ p.triggered /\ ~wrapped =>
    LET at    == TriggerIndex(p)
        later == ValidCount(p) - 1 - at
        after == p.depth - p.pre
    IN  IF at < 0 THEN p.pre = 0 /\ hit = NoTrigger
        ELSE /\ at >= p.pre - 1
             /\ later \in {after - 1, after} /\ later >= 0
             /\ hit # NoTrigger => Get(p, at) = hit
             /\ ShownIndex(p) = at

\* probe.h:198: a capture that is done has filled the buffer.
DoneIsFull == p.state = "done" => ValidCount(p) = p.depth
=============================================================================
