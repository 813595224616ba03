----------------------------- MODULE IntArrival -----------------------------
(***************************************************************************)
(* IntController with a history of the order in which the pending vectors  *)
(* were registered, for the grant order among requests of one BR level.    *)
(***************************************************************************)
EXTENDS IntController

VARIABLE arrival       \* the pending vectors, first registered first

ArrivalInit == Init /\ arrival = <<>>

\* The vectors of the queue, in the order they entered it.
ArrivalNext ==
  /\ Next
  /\ LET kept == SelectSeq(arrival, LAMBDA v : v \in Pending(queue'))
         new  == SelectSeq(queue', LAMBDA v : v \notin Pending(arrival))
     IN  arrival' = kept \o new

ArrivalSpec == ArrivalInit /\ [][ArrivalNext]_<<queue, ipl, ack, arrival>>

\* "When multiple requests share the same BR level, the first one registered
\* wins" (int.c:5-6): a grant takes the earliest arrival of its level.
FirstRegisteredWins ==
  [][ack' # None =>
       \A i, j \in DOMAIN arrival :
         i < j /\ arrival[j] = ack' => Level[arrival[i]] # Level[ack']
    ]_<<queue, ipl, ack, arrival>>

MCVectors == {"rx", "tx", "ptr"}
MCLevel == [v \in MCVectors |-> 4]
=============================================================================
