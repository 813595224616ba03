---------------------------- MODULE RequestFlops ----------------------------
(***************************************************************************)
(* What the CPU and the devices rely on: one request flip-flop per vector. *)
(* A device sets or clears its own, and the processor, when it services    *)
(* interrupts, takes one of the highest pending level if that level is     *)
(* above its own priority.                                                 *)
(***************************************************************************)
EXTENDS Integers

CONSTANTS Vectors, Level, None

VARIABLES pending,     \* the vectors whose flip-flop is set
          ipl,         \* the CPU priority
          ack          \* the vector granted by the last step, or None

Init == pending = {} /\ ipl = 7 /\ ack = None

Raise(v) == pending' = pending \cup {v} /\ ack' = None /\ UNCHANGED ipl

Withdraw(v) == pending' = pending \ {v} /\ ack' = None /\ UNCHANGED ipl

Grant ==
  \E v \in pending :
    /\ Level[v] > ipl
    /\ \A w \in pending : Level[w] <= Level[v]
    /\ pending' = pending \ {v}
    /\ ack' = v
    /\ UNCHANGED ipl

Clear == pending' = {} /\ ipl' = 7 /\ ack' = None

LoadPriority == ipl' \in 0..7 /\ ack' = None /\ UNCHANGED pending

Next ==
  \/ \E v \in Vectors : Raise(v) \/ Withdraw(v)
  \/ Grant \/ Clear \/ LoadPriority

Spec == Init /\ [][Next]_<<pending, ipl, ack>>
=============================================================================
