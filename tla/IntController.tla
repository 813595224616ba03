---------------------------- MODULE IntController ---------------------------
(***************************************************************************)
(* The interrupt controller on its own: devices assert and withdraw their  *)
(* requests in any order, the CPU grants at any priority, a CPU reset      *)
(* empties the queue.                                                      *)
(***************************************************************************)
EXTENDS IntQueue, ServiceRoms

CONSTANT None          \* no vector

ASSUME NoneAssumption == None \notin Vectors

VARIABLES queue,       \* ic->queue[0 .. ic->count - 1]
          ipl,         \* the CPU priority, PSW 7-5
          ack          \* the vector the last step took from int_ack, or None

vars == <<queue, ipl, ack>>

Init == queue = <<>> /\ ipl = 7 /\ ack = None

\* A device asserts its request line: int_request.
IntRequest(v) == queue' = Request(queue, v) /\ ack' = None /\ UNCHANGED ipl

\* A device withdraws its request: int_cancel.
IntCancel(v) == queue' = Cancel(queue, v) /\ ack' = None /\ UNCHANGED ipl

\* BUT SERVICE: int_pending found a request, int_ack takes it.
IntAck ==
  /\ Grantable(queue, ipl) # {}
  /\ LET i == FirstGrantable(queue, ipl)
     IN  ack' = queue[i] /\ queue' = SwapOut(queue, i)
  /\ UNCHANGED ipl

\* kd11ea_reset: int_init, and the PSW to priority 7.
IntInit == queue' = <<>> /\ ipl' = 7 /\ ack' = None

\* The PSW is loaded.
SetPriority == ipl' \in 0..7 /\ ack' = None /\ UNCHANGED queue

Next ==
  \/ \E v \in Vectors : IntRequest(v) \/ IntCancel(v)
  \/ IntAck \/ IntInit \/ SetPriority

Spec == Init /\ [][Next]_vars

-----------------------------------------------------------------------------
\* The queue holds vectors, within the array's capacity.
TypeOK ==
  /\ queue \in Seq(Vectors)
  /\ Len(queue) <= MaxPending
  /\ ipl \in 0..7
  /\ ack \in Vectors \cup {None}

\* No vector is queued twice (int_request's "already pending" scan against the
\* swap removals), so that with MaxPending places no request is ever refused.
NeverQueuedTwice == NoDuplicates(queue)

\* The bus-grant PROM, fed with the lines of the pending requests, grants the
\* highest level above the CPU priority (int.h: "the highest request above
\* cpu_priority") and nothing when there is none: what Grantable says.
RomGrantsHighest ==
  LET grant == E29Grant(ipl, BRLines(queue))
  IN  Grantable(queue, ipl) = {i \in DOMAIN queue : Level[queue[i]] = grant}

\* What int.c promises: the queue is a set of request flip-flops, no request
\* is lost or refused, and a grant takes one of the highest level.
Flops == INSTANCE RequestFlops WITH pending <- Pending(queue)
ImplementsRequestFlops == Flops!Spec
=============================================================================
