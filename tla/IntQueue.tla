------------------------------ MODULE IntQueue ------------------------------
(***************************************************************************)
(* The request queue of the KD11-EA interrupt controller (kd11ea/int.c):   *)
(* an array of at most MaxPending requests.  An entry is named by its      *)
(* vector; every caller passes the same BR level with a given vector, so   *)
(* the level is the constant function Level.                               *)
(***************************************************************************)
EXTENDS Integers, Sequences, FiniteSets

CONSTANTS Vectors,     \* the interrupt vectors the devices request
          Level,       \* the BR level of each vector
          MaxPending   \* INT_MAX_PENDING

ASSUME LevelAssumption == Level \in [Vectors -> 4..7]
ASSUME CapacityAssumption ==
         /\ IsFiniteSet(Vectors)
         /\ MaxPending \in Nat
         /\ Cardinality(Vectors) <= MaxPending

Pending(q) == {q[i] : i \in DOMAIN q}

NoDuplicates(q) == \A i, j \in DOMAIN q : q[i] = q[j] => i = j

\* Mutant of SwapOut: the entry is cleared, and stays in the queue.
ZeroOut(q, i) == [q EXCEPT ![i] = ""]

\* queue[i] = queue[count - 1]; count--: the hole is filled with the last entry.
SwapOut(q, i) == [j \in 1..(Len(q) - 1) |-> IF j = i THEN q[Len(q)] ELSE q[j]]

\* Mutant of Request: a pending vector is not looked for.
RequestUnchecked(q, v) == IF Len(q) < MaxPending THEN Append(q, v) ELSE q

\* int_request: a vector already pending is not added again, and a full
\* queue drops the request (the -1 is ignored by machine.c's cpu_irq_set).
Request(q, v) ==
  IF v \notin Pending(q) /\ Len(q) < MaxPending THEN Append(q, v) ELSE q

\* int_cancel
Cancel(q, v) ==
  IF v \in Pending(q) THEN SwapOut(q, CHOOSE i \in DOMAIN q : q[i] = v) ELSE q

RequestIf(c, q, v) == IF c THEN Request(q, v) ELSE q
CancelIf(c, q, v)  == IF c THEN Cancel(q, v) ELSE q

\* int_br_lines: the BR lines the pending requests assert.
BRLines(q) == {Level[q[i]] : i \in DOMAIN q}

\* Mutant of Grantable: a request at the CPU's own level is granted.
GrantAtLevel(q, p) ==
  {i \in DOMAIN q : Level[q[i]] >= p /\ \A j \in DOMAIN q : Level[q[j]] <= Level[q[i]]}

\* The entries int_pending may choose between: the level E29 grants is the
\* highest asserted one, if it is above the CPU priority p.
Grantable(q, p) ==
  {i \in DOMAIN q : Level[q[i]] > p /\ \A j \in DOMAIN q : Level[q[j]] <= Level[q[i]]}

\* int_pending: the first entry of the granted level (there is none when
\* Grantable is empty: the -1 of the code).
FirstGrantable(q, p) ==
  CHOOSE i \in Grantable(q, p) : \A j \in Grantable(q, p) : i <= j
=============================================================================
