------------------------ MODULE IntControllerProofs -------------------------
(***************************************************************************)
(* Proofs about the interrupt controller, for every set of vectors, every  *)
(* assignment of BR levels and every queue capacity that has a place for   *)
(* each vector.                                                            *)
(***************************************************************************)
EXTENDS IntController, IntQueueProofs

-----------------------------------------------------------------------------
(* The controller *)

\* The queue's capacity matters to no step because no vector is queued twice:
\* the two facts are only inductive together.
IInv == TypeOK /\ NeverQueuedTwice

\* A grant removes the entry it returns.
LEMMA IntAckFacts ==
  ASSUME IInv, IntAck
  PROVE  /\ queue' \in Seq(Vectors) /\ Len(queue') <= Len(queue) /\ NoDuplicates(queue')
         /\ ack' \in Pending(queue) /\ Level[ack'] > ipl /\ ipl' = ipl
         /\ \A w \in Pending(queue) : Level[w] <= Level[ack']
         /\ Pending(queue') = Pending(queue) \ {ack'}
<1> DEFINE i == FirstGrantable(queue, ipl)
<1>1. queue \in Seq(Vectors) /\ NoDuplicates(queue) /\ Grantable(queue, ipl) # {}
  BY DEF IInv, TypeOK, NeverQueuedTwice, IntAck
<1>2. i \in Grantable(queue, ipl)
  BY <1>1, FirstGrantableFacts
<1>3. ack' = queue[i] /\ queue' = SwapOut(queue, i) /\ ipl' = ipl
  BY DEF IntAck
<1> HIDE DEF i
<1>4. /\ i \in DOMAIN queue /\ Level[queue[i]] > ipl
      /\ \A j \in DOMAIN queue : Level[queue[j]] <= Level[queue[i]]
  BY <1>2 DEF Grantable
<1>5. Len(queue) \in Nat /\ Len(queue) - 1 <= Len(queue)
  BY <1>1
<1> QED BY <1>1, <1>3, <1>4, <1>5, SwapOutFacts DEF Pending

\* Every operation of int.c, a PSW load and a reset keep the invariant.
LEMMA IInvInductive == IInv /\ [Next]_vars => IInv'
<1> SUFFICES ASSUME IInv, [Next]_vars PROVE IInv'
  OBVIOUS
<1>1. /\ queue \in Seq(Vectors) /\ NoDuplicates(queue) /\ Len(queue) \in Nat
      /\ Len(queue) <= MaxPending /\ MaxPending \in Nat /\ ack \in Vectors \cup {None}
      /\ ipl \in 0..7
  BY CapacityAssumption DEF IInv, TypeOK, NeverQueuedTwice
<1>2. ASSUME NEW v \in Vectors, IntRequest(v) PROVE IInv'
  BY <1>1, <1>2, RequestFacts DEF IInv, TypeOK, NeverQueuedTwice, IntRequest
<1>3. ASSUME NEW v \in Vectors, IntCancel(v) PROVE IInv'
  <2>1. Len(Cancel(queue, v)) \in Nat
    BY <1>1, CancelFacts
  <2> QED BY <1>1, <1>3, <2>1, CancelFacts DEF IInv, TypeOK, NeverQueuedTwice, IntCancel
<1>4. CASE IntAck
  <2>1. /\ queue' \in Seq(Vectors) /\ Len(queue') <= Len(queue) /\ NoDuplicates(queue')
        /\ ack' \in Pending(queue) /\ ipl' = ipl
    BY <1>4, IntAckFacts
  <2>2. Len(queue') \in Nat /\ ack' \in Vectors
    BY <1>1, <2>1 DEF Pending
  <2> QED BY <1>1, <2>1, <2>2 DEF IInv, TypeOK, NeverQueuedTwice
<1>5. CASE IntInit
  BY <1>1, <1>5 DEF IntInit, IInv, TypeOK, NeverQueuedTwice, NoDuplicates
<1>6. CASE SetPriority
  BY <1>1, <1>6 DEF SetPriority, IInv, TypeOK, NeverQueuedTwice
<1>7. CASE UNCHANGED vars
  BY <1>7 DEF vars, IInv, TypeOK, NeverQueuedTwice
<1> QED BY <1>2, <1>3, <1>4, <1>5, <1>6, <1>7 DEF Next

\* int_init leaves an empty queue.
LEMMA IInvInitially == Init => IInv
BY CapacityAssumption DEF Init, IInv, TypeOK, NeverQueuedTwice, NoDuplicates

\* The queue satisfies the invariant in every reachable state.
LEMMA IInvAlways == Spec => []IInv
BY IInvInitially, IInvInductive, PTL DEF Spec

\* The queue never outgrows int.c's array and holds vectors only.
THEOREM TypeCorrect == Spec => []TypeOK
<1>1. IInv => TypeOK
  BY DEF IInv
<1> QED BY <1>1, IInvAlways, PTL

\* int_request's scan and the swap removals keep every vector queued at most once.
THEOREM QueuedOnce == Spec => []NeverQueuedTwice
<1>1. IInv => NeverQueuedTwice
  BY DEF IInv
<1> QED BY <1>1, IInvAlways, PTL

\* The array implements a set of request flip-flops: no request is lost or
\* refused, and what int_ack returns is pending, above the CPU priority and of
\* the highest pending level.
THEOREM Refinement == Spec => ImplementsRequestFlops
<1>1. Init => Flops!Init
  BY DEF Init, Flops!Init, Pending
<1>2. IInv /\ [Next]_vars => [Flops!Next]_<<Pending(queue), ipl, ack>>
  <2> SUFFICES ASSUME IInv, [Next]_vars
               PROVE  [Flops!Next]_<<Pending(queue), ipl, ack>>
    OBVIOUS
  <2>1. queue \in Seq(Vectors) /\ NoDuplicates(queue)
    BY DEF IInv, TypeOK, NeverQueuedTwice
  <2>2. ASSUME NEW v \in Vectors, IntRequest(v) PROVE Flops!Raise(v)
    BY <2>1, <2>2, RequestFacts DEF IntRequest, Flops!Raise
  <2>3. ASSUME NEW v \in Vectors, IntCancel(v) PROVE Flops!Withdraw(v)
    BY <2>1, <2>3, CancelFacts DEF IntCancel, Flops!Withdraw
  <2>4. CASE IntAck
    <3>1. Flops!Grant
      BY <2>4, IntAckFacts DEF Flops!Grant
    <3> QED BY <3>1 DEF Flops!Next
  <2>5. CASE IntInit
    BY <2>5 DEF IntInit, Flops!Next, Flops!Clear, Pending
  <2>6. CASE SetPriority
    BY <2>6 DEF SetPriority, Flops!Next, Flops!LoadPriority
  <2>7. CASE UNCHANGED vars
    BY <2>7 DEF vars, Pending
  <2> QED BY <2>2, <2>3, <2>4, <2>5, <2>6, <2>7 DEF Next, Flops!Next
<1> QED BY <1>1, <1>2, IInvAlways, PTL DEF Spec, ImplementsRequestFlops, Flops!Spec

-----------------------------------------------------------------------------
(* The bus-grant PROM *)

\* The level int.h promises to grant, 0 for none.
HighestAbove(p, br) ==
  IF 7 \in br THEN (IF p < 7 THEN 7 ELSE 0)
  ELSE IF 6 \in br THEN (IF p < 6 THEN 6 ELSE 0)
  ELSE IF 5 \in br THEN (IF p < 5 THEN 5 ELSE 0)
  ELSE IF 4 \in br THEN (IF p < 4 THEN 4 ELSE 0)
  ELSE 0
\* An address of the PROM is made of the half, the row and the place in it.
LEMMA RowOf ==
  ASSUME NEW w4 \in 0..1, NEW w5 \in 0..1, NEW w6 \in 0..1, NEW w7 \in 0..1,
         NEW h \in 0..1, NEW c \in 0..3
  PROVE LET a == c + 8 * w6 + 16 * w4 + 32 * w7 + 64 * w5 + 128 * h
        IN E29Data(a) = E29[h + 1][w6 + 2 * w4 + 4 * w7 + 8 * w5 + 1][c + 1]
<1> DEFINE r == w6 + 2 * w4 + 4 * w7 + 8 * w5
           a == c + 8 * w6 + 16 * w4 + 32 * w7 + 64 * w5 + 128 * h
<1>1. r \in 0..15 /\ a = 128 * h + 8 * r + c
  OBVIOUS
<1> HIDE DEF r
<1>2. a \div 128 = h /\ (a \div 8) % 16 = r /\ a % 8 = c
  BY <1>1
<1> QED BY <1>2 DEF E29Data, r

\* The asserted lines choose the row: the highest decides.
LEMMA HalfRow ==
  ASSUME NEW w4 \in 0..1, NEW w5 \in 0..1, NEW w6 \in 0..1, NEW w7 \in 0..1, NEW five, NEW seven
  PROVE E29Half(five, seven)[w6 + 2 * w4 + 4 * w7 + 8 * w5 + 1]
         = IF w7 = 1 THEN seven ELSE IF w6 = 1 THEN E29Six ELSE IF w5 = 1 THEN five
           ELSE IF w4 = 1 THEN E29Four ELSE E29None
<1> DEFINE r == w6 + 2 * w4 + 4 * w7 + 8 * w5 + 1
           g == E29Half(five, seven)
<1>1. /\ g[5] = seven /\ g[6] = seven /\ g[7] = seven /\ g[8] = seven
      /\ g[13] = seven /\ g[14] = seven /\ g[15] = seven /\ g[16] = seven
      /\ g[2] = E29Six /\ g[4] = E29Six /\ g[10] = E29Six /\ g[12] = E29Six
      /\ g[9] = five /\ g[11] = five /\ g[3] = E29Four /\ g[1] = E29None
  BY DEF E29Half
<1> HIDE DEF g
<1>2. CASE w7 = 1
  <2>1. r \in {5, 6, 7, 8, 13, 14, 15, 16}
    BY <1>2
  <2> QED BY <1>1, <1>2, <2>1 DEF g
<1>3. CASE w7 = 0 /\ w6 = 1
  <2>1. r \in {2, 4, 10, 12}
    BY <1>3
  <2> QED BY <1>1, <1>3, <2>1 DEF g
<1>4. CASE w7 = 0 /\ w6 = 0
  BY <1>1, <1>4 DEF g
<1> QED BY <1>2, <1>3, <1>4

\* The CPU priority chooses the half and the place: a grant is made there when
\* its level is above the priority.
LEMMA Columns ==
  ASSUME NEW p \in 0..7
  PROVE  LET h     == E29Bit(p, 1)
             c     == E29Bit(p, 4) + 2 * E29Bit(p, 2)
             five  == IF h = 0 THEN <<8, 8, 8, 0, 0, 0, 0, 0>> ELSE <<8, 0, 8, 0, 0, 0, 0, 0>>
             seven == IF h = 0 THEN <<2, 2, 2, 2, 0, 0, 0, 0>> ELSE <<2, 2, 2, 0, 0, 0, 0, 0>>
         IN  /\ h \in 0..1 /\ c \in 0..3
             /\ E29[h + 1] = E29Half(five, seven)
             /\ E29None[c + 1] = 0
             /\ E29Four[c + 1] = IF p < 4 THEN 4 ELSE 0
             /\ five[c + 1] = IF p < 5 THEN 8 ELSE 0
             /\ E29Six[c + 1] = IF p < 6 THEN 1 ELSE 0
             /\ seven[c + 1] = IF p < 7 THEN 2 ELSE 0
<1>1. p \in {0, 1, 2, 3, 4, 5, 6, 7}
  OBVIOUS
<1>2. CASE p = 0
  BY <1>2 DEF E29Bit, E29, E29None, E29Six, E29Four
<1>3. CASE p = 1
  BY <1>3 DEF E29Bit, E29, E29None, E29Six, E29Four
<1>4. CASE p = 2
  BY <1>4 DEF E29Bit, E29, E29None, E29Six, E29Four
<1>5. CASE p = 3
  BY <1>5 DEF E29Bit, E29, E29None, E29Six, E29Four
<1>6. CASE p = 4
  BY <1>6 DEF E29Bit, E29, E29None, E29Six, E29Four
<1>7. CASE p = 5
  BY <1>7 DEF E29Bit, E29, E29None, E29Six, E29Four
<1>8. CASE p = 6
  BY <1>8 DEF E29Bit, E29, E29None, E29Six, E29Four
<1>9. CASE p = 7
  BY <1>9 DEF E29Bit, E29, E29None, E29Six, E29Four
<1> QED BY <1>1, <1>2, <1>3, <1>4, <1>5, <1>6, <1>7, <1>8, <1>9

\* The PROM holds what int.h says, for each of its inputs.
LEMMA GrantFacts ==
  ASSUME NEW p \in 0..7, NEW br
  PROVE  E29Grant(p, br) = HighestAbove(p, br)
<1> DEFINE w4 == E29Line(br, 4)  w5 == E29Line(br, 5)  w6 == E29Line(br, 6)  w7 == E29Line(br, 7)
           h     == E29Bit(p, 1)
           c     == E29Bit(p, 4) + 2 * E29Bit(p, 2)
           five  == IF h = 0 THEN <<8, 8, 8, 0, 0, 0, 0, 0>> ELSE <<8, 0, 8, 0, 0, 0, 0, 0>>
           seven == IF h = 0 THEN <<2, 2, 2, 2, 0, 0, 0, 0>> ELSE <<2, 2, 2, 0, 0, 0, 0, 0>>
           row   == IF w7 = 1 THEN seven ELSE IF w6 = 1 THEN E29Six ELSE IF w5 = 1 THEN five
                    ELSE IF w4 = 1 THEN E29Four ELSE E29None
           d     == E29Data(E29Addr(p, br))
<1>1. w4 \in 0..1 /\ w5 \in 0..1 /\ w6 \in 0..1 /\ w7 \in 0..1
  BY DEF E29Line
<1>2. (w4 = 1 <=> 4 \in br) /\ (w5 = 1 <=> 5 \in br) /\ (w6 = 1 <=> 6 \in br) /\ (w7 = 1 <=> 7 \in br)
  BY DEF E29Line
<1>3. /\ h \in 0..1 /\ c \in 0..3 /\ E29[h + 1] = E29Half(five, seven)
      /\ E29None[c + 1] = 0
      /\ E29Four[c + 1] = IF p < 4 THEN 4 ELSE 0
      /\ five[c + 1] = IF p < 5 THEN 8 ELSE 0
      /\ E29Six[c + 1] = IF p < 6 THEN 1 ELSE 0
      /\ seven[c + 1] = IF p < 7 THEN 2 ELSE 0
  BY Columns
<1>4. E29Addr(p, br) = c + 8 * w6 + 16 * w4 + 32 * w7 + 64 * w5 + 128 * h
  BY DEF E29Addr
<1> HIDE DEF w4, w5, w6, w7, h, c, five, seven
<1>5. d = E29Half(five, seven)[w6 + 2 * w4 + 4 * w7 + 8 * w5 + 1][c + 1]
  BY <1>1, <1>3, <1>4, RowOf
<1>6. d = row[c + 1]
  BY <1>1, <1>5, HalfRow
<1> HIDE DEF d
<1>7. d = CASE 7 \in br -> IF p < 7 THEN 2 ELSE 0
            [] 7 \notin br /\ 6 \in br -> IF p < 6 THEN 1 ELSE 0
            [] 7 \notin br /\ 6 \notin br /\ 5 \in br -> IF p < 5 THEN 8 ELSE 0
            [] 7 \notin br /\ 6 \notin br /\ 5 \notin br /\ 4 \in br -> IF p < 4 THEN 4 ELSE 0
            [] OTHER -> 0
  BY <1>2, <1>3, <1>6
<1>8. E29Grant(p, br) = IF E29Bit(d, 2) = 1 THEN 7 ELSE IF E29Bit(d, 1) = 1 THEN 6
                        ELSE IF E29Bit(d, 8) = 1 THEN 5 ELSE IF E29Bit(d, 4) = 1 THEN 4 ELSE 0
  BY DEF E29Grant, d
<1>9. E29Grant(p, br) = IF d = 2 THEN 7 ELSE IF d = 1 THEN 6 ELSE IF d = 8 THEN 5 ELSE IF d = 4 THEN 4 ELSE 0
  <2>1. d \in {0, 1, 2, 4, 8}
    BY <1>7
  <2> QED BY <1>8, <2>1 DEF E29Bit
<1> QED BY <1>7, <1>9 DEF HighestAbove

\* What the PROM grants is a level above the CPU's that is asserted and not
\* exceeded, or no level at all.
LEMMA HighestFacts ==
  ASSUME NEW p \in 0..7, NEW br \in SUBSET (4..7), NEW l \in br
  PROVE  (l > p /\ \A m \in br : m <= l) <=> l = HighestAbove(p, br)
<1>1. l \in {4, 5, 6, 7} /\ \A m \in br : m \in {4, 5, 6, 7}
  OBVIOUS
<1> QED BY <1>1 DEF HighestAbove

\* The PROM and its wiring arbitrate as int.h says, whatever is pending and at
\* every CPU priority.
THEOREM PromArbitrates == Spec => []RomGrantsHighest
<1>1. ASSUME IInv PROVE RomGrantsHighest
  <2> DEFINE br == BRLines(queue)
  <2>1. ipl \in 0..7 /\ queue \in Seq(Vectors)
    BY <1>1 DEF IInv, TypeOK
  <2>2. br \in SUBSET (4..7) /\ \A i \in DOMAIN queue : Level[queue[i]] \in br
    BY <2>1, LevelAssumption DEF BRLines
  <2>3. ASSUME NEW i \in DOMAIN queue
        PROVE  i \in Grantable(queue, ipl) <=> Level[queue[i]] = HighestAbove(ipl, br)
    <3>1. i \in Grantable(queue, ipl) <=> Level[queue[i]] > ipl /\ \A m \in br : m <= Level[queue[i]]
      BY DEF Grantable, BRLines
    <3> QED BY <2>1, <2>2, <3>1, HighestFacts
  <2>4. E29Grant(ipl, br) = HighestAbove(ipl, br)
    BY <2>1, GrantFacts
  <2>5. \A i \in Grantable(queue, ipl) : i \in DOMAIN queue
    BY DEF Grantable
  <2> QED BY <2>3, <2>4, <2>5 DEF RomGrantsHighest
<1> QED BY <1>1, IInvAlways, PTL
=============================================================================
