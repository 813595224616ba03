--------------------------- MODULE IoSystemProofs ---------------------------
(***************************************************************************)
(* Proofs about the character devices and the line clock on the bus, for   *)
(* every set of CPU priorities and every set of machines: the registers    *)
(* and the queue keep their types, every pending request is still wanted,  *)
(* and a device is busy exactly as long as it has a deadline.              *)
(*                                                                         *)
(* Each handler is a function of its device and of the queue, so the       *)
(* invariant is split by device: what a handler keeps of its own device's  *)
(* part is a lemma, and of the others it need only be known that it leaves *)
(* their requests alone.                                                   *)
(***************************************************************************)
EXTENDS IoSystem, FiniteSetTheorems, TLAPS

Q == INSTANCE IntQueueProofs WITH Vectors <- IoVectors, Level <- IoLevel, MaxPending <- 8

\* The queue of requests: each vector at most once, so never full.
QueueOK(q) == q \in Seq(IoVectors) /\ NoDuplicates(q) /\ Len(q) <= 8

DLGood(d, q) ==
  /\ d \in DLStates /\ QueueOK(q)
  /\ ~d.rdy <=> d.tx # "none"
  /\ "rx" \in Pending(q) => d.rie
  /\ "tx" \in Pending(q) => d.tie

KWGood(k, q) ==
  /\ k \in KWStates /\ QueueOK(q)
  /\ "clk" \in Pending(q) => k.ie

\* A punch with no file attached completes every write at once: it is never
\* busy, or the write would leave its deadline behind.
PCGood(p, q) ==
  /\ p \in PCStates /\ QueueOK(q)
  /\ p.rbusy <=> p.read # "none"
  /\ ~p.pdone <=> p.punch # "none"
  /\ ~p.pdone => p.holes
  /\ "ptr" \in Pending(q) => p.rie /\ (p.rdone \/ p.rerr)
  /\ "ptp" \in Pending(q) => p.pie /\ (p.pdone \/ p.perr)

\* From q to r the requests of the vectors in own change, and no others.
Only(own, q, r) == \A v \in IoVectors \ own : v \in Pending(r) <=> v \in Pending(q)

-----------------------------------------------------------------------------
(* The queue, with a place for each of the five vectors *)

\* The vectors are five, and the queue has eight places.
LEMMA FiveVectors == Q!IsFiniteSet(IoVectors) /\ Q!Cardinality(IoVectors) <= 8
<1>1. IsFiniteSet(1..5) /\ Cardinality(1..5) = 5
  <2>1. 1 \in Int /\ 5 \in Int /\ ~ (1 > 5) /\ 5 - 1 + 1 = 5
    OBVIOUS
  <2> QED BY <2>1, FS_Interval
<1> DEFINE f == [i \in 1..5 |-> IF i = 1 THEN "rx" ELSE IF i = 2 THEN "tx"
                           ELSE IF i = 3 THEN "ptr" ELSE IF i = 4 THEN "ptp" ELSE "clk"]
<1>2. f \in Surjection(1..5, IoVectors)
  <2>1. f \in [1..5 -> IoVectors]
    BY DEF IoVectors
  <2>2. f[1] = "rx" /\ f[2] = "tx" /\ f[3] = "ptr" /\ f[4] = "ptp" /\ f[5] = "clk"
    OBVIOUS
  <2>3. 1 \in 1..5 /\ 2 \in 1..5 /\ 3 \in 1..5 /\ 4 \in 1..5 /\ 5 \in 1..5
    OBVIOUS
  <2>4. \A v \in IoVectors : \E i \in 1..5 : f[i] = v
    <3> HIDE DEF f
    <3> QED BY <2>2, <2>3 DEF IoVectors
  <2> QED BY <2>1, <2>4 DEF Surjection
<1>3. IsFiniteSet(IoVectors) /\ Cardinality(IoVectors) <= 5
  BY <1>1, <1>2, FS_Surjection
<1>4. Cardinality(IoVectors) <= 8
  <2>1. Cardinality(IoVectors) \in Nat
    BY <1>3, FS_CardinalityType
  <2> QED BY <1>3, <2>1
<1>5. Q!IsFiniteSet(IoVectors) <=> IsFiniteSet(IoVectors)
  BY DEF IsFiniteSet, Q!IsFiniteSet
<1>6. Q!Cardinality(IoVectors) = Cardinality(IoVectors)
  BY Zenon DEF Cardinality, Q!Cardinality, IsFiniteSet, Q!IsFiniteSet
<1> QED BY <1>3, <1>4, <1>5, <1>6

\* The levels of the five vectors are BR levels.
LEMMA Levels == IoLevel \in [IoVectors -> 4..7]
BY DEF IoLevel

\* The instance of the lemmas speaks of the same queue.
LEMMA SameQueue ==
  \A q : Pending(q) = Q!Pending(q) /\ (NoDuplicates(q) <=> Q!NoDuplicates(q))
BY DEF Pending, Q!Pending, NoDuplicates, Q!NoDuplicates

\* int_request adds its vector, and no other.
LEMMA RequestQ ==
  ASSUME NEW q, QueueOK(q), NEW v \in IoVectors, NEW c \in BOOLEAN
  PROVE  /\ QueueOK(RequestIf(c, q, v))
         /\ \A w : w \in Pending(RequestIf(c, q, v)) <=> w \in Pending(q) \/ (c /\ w = v)
<1>1. CASE ~c
  BY <1>1 DEF RequestIf
<1>2. CASE c
  <2>1. q \in Seq(IoVectors) /\ Q!NoDuplicates(q) /\ Len(q) <= 8
    BY SameQueue DEF QueueOK
  <2>2. /\ Q!Request(q, v) \in Seq(IoVectors)
        /\ Len(Q!Request(q, v)) <= 8
        /\ Q!NoDuplicates(Q!Request(q, v))
        /\ Q!Pending(Q!Request(q, v)) = Q!Pending(q) \cup {v}
    BY <2>1, Q!RequestFacts, Levels, FiveVectors
  <2>3. RequestIf(c, q, v) = Q!Request(q, v)
    BY <1>2 DEF RequestIf, Request, Q!Request, Pending, Q!Pending
  <2> QED BY <1>2, <2>2, <2>3, SameQueue DEF QueueOK
<1> QED BY <1>1, <1>2

\* int_cancel removes its vector, and no other.
LEMMA CancelQ ==
  ASSUME NEW q, QueueOK(q), NEW v
  PROVE  /\ QueueOK(Cancel(q, v))
         /\ \A w : w \in Pending(Cancel(q, v)) <=> w \in Pending(q) /\ w # v
<1>1. q \in Seq(IoVectors) /\ Q!NoDuplicates(q) /\ Len(q) <= 8
  BY SameQueue DEF QueueOK
<1>2. /\ Q!Cancel(q, v) \in Seq(IoVectors)
      /\ Len(Q!Cancel(q, v)) <= Len(q)
      /\ Q!NoDuplicates(Q!Cancel(q, v))
      /\ Q!Pending(Q!Cancel(q, v)) = Q!Pending(q) \ {v}
  BY <1>1, Q!CancelFacts, Levels, FiveVectors
<1>3. Cancel(q, v) = Q!Cancel(q, v)
  BY DEF Cancel, Q!Cancel, Pending, Q!Pending, SwapOut, Q!SwapOut
<1>4. Len(Q!Cancel(q, v)) <= 8
  BY <1>1, <1>2
<1> QED BY <1>2, <1>3, <1>4, SameQueue DEF QueueOK

\* The same for a conditional withdrawal.
LEMMA CancelIfQ ==
  ASSUME NEW q, QueueOK(q), NEW v, NEW c \in BOOLEAN
  PROVE  /\ QueueOK(CancelIf(c, q, v))
         /\ \A w : w \in Pending(CancelIf(c, q, v)) <=> w \in Pending(q) /\ ~(c /\ w = v)
BY CancelQ, Zenon DEF CancelIf

\* int_pending names an entry of the queue, and a grant removes that entry.
LEMMA GrantQ ==
  ASSUME NEW q, QueueOK(q), NEW p, Grantable(q, p) # {}
  PROVE  LET i == FirstGrantable(q, p)
         IN  /\ QueueOK(SwapOut(q, i)) /\ q[i] \in IoVectors
             /\ \A w : w \in Pending(SwapOut(q, i)) <=> w \in Pending(q) /\ w # q[i]
<1> DEFINE i == FirstGrantable(q, p)
<1>1. q \in Seq(IoVectors) /\ Q!NoDuplicates(q) /\ Len(q) <= 8
  BY SameQueue DEF QueueOK
<1>2. Grantable(q, p) = Q!Grantable(q, p)
  BY DEF Grantable, Q!Grantable
<1>3. i = Q!FirstGrantable(q, p)
  BY <1>2 DEF FirstGrantable, Q!FirstGrantable
<1>4. i \in Q!Grantable(q, p)
  BY <1>1, <1>2, <1>3, Q!FirstGrantableFacts, Levels, FiveVectors
<1>5. i \in DOMAIN q
  BY <1>2, <1>4 DEF Grantable
<1> HIDE DEF i
<1>6. /\ Q!SwapOut(q, i) \in Seq(IoVectors)
      /\ Len(Q!SwapOut(q, i)) = Len(q) - 1
      /\ Q!NoDuplicates(Q!SwapOut(q, i))
      /\ Q!Pending(Q!SwapOut(q, i)) = Q!Pending(q) \ {q[i]}
  BY <1>1, <1>5, Q!SwapOutFacts, Levels, FiveVectors
<1>7. SwapOut(q, i) = Q!SwapOut(q, i)
  BY DEF SwapOut, Q!SwapOut
<1>8. Len(Q!SwapOut(q, i)) <= 8 /\ q[i] \in IoVectors
  BY <1>1, <1>5, <1>6
<1>9. /\ QueueOK(SwapOut(q, i)) /\ q[i] \in IoVectors
      /\ \A w : w \in Pending(SwapOut(q, i)) <=> w \in Pending(q) /\ w # q[i]
  BY <1>6, <1>7, <1>8, SameQueue DEF QueueOK
<1> QED BY <1>9 DEF i

-----------------------------------------------------------------------------
(* The handlers, device by device *)

\* Flag and enable, not both set in d, are both set in e: the request is in r.
DLRaises(d, e, r) == ~ (d.rdy /\ d.tie) /\ e.rdy /\ e.tie => "tx" \in Pending(r)
PCRaises(p, e, r) ==
  /\ ~ (p.rdone /\ p.rie) /\ e.rdone /\ e.rie => "ptr" \in Pending(r)
  /\ ~ (p.pdone /\ p.pie) /\ e.pdone /\ e.pie => "ptp" \in Pending(r)

\* What a handler owes the machine, of the device and the queue it returns:
\* its own part, the other devices' requests as they were, and a request for
\* each flag that met its enable.
DLDone(d, r, q) ==
  DLGood(r.dev, r.q) /\ Only({"rx", "tx"}, q, r.q) /\ DLRaises(d, r.dev, r.q)
KWDone(r, q) == KWGood(r.dev, r.q) /\ Only({"clk"}, q, r.q)
PCDone(p, r, q) ==
  PCGood(r.dev, r.q) /\ Only({"ptr", "ptp"}, q, r.q) /\ PCRaises(p, r.dev, r.q)

\* The DL11 at power-on and after INIT.
LEMMA DLClearedGood ==
  ASSUME NEW q, QueueOK(q), "rx" \notin Pending(q), "tx" \notin Pending(q)
  PROVE  DLGood(DLCleared, q)
BY DEF DLGood, DLCleared, DLStates, Deadlines

\* The end of a character sent requests only with the interrupt enabled.
LEMMA DLTransmitEndDone ==
  ASSUME NEW d, NEW q, DLGood(d, q)
  PROVE  DLDone(d, DLTransmitEnd(d, q), q)
<1>1. "tx" \in IoVectors /\ d.tie \in BOOLEAN /\ QueueOK(q)
  BY DEF DLGood, DLStates, IoVectors
<1>2. /\ QueueOK(RequestIf(d.tie, q, "tx"))
      /\ \A w : w \in Pending(RequestIf(d.tie, q, "tx")) <=> w \in Pending(q) \/ (d.tie /\ w = "tx")
  BY <1>1, RequestQ
<1> DEFINE r == RequestIf(d.tie, q, "tx")
           e == [d EXCEPT !.rdy = TRUE, !.tx = "none"]
<1>3. e \in DLStates /\ e.rdy /\ e.tx = "none" /\ e.rie = d.rie /\ e.tie = d.tie
  BY DEF DLGood, DLStates, Deadlines
<1> HIDE DEF r, e
<1>4. DLGood(e, r) /\ Only({"rx", "tx"}, q, r) /\ DLRaises(d, e, r)
  BY <1>1, <1>2, <1>3 DEF DLGood, Only, DLRaises, r
<1>5. DLTransmitEnd(d, q) = IF ~d.rdy /\ d.tx = "due" THEN [dev |-> e, q |-> r]
                                                       ELSE [dev |-> d, q |-> q]
  BY DEF DLTransmitEnd, After, e, r
<1> QED BY <1>4, <1>5 DEF DLDone, DLRaises, Only

\* So does a tick, whatever the host has waiting.
LEMMA DLTickDone ==
  ASSUME NEW d, NEW q, DLGood(d, q), NEW host_ \in BOOLEAN
  PROVE  DLDone(d, DLTick(d, q, host_), q)
<1> DEFINE t == DLTransmitEnd(d, q)
           e == [t.dev EXCEPT !.rdone = TRUE]
           r == RequestIf(d.rie, t.q, "rx")
<1>1. DLGood(t.dev, t.q) /\ Only({"rx", "tx"}, q, t.q) /\ DLRaises(d, t.dev, t.q)
  BY DLTransmitEndDone DEF DLDone
<1>2. t.dev.rie = d.rie /\ d.rie \in BOOLEAN
  BY DEF DLTransmitEnd, After, DLGood, DLStates
<1>3. DLTick(d, q, host_) = IF DLTakes(d, host_) THEN [dev |-> e, q |-> r] ELSE t
  BY DEF DLTick, After
<1> HIDE DEF t
<1>4. e \in DLStates /\ e.rie = d.rie /\ e.tie = t.dev.tie /\ e.rdy = t.dev.rdy /\ e.tx = t.dev.tx
  BY <1>1, <1>2 DEF DLGood, DLStates
<1>5. "rx" \in IoVectors /\ QueueOK(t.q)
  BY <1>1 DEF DLGood, IoVectors
<1>6. QueueOK(r) /\ \A w : w \in Pending(r) <=> w \in Pending(t.q) \/ (d.rie /\ w = "rx")
  BY <1>2, <1>5, RequestQ
<1> HIDE DEF r, e
<1>7. DLGood(e, r) /\ Only({"rx", "tx"}, q, r) /\ DLRaises(d, e, r)
  BY <1>1, <1>2, <1>4, <1>6 DEF DLGood, Only, DLRaises
<1> QED BY <1>1, <1>3, <1>7 DEF DLDone

\* An access to the DL11's registers.
LEMMA DLAccessDone ==
  ASSUME NEW d, NEW q, DLGood(d, q), NEW ie \in BOOLEAN, NEW host_ \in BOOLEAN
  PROVE  /\ DLDone(d, DLReadRcsr(d, q, host_), q)
         /\ DLDone(d, DLReadRbuf(d, q), q)
         /\ DLDone(d, DLWriteRcsr(d, q, ie), q)
         /\ DLDone(d, DLWriteXcsr(d, q, ie), q)
         /\ DLDone(d, DLWriteXbuf(d, q), q)
<1>1. d \in DLStates /\ QueueOK(q) /\ {"rx", "tx"} \subseteq IoVectors
  BY DEF DLGood, IoVectors
<1>2. DLDone(d, DLReadRcsr(d, q, host_), q)
  BY DEF DLDone, DLRaises, DLGood, DLReadRcsr, After, DLTakes, DLStates, Only
<1>3. DLDone(d, DLReadRbuf(d, q), q)
  BY DEF DLDone, DLRaises, DLGood, DLReadRbuf, After, DLStates, Only
<1>4. DLDone(d, DLWriteXbuf(d, q), q)
  BY DEF DLDone, DLRaises, DLGood, DLWriteXbuf, After, DLStates, Only, Deadlines
<1>5. DLDone(d, DLWriteRcsr(d, q, ie), q)
  <2> DEFINE up == ie /\ ~d.rie /\ d.rdone
             down == d.rie /\ ~ie
             r == RequestIf(up, q, "rx")
             s == CancelIf(down, r, "rx")
             e == [d EXCEPT !.rie = ie]
  <2>1. up \in BOOLEAN /\ down \in BOOLEAN /\ (down => ~up)
    OBVIOUS
  <2>2. QueueOK(r) /\ \A w : w \in Pending(r) <=> w \in Pending(q) \/ (up /\ w = "rx")
    BY <1>1, <2>1, RequestQ
  <2>3. QueueOK(s) /\ \A w : w \in Pending(s) <=> w \in Pending(r) /\ ~ (down /\ w = "rx")
    BY <2>1, <2>2, CancelIfQ
  <2>4. e \in DLStates /\ e.rie = ie /\ e.tie = d.tie /\ e.rdy = d.rdy /\ e.tx = d.tx
    BY <1>1 DEF DLStates
  <2>5. DLWriteRcsr(d, q, ie) = [dev |-> e, q |-> s]
    BY DEF DLWriteRcsr, After
  <2>6. "rx" \in Pending(s) => ie
    BY <1>1, <2>2, <2>3 DEF DLGood, DLStates
  <2> HIDE DEF r, s, e
  <2> QED BY <2>2, <2>3, <2>4, <2>5, <2>6 DEF DLDone, DLRaises, DLGood, Only
<1>6. DLDone(d, DLWriteXcsr(d, q, ie), q)
  <2> DEFINE up == ie /\ ~d.tie /\ d.rdy
             down == d.tie /\ ~ie
             r == RequestIf(up, q, "tx")
             s == CancelIf(down, r, "tx")
             e == [d EXCEPT !.tie = ie]
  <2>1. up \in BOOLEAN /\ down \in BOOLEAN /\ (down => ~up)
    OBVIOUS
  <2>2. QueueOK(r) /\ \A w : w \in Pending(r) <=> w \in Pending(q) \/ (up /\ w = "tx")
    BY <1>1, <2>1, RequestQ
  <2>3. QueueOK(s) /\ \A w : w \in Pending(s) <=> w \in Pending(r) /\ ~ (down /\ w = "tx")
    BY <2>1, <2>2, CancelIfQ
  <2>4. e \in DLStates /\ e.tie = ie /\ e.rie = d.rie /\ e.rdy = d.rdy /\ e.tx = d.tx
    BY <1>1 DEF DLStates
  <2>5. DLWriteXcsr(d, q, ie) = [dev |-> e, q |-> s]
    BY DEF DLWriteXcsr, After
  <2>6. "tx" \in Pending(s) => ie
    BY <1>1, <2>2, <2>3 DEF DLGood, DLStates
  <2> HIDE DEF r, s, e
  <2> QED BY <2>2, <2>3, <2>4, <2>5, <2>6 DEF DLDone, DLRaises, DLGood, Only
<1> QED BY <1>2, <1>3, <1>4, <1>5, <1>6

\* INIT clears the DL11's registers and withdraws both its requests.
LEMMA DLBusInitDone ==
  ASSUME NEW d, NEW q, QueueOK(q)
  PROVE  DLDone(d, DLBusInit(d, q), q)
<1> DEFINE r == Cancel(q, "rx")
           s == Cancel(r, "tx")
<1>1. QueueOK(r) /\ \A w : w \in Pending(r) <=> w \in Pending(q) /\ w # "rx"
  BY CancelQ
<1>2. QueueOK(s) /\ \A w : w \in Pending(s) <=> w \in Pending(r) /\ w # "tx"
  BY <1>1, CancelQ
<1>3. DLBusInit(d, q) = [dev |-> DLCleared, q |-> s]
  BY DEF DLBusInit, After
<1> HIDE DEF r, s
<1>4. DLGood(DLCleared, s) /\ DLRaises(d, DLCleared, s)
  BY <1>1, <1>2, DLClearedGood DEF DLRaises, DLCleared
<1> QED BY <1>1, <1>2, <1>3, <1>4 DEF DLDone, DLRaises, Only

\* The line clock: a tick, an access, INIT and a change of frequency.
LEMMA KWHandlersDone ==
  ASSUME NEW k, NEW q, KWGood(k, q), NEW ie \in BOOLEAN
  PROVE  /\ KWDone(KWTick(k, q), q)
         /\ KWDone(KWWrite(k, q, ie), q)
         /\ KWGood(KWSetHz(k), q)
<1>1. k \in KWStates /\ k.ie \in BOOLEAN /\ QueueOK(q) /\ "clk" \in IoVectors
  BY DEF KWGood, KWStates, IoVectors
<1>2. KWDone(KWTick(k, q), q)
  <2> DEFINE r == RequestIf(k.ie, q, "clk")
             e == [k EXCEPT !.edge = "ahead"]
  <2>1. QueueOK(r) /\ \A w : w \in Pending(r) <=> w \in Pending(q) \/ (k.ie /\ w = "clk")
    BY <1>1, RequestQ
  <2>2. e \in KWStates /\ e.ie = k.ie
    BY <1>1 DEF KWStates, Deadlines
  <2>3. KWTick(k, q) \in {[dev |-> e, q |-> q], [dev |-> e, q |-> r], [dev |-> k, q |-> q]}
    BY DEF KWTick, After
  <2> HIDE DEF r, e
  <2> QED BY <1>1, <2>1, <2>2, <2>3 DEF KWDone, KWGood, Only
<1>3. KWDone(KWWrite(k, q, ie), q)
  <2> DEFINE r == CancelIf(~ie, q, "clk")
             e == [k EXCEPT !.ie = ie]
  <2>1. QueueOK(r) /\ \A w : w \in Pending(r) <=> w \in Pending(q) /\ ~ (~ie /\ w = "clk")
    BY <1>1, CancelIfQ
  <2>2. e \in KWStates /\ e.ie = ie
    BY <1>1 DEF KWStates
  <2>3. KWWrite(k, q, ie) = [dev |-> e, q |-> r]
    BY DEF KWWrite, After
  <2> HIDE DEF r, e
  <2> QED BY <2>1, <2>2, <2>3 DEF KWDone, KWGood, Only
<1>4. KWGood(KWSetHz(k), q)
  BY DEF KWGood, KWSetHz, KWStates, Deadlines
<1> QED BY <1>2, <1>3, <1>4

\* INIT disables the clock's interrupt and withdraws its request.
LEMMA KWBusInitDone ==
  ASSUME NEW k \in KWStates, NEW q, QueueOK(q)
  PROVE  KWDone(KWBusInit(k, q), q)
<1> DEFINE r == Cancel(q, "clk")
           e == [k EXCEPT !.ie = FALSE]
<1>1. QueueOK(r) /\ \A w : w \in Pending(r) <=> w \in Pending(q) /\ w # "clk"
  BY CancelQ
<1>2. e \in KWStates
  BY DEF KWStates
<1>3. KWBusInit(k, q) = [dev |-> e, q |-> r]
  BY DEF KWBusInit, After
<1> HIDE DEF r, e
<1> QED BY <1>1, <1>2, <1>3 DEF KWDone, KWGood, Only

\* The end of a read: a byte or an error, and either requests.
LEMMA PCReaderEndDone ==
  ASSUME NEW p, NEW q, PCGood(p, q), NEW eof \in BOOLEAN
  PROVE  LET r == PCReaderEnd(p, q, eof)
         IN  /\ PCDone(p, r, q) /\ Only({"ptr"}, q, r.q)
             /\ r.dev.pdone = p.pdone /\ r.dev.pie = p.pie
<1> DEFINE r == RequestIf(p.rie, q, "ptr")
           e == [p EXCEPT !.rbusy = FALSE, !.rdone = TRUE, !.read = "none",
                          !.rerr = eof \/ ~p.tape]
<1>1. QueueOK(q) /\ p.rie \in BOOLEAN /\ "ptr" \in IoVectors
  BY DEF PCGood, PCStates, IoVectors
<1>2. QueueOK(r) /\ \A w : w \in Pending(r) <=> w \in Pending(q) \/ (p.rie /\ w = "ptr")
  BY <1>1, RequestQ
<1>3. /\ e \in PCStates /\ ~e.rbusy /\ e.rdone /\ e.read = "none" /\ e.rie = p.rie
      /\ e.holes = p.holes /\ e.pie = p.pie /\ e.pdone = p.pdone /\ e.perr = p.perr
      /\ e.punch = p.punch
  BY DEF PCGood, PCStates, Deadlines
<1>4. PCReaderEnd(p, q, eof) = IF p.rbusy /\ p.read = "due" THEN [dev |-> e, q |-> r]
                                                            ELSE [dev |-> p, q |-> q]
  BY DEF PCReaderEnd, After
<1> HIDE DEF r, e
<1>5. PCGood(e, r) /\ Only({"ptr", "ptp"}, q, r) /\ PCRaises(p, e, r)
  BY <1>1, <1>2, <1>3 DEF PCGood, PCRaises, Only
<1>6. Only({"ptr"}, q, r)
  BY <1>2 DEF Only
<1> QED BY <1>3, <1>4, <1>5, <1>6 DEF PCDone, PCRaises, Only

\* The end of a punch time, whether or not the byte was written.
LEMMA PCPunchEndDone ==
  ASSUME NEW p, NEW q, PCGood(p, q), NEW fails \in BOOLEAN
  PROVE  LET r == PCPunchEnd(p, q, fails)
         IN  /\ PCDone(p, r, q) /\ Only({"ptp"}, q, r.q)
             /\ r.dev.rdone = p.rdone /\ r.dev.rie = p.rie
<1> DEFINE r == RequestIf(p.pie, q, "ptp")
           e == [p EXCEPT !.pdone = TRUE, !.punch = "none", !.perr = fails \/ ~p.holes]
<1>1. QueueOK(q) /\ p.pie \in BOOLEAN /\ "ptp" \in IoVectors
  BY DEF PCGood, PCStates, IoVectors
<1>2. QueueOK(r) /\ \A w : w \in Pending(r) <=> w \in Pending(q) \/ (p.pie /\ w = "ptp")
  BY <1>1, RequestQ
<1>3. /\ e \in PCStates /\ e.pdone /\ e.punch = "none" /\ e.pie = p.pie
      /\ e.holes = p.holes /\ e.rie = p.rie /\ e.rdone = p.rdone /\ e.rerr = p.rerr
      /\ e.rbusy = p.rbusy /\ e.read = p.read
  BY DEF PCGood, PCStates, Deadlines
<1>4. PCPunchEnd(p, q, fails) = IF ~p.pdone /\ p.punch = "due" THEN [dev |-> e, q |-> r]
                                                               ELSE [dev |-> p, q |-> q]
  BY DEF PCPunchEnd, After
<1> HIDE DEF r, e
<1>5. PCGood(e, r) /\ Only({"ptr", "ptp"}, q, r) /\ PCRaises(p, e, r)
  BY <1>1, <1>2, <1>3 DEF PCGood, PCRaises, Only
<1>6. Only({"ptp"}, q, r)
  BY <1>2 DEF Only
<1> QED BY <1>3, <1>4, <1>5, <1>6 DEF PCDone, PCRaises, Only

\* A tick looks at the reader, then at the punch.
LEMMA PCTickDone ==
  ASSUME NEW p, NEW q, PCGood(p, q), NEW eof \in BOOLEAN, NEW fails \in BOOLEAN
  PROVE  PCDone(p, PCTick(p, q, eof, fails), q)
<1> DEFINE r == PCReaderEnd(p, q, eof)
           s == PCPunchEnd(r.dev, r.q, fails)
<1>1. PCDone(p, r, q) /\ Only({"ptr"}, q, r.q) /\ r.dev.pdone = p.pdone /\ r.dev.pie = p.pie
  BY PCReaderEndDone
<1> HIDE DEF r
<1>2. PCGood(r.dev, r.q)
  BY <1>1 DEF PCDone
<1>3. /\ PCDone(r.dev, s, r.q) /\ Only({"ptp"}, r.q, s.q)
      /\ s.dev.rdone = r.dev.rdone /\ s.dev.rie = r.dev.rie
  BY <1>2, PCPunchEndDone
<1>4. PCTick(p, q, eof, fails) = s
  BY DEF PCTick, r
<1> HIDE DEF s
<1>5. PCRaises(p, s.dev, s.q)
  <2>1. {"ptr", "ptp"} \subseteq IoVectors
    BY DEF IoVectors
  <2> QED BY <1>1, <1>3, <2>1 DEF PCDone, PCRaises, Only
<1> QED BY <1>1, <1>3, <1>4, <1>5 DEF PCDone, Only

\* Reading PRB takes the byte and withdraws the request for it.
LEMMA PCReadPrbDone ==
  ASSUME NEW p, NEW q, PCGood(p, q)
  PROVE  PCDone(p, PCReadPrb(p, q), q)
<1> DEFINE r == Cancel(q, "ptr")
           e == [p EXCEPT !.rdone = FALSE]
<1>1. QueueOK(r) /\ \A w : w \in Pending(r) <=> w \in Pending(q) /\ w # "ptr"
  BY CancelQ DEF PCGood
<1>2. /\ e \in PCStates /\ e.holes = p.holes /\ e.rbusy = p.rbusy /\ e.read = p.read
      /\ ~e.rdone /\ e.pie = p.pie /\ e.pdone = p.pdone /\ e.perr = p.perr /\ e.punch = p.punch
  BY DEF PCGood, PCStates
<1>3. PCReadPrb(p, q) = [dev |-> e, q |-> r]
  BY DEF PCReadPrb, After
<1> HIDE DEF r, e
<1> QED BY <1>1, <1>2, <1>3 DEF PCDone, PCRaises, PCGood, Only

\* Writing the reader's interrupt enable.
LEMMA PCEnableReaderDone ==
  ASSUME NEW p, NEW q, PCGood(p, q), NEW ie \in BOOLEAN
  PROVE  LET r == PCEnableReader(p, q, ie)
         IN  /\ PCDone(p, r, q) /\ Only({"ptr"}, q, r.q)
             /\ r.dev.pdone = p.pdone /\ r.dev.pie = p.pie
<1> DEFINE up == ie /\ ~p.rie /\ (p.rdone \/ p.rerr)
           down == p.rie /\ ~ie
           r == RequestIf(up, q, "ptr")
           s == CancelIf(down, r, "ptr")
           e == [p EXCEPT !.rie = ie]
<1>1. up \in BOOLEAN /\ down \in BOOLEAN /\ "ptr" \in IoVectors /\ QueueOK(q)
  BY DEF PCGood, IoVectors
<1>2. QueueOK(r) /\ \A w : w \in Pending(r) <=> w \in Pending(q) \/ (up /\ w = "ptr")
  BY <1>1, RequestQ
<1>3. QueueOK(s) /\ \A w : w \in Pending(s) <=> w \in Pending(r) /\ ~ (down /\ w = "ptr")
  BY <1>1, <1>2, CancelIfQ
<1>4. /\ e \in PCStates /\ e.rie = ie /\ e.rdone = p.rdone /\ e.rerr = p.rerr
      /\ e.holes = p.holes /\ e.rbusy = p.rbusy /\ e.read = p.read
      /\ e.pie = p.pie /\ e.pdone = p.pdone /\ e.perr = p.perr /\ e.punch = p.punch
  BY DEF PCGood, PCStates
<1>5. PCEnableReader(p, q, ie) = [dev |-> e, q |-> s]
  BY DEF PCEnableReader, After
<1>6. "ptr" \in Pending(s) => ie /\ (p.rdone \/ p.rerr)
  BY <1>2, <1>3 DEF PCGood, PCStates
<1> HIDE DEF r, s, e
<1> QED BY <1>2, <1>3, <1>4, <1>5, <1>6 DEF PCDone, PCRaises, PCGood, Only

\* GO: ignored while a read is under way, refused without a tape.
LEMMA PCGoDone ==
  ASSUME NEW p, NEW q, PCGood(p, q)
  PROVE  LET r == PCGo(p, q)
         IN  /\ PCDone(p, r, q) /\ Only({"ptr"}, q, r.q)
             /\ r.dev.pdone = p.pdone /\ r.dev.pie = p.pie
             /\ r = [dev |-> p, q |-> q] \/ (r.dev.rdone /\ r.dev.rie => "ptr" \in Pending(r.q))
<1> DEFINE started == [p EXCEPT !.rdone = FALSE, !.rerr = FALSE, !.rbusy = TRUE, !.read = "ahead"]
           refused == [p EXCEPT !.rdone = TRUE, !.rerr = TRUE]
           r == Cancel(q, "ptr")
           s == RequestIf(p.rie, r, "ptr")
<1>1. QueueOK(q) /\ p.rie \in BOOLEAN /\ "ptr" \in IoVectors
  BY DEF PCGood, PCStates, IoVectors
<1>2. QueueOK(r) /\ \A w : w \in Pending(r) <=> w \in Pending(q) /\ w # "ptr"
  BY <1>1, CancelQ
<1>3. QueueOK(s) /\ \A w : w \in Pending(s) <=> w \in Pending(r) \/ (p.rie /\ w = "ptr")
  BY <1>1, <1>2, RequestQ
<1>4. /\ started \in PCStates /\ started.rbusy /\ started.read = "ahead" /\ ~started.rdone
      /\ started.holes = p.holes /\ started.pie = p.pie /\ started.pdone = p.pdone
      /\ started.perr = p.perr /\ started.punch = p.punch
  BY DEF PCGood, PCStates, Deadlines
<1>5. /\ refused \in PCStates /\ refused.rdone /\ refused.rie = p.rie
      /\ refused.rbusy = p.rbusy /\ refused.read = p.read
      /\ refused.holes = p.holes /\ refused.pie = p.pie /\ refused.pdone = p.pdone
      /\ refused.perr = p.perr /\ refused.punch = p.punch
  BY DEF PCGood, PCStates
<1>6. PCGo(p, q) \in {[dev |-> p, q |-> q], [dev |-> started, q |-> r], [dev |-> refused, q |-> s]}
  BY DEF PCGo, After
<1> HIDE DEF started, refused, r, s
<1>7. PCGood(started, r) /\ Only({"ptr"}, q, r)
  BY <1>2, <1>4 DEF PCGood, Only
<1>8. PCGood(refused, s) /\ Only({"ptr"}, q, s) /\ (refused.rie => "ptr" \in Pending(s))
  BY <1>2, <1>3, <1>5 DEF PCGood, Only
<1>9. Only({"ptr"}, q, q)
  BY DEF Only
<1>10. \A x : Only({"ptr"}, q, x) => Only({"ptr", "ptp"}, q, x)
  BY DEF Only
<1>11. PCRaises(p, started, r) /\ PCRaises(p, refused, s) /\ PCRaises(p, p, q)
  BY <1>4, <1>5, <1>8 DEF PCRaises
<1> QED BY <1>4, <1>5, <1>6, <1>7, <1>8, <1>9, <1>10, <1>11 DEF PCDone

\* Writing PRS: the interrupt enable first, then GO.
LEMMA PCWritePrsDone ==
  ASSUME NEW p, NEW q, PCGood(p, q), NEW ie \in BOOLEAN, NEW go \in BOOLEAN
  PROVE  PCDone(p, PCWritePrs(p, q, ie, go), q)
<1> DEFINE e == PCEnableReader(p, q, ie)
           g == PCGo(e.dev, e.q)
<1>1. PCDone(p, e, q) /\ e.dev.pdone = p.pdone /\ e.dev.pie = p.pie
  BY PCEnableReaderDone
<1>2. PCWritePrs(p, q, ie, go) = IF go THEN g ELSE e
  BY DEF PCWritePrs
<1> HIDE DEF e
<1>3. PCGood(e.dev, e.q)
  BY <1>1 DEF PCDone
<1>4. /\ PCDone(e.dev, g, e.q)
      /\ g.dev.pdone = e.dev.pdone /\ g.dev.pie = e.dev.pie
      /\ g = [dev |-> e.dev, q |-> e.q] \/ (g.dev.rdone /\ g.dev.rie => "ptr" \in Pending(g.q))
  BY <1>3, PCGoDone
<1> HIDE DEF g
<1>5. PCRaises(p, g.dev, g.q)
  <2>1. PCRaises(p, e.dev, e.q) /\ PCRaises(e.dev, g.dev, g.q)
    BY <1>1, <1>4 DEF PCDone
  <2> QED BY <1>1, <1>4, <2>1 DEF PCRaises
<1> QED BY <1>1, <1>2, <1>4, <1>5 DEF PCDone, Only

\* Writing the punch's interrupt enable.
LEMMA PCWritePpsDone ==
  ASSUME NEW p, NEW q, PCGood(p, q), NEW ie \in BOOLEAN
  PROVE  PCDone(p, PCWritePps(p, q, ie), q)
<1> DEFINE up == ie /\ ~p.pie /\ (p.pdone \/ p.perr)
           down == p.pie /\ ~ie
           r == RequestIf(up, q, "ptp")
           s == CancelIf(down, r, "ptp")
           e == [p EXCEPT !.pie = ie]
<1>1. up \in BOOLEAN /\ down \in BOOLEAN /\ "ptp" \in IoVectors /\ QueueOK(q)
  BY DEF PCGood, IoVectors
<1>2. QueueOK(r) /\ \A w : w \in Pending(r) <=> w \in Pending(q) \/ (up /\ w = "ptp")
  BY <1>1, RequestQ
<1>3. QueueOK(s) /\ \A w : w \in Pending(s) <=> w \in Pending(r) /\ ~ (down /\ w = "ptp")
  BY <1>1, <1>2, CancelIfQ
<1>4. /\ e \in PCStates /\ e.pie = ie /\ e.pdone = p.pdone /\ e.perr = p.perr
      /\ e.holes = p.holes /\ e.rbusy = p.rbusy /\ e.read = p.read
      /\ e.rie = p.rie /\ e.rdone = p.rdone /\ e.rerr = p.rerr /\ e.punch = p.punch
  BY DEF PCGood, PCStates
<1>5. PCWritePps(p, q, ie) = [dev |-> e, q |-> s]
  BY DEF PCWritePps, After
<1>6. "ptp" \in Pending(s) => ie /\ (p.pdone \/ p.perr)
  BY <1>2, <1>3 DEF PCGood, PCStates
<1> HIDE DEF r, s, e
<1> QED BY <1>2, <1>3, <1>4, <1>5, <1>6 DEF PCDone, PCRaises, PCGood, Only

\* Writing PPB starts a punch time, or with no file attached fails at once.
LEMMA PCWritePpbDone ==
  ASSUME NEW p, NEW q, PCGood(p, q)
  PROVE  PCDone(p, PCWritePpb(p, q), q)
<1> DEFINE started == [p EXCEPT !.pdone = FALSE, !.punch = "ahead"]
           failed == [p EXCEPT !.pdone = TRUE, !.perr = TRUE]
           r == Cancel(q, "ptp")
           s == RequestIf(p.pie, r, "ptp")
<1>1. QueueOK(q) /\ p.pie \in BOOLEAN /\ "ptp" \in IoVectors
  BY DEF PCGood, PCStates, IoVectors
<1>2. QueueOK(r) /\ \A w : w \in Pending(r) <=> w \in Pending(q) /\ w # "ptp"
  BY <1>1, CancelQ
<1>3. QueueOK(s) /\ \A w : w \in Pending(s) <=> w \in Pending(r) \/ (p.pie /\ w = "ptp")
  BY <1>1, <1>2, RequestQ
<1>4. /\ started \in PCStates /\ ~started.pdone /\ started.punch = "ahead"
      /\ started.holes = p.holes /\ started.rie = p.rie /\ started.rdone = p.rdone
      /\ started.rerr = p.rerr /\ started.rbusy = p.rbusy /\ started.read = p.read
  BY DEF PCGood, PCStates, Deadlines
<1>5. /\ failed \in PCStates /\ failed.pdone /\ failed.pie = p.pie /\ failed.punch = p.punch
      /\ failed.holes = p.holes /\ failed.rie = p.rie /\ failed.rdone = p.rdone
      /\ failed.rerr = p.rerr /\ failed.rbusy = p.rbusy /\ failed.read = p.read
  BY DEF PCGood, PCStates
<1>6. PCWritePpb(p, q) = IF p.holes THEN [dev |-> started, q |-> r] ELSE [dev |-> failed, q |-> s]
  BY DEF PCWritePpb, After
<1> HIDE DEF started, failed, r, s
<1>7. p.holes => PCGood(started, r) /\ Only({"ptr", "ptp"}, q, r) /\ PCRaises(p, started, r)
  BY <1>2, <1>4 DEF PCGood, Only, PCRaises
<1>8. ~p.holes => PCGood(failed, s) /\ Only({"ptr", "ptp"}, q, s) /\ PCRaises(p, failed, s)
  BY <1>2, <1>3, <1>5 DEF PCGood, Only, PCRaises
<1> QED BY <1>6, <1>7, <1>8 DEF PCDone

\* INIT stops reader and punch and withdraws both requests; the files stay.
LEMMA PCBusInitDone ==
  ASSUME NEW p \in PCStates, NEW q, QueueOK(q)
  PROVE  PCDone(p, PCBusInit(p, q), q)
<1> DEFINE r == Cancel(q, "ptr")
           s == Cancel(r, "ptp")
           e == [PCPowerOn(p.tape, p.holes) EXCEPT !.rerr = p.rerr, !.perr = p.perr]
<1>1. QueueOK(r) /\ \A w : w \in Pending(r) <=> w \in Pending(q) /\ w # "ptr"
  BY CancelQ
<1>2. QueueOK(s) /\ \A w : w \in Pending(s) <=> w \in Pending(r) /\ w # "ptp"
  BY <1>1, CancelQ
<1>3. /\ e \in PCStates /\ ~e.rbusy /\ e.read = "none" /\ e.pdone /\ e.punch = "none"
      /\ ~e.rie /\ ~e.pie
  BY DEF PCPowerOn, PCStates, Deadlines
<1>4. PCBusInit(p, q) = [dev |-> e, q |-> s]
  BY DEF PCBusInit, After
<1> HIDE DEF r, s, e
<1> QED BY <1>1, <1>2, <1>3, <1>4 DEF PCDone, PCRaises, PCGood, Only

-----------------------------------------------------------------------------
(* The system *)

\* The invariant, inductive: the CPU's part, and each device's.
CpuOK ==
  /\ used \in SUBSET IoVectors
  /\ host \in BOOLEAN /\ running \in BOOLEAN
  /\ ipl \in 0..7 /\ vector \in IoVectors \cup {None}

\* A flag that meets its enable in this step requests an interrupt.
Raised == DLRaises(dl, dl', queue') /\ PCRaises(pc, pc', queue')

IInv == CpuOK /\ DLGood(dl, queue) /\ KWGood(kw, queue) /\ PCGood(pc, queue)

\* A device whose registers and requests stay keeps its part.
LEMMA Untouched ==
  ASSUME NEW q, NEW r, QueueOK(r)
  PROVE  /\ \A d : DLGood(d, q) /\ (\A v \in {"rx", "tx"} : v \in Pending(r) => v \in Pending(q))
                   => DLGood(d, r)
         /\ \A k : KWGood(k, q) /\ ("clk" \in Pending(r) => "clk" \in Pending(q))
                   => KWGood(k, r)
         /\ \A p : PCGood(p, q) /\ (\A v \in {"ptr", "ptp"} : v \in Pending(r) => v \in Pending(q))
                   => PCGood(p, r)
BY DEF DLGood, KWGood, PCGood

\* A handler that keeps its own device's part keeps the others' too.
LEMMA HandlerInv ==
  ASSUME NEW d, NEW k, NEW p, NEW q, DLGood(d, q), KWGood(k, q), PCGood(p, q), NEW r
  PROVE  /\ DLDone(d, r, q) => KWGood(k, r.q) /\ PCGood(p, r.q)
         /\ KWDone(r, q) => DLGood(d, r.q) /\ PCGood(p, r.q)
         /\ PCDone(p, r, q) => DLGood(d, r.q) /\ KWGood(k, r.q)
<1>1. ASSUME DLDone(d, r, q) PROVE KWGood(k, r.q) /\ PCGood(p, r.q)
  <2>1. QueueOK(r.q) /\ \A v \in {"clk", "ptr", "ptp"} : v \in Pending(r.q) => v \in Pending(q)
    BY <1>1 DEF DLDone, DLGood, Only, IoVectors
  <2> QED BY <2>1, Untouched
<1>2. ASSUME KWDone(r, q) PROVE DLGood(d, r.q) /\ PCGood(p, r.q)
  <2>1. QueueOK(r.q) /\ \A v \in {"rx", "tx", "ptr", "ptp"} : v \in Pending(r.q) => v \in Pending(q)
    BY <1>2 DEF KWDone, KWGood, Only, IoVectors
  <2> QED BY <2>1, Untouched
<1>3. ASSUME PCDone(p, r, q) PROVE DLGood(d, r.q) /\ KWGood(k, r.q)
  <2>1. QueueOK(r.q) /\ \A v \in {"rx", "tx", "clk"} : v \in Pending(r.q) => v \in Pending(q)
    BY <1>3 DEF PCDone, PCGood, Only, IoVectors
  <2> QED BY <2>1, Untouched
<1> QED BY <1>1, <1>2, <1>3

\* At power-on every device is idle and nothing is pending.
LEMMA InitInv == Init => IInv
<1> SUFFICES ASSUME Init PROVE IInv
  OBVIOUS
<1>1. PICK s \in Sites : used = s.used /\ pc = PCPowerOn(s.tape, s.punchFile)
  BY DEF Init
<1>2. s.used \in SUBSET IoVectors /\ s.tape \in BOOLEAN /\ s.punchFile \in BOOLEAN
  BY SitesAssumption
<1>3. QueueOK(<<>>) /\ Pending(<<>>) = {} /\ queue = <<>>
  BY DEF Init, QueueOK, NoDuplicates, Pending
<1>4. DLGood(dl, queue)
  BY <1>3, DLClearedGood DEF Init
<1>5. KWGood(kw, queue)
  BY <1>3 DEF Init, KWGood, KWPowerOn, KWStates, Deadlines
<1>6. PCGood(pc, queue)
  BY <1>1, <1>2, <1>3 DEF PCGood, PCPowerOn, PCStates, Deadlines
<1>7. CpuOK
  <2>1. host = FALSE /\ ipl = 7 /\ vector = None /\ running = TRUE
    BY DEF Init
  <2>2. 7 \in 0..7
    OBVIOUS
  <2> QED BY <1>1, <1>2, <2>1, <2>2 DEF CpuOK
<1> QED BY <1>4, <1>5, <1>6, <1>7 DEF IInv

\* Without a change of flag or enable nothing rises.
LEMMA NoRise ==
  /\ \A d, e, r : e.rdy = d.rdy /\ e.tie = d.tie => DLRaises(d, e, r)
  /\ \A p, e, r : /\ e.rdone = p.rdone /\ e.rie = p.rie
                 /\ e.pdone = p.pdone /\ e.pie = p.pie => PCRaises(p, e, r)
BY DEF DLRaises, PCRaises

\* A register access, by the program or by the console.
LEMMA ProgramInv ==
  ASSUME IInv, Program
  PROVE  IInv' /\ Raised
<1>1. DLGood(dl, queue) /\ KWGood(kw, queue) /\ PCGood(pc, queue) /\ CpuOK
  BY DEF IInv
<1>2. host' \in BOOLEAN /\ UNCHANGED cpu
  BY DEF Program, ReadRcsr, ReadRbuf, ReadXcsr, WriteRcsr, WriteXcsr, WriteXbuf, WriteLks,
         ReadPrs, ReadPrb, WritePrs, ReadPps, WritePps, WritePpb, DL, KW, PC, CpuOK, IInv
<1>3. CpuOK'
  BY <1>1, <1>2 DEF CpuOK, cpu
<1>4. ASSUME NEW r, DL(r), DLDone(dl, r, queue) PROVE IInv' /\ Raised
  BY <1>1, <1>3, <1>4, HandlerInv, NoRise DEF IInv, DL, DLDone, Raised
<1>5. ASSUME NEW r, KW(r), KWDone(r, queue) PROVE IInv' /\ Raised
  BY <1>1, <1>3, <1>5, HandlerInv, NoRise DEF IInv, KW, KWDone, Raised
<1>6. ASSUME NEW r, PC(r), PCDone(pc, r, queue) PROVE IInv' /\ Raised
  BY <1>1, <1>3, <1>6, HandlerInv, NoRise DEF IInv, PC, PCDone, Raised
<1>7. CASE ReadRcsr
  BY <1>1, <1>4, <1>7, DLAccessDone DEF ReadRcsr, CpuOK
<1>8. CASE ReadRbuf \/ WriteXbuf
  BY <1>1, <1>4, <1>8, DLAccessDone DEF ReadRbuf, WriteXbuf, CpuOK
<1>9. CASE ReadXcsr
  BY <1>1, <1>4, <1>9, DLTransmitEndDone DEF ReadXcsr
<1>10. CASE WriteRcsr \/ WriteXcsr
  BY <1>1, <1>4, <1>10, DLAccessDone DEF WriteRcsr, WriteXcsr, CpuOK
<1>11. CASE WriteLks
  BY <1>1, <1>5, <1>11, KWHandlersDone DEF WriteLks
<1>12. CASE ReadPrs
  BY <1>1, <1>6, <1>12, PCReaderEndDone DEF ReadPrs
<1>13. CASE ReadPrb
  BY <1>1, <1>6, <1>13, PCReadPrbDone DEF ReadPrb
<1>14. CASE WritePrs
  BY <1>1, <1>6, <1>14, PCWritePrsDone DEF WritePrs
<1>15. CASE ReadPps
  BY <1>1, <1>6, <1>15, PCPunchEndDone DEF ReadPps
<1>16. CASE WritePps
  BY <1>1, <1>6, <1>16, PCWritePpsDone DEF WritePps
<1>17. CASE WritePpb
  BY <1>1, <1>6, <1>17, PCWritePpbDone DEF WritePpb
<1> QED BY <1>7, <1>8, <1>9, <1>10, <1>11, <1>12, <1>13, <1>14, <1>15, <1>16, <1>17 DEF Program

\* INIT, receiver after receiver, leaves every device's part in order.
LEMMA InitialisedInv ==
  ASSUME IInv
  PROVE  /\ DLGood(Initialised[1].dev, Initialised[3].q)
         /\ KWGood(Initialised[2].dev, Initialised[3].q)
         /\ PCGood(Initialised[3].dev, Initialised[3].q)
<1> DEFINE d == DLBusInit(dl, queue)
           k == KWBusInit(kw, d.q)
           p == PCBusInit(pc, k.q)
<1>1. DLGood(dl, queue) /\ KWGood(kw, queue) /\ PCGood(pc, queue)
  BY DEF IInv
<1>2. Initialised = <<d, k, p>>
  BY DEF Initialised
<1>3. DLDone(dl, d, queue)
  BY <1>1, DLBusInitDone DEF DLGood
<1> HIDE DEF d
<1>4. DLGood(d.dev, d.q) /\ KWGood(kw, d.q) /\ PCGood(pc, d.q)
  BY <1>1, <1>3, HandlerInv DEF DLDone
<1>5. KWDone(k, d.q)
  BY <1>4, KWBusInitDone DEF KWGood
<1> HIDE DEF k
<1>6. DLGood(d.dev, k.q) /\ KWGood(k.dev, k.q) /\ PCGood(pc, k.q)
  BY <1>4, <1>5, HandlerInv DEF KWDone
<1>7. PCDone(pc, p, k.q)
  BY <1>6, PCBusInitDone DEF PCGood
<1> HIDE DEF p
<1>8. DLGood(d.dev, p.q) /\ KWGood(k.dev, p.q) /\ PCGood(p.dev, p.q)
  BY <1>6, <1>7, HandlerInv DEF PCDone
<1> QED BY <1>2, <1>8

\* The device tick of the run loop: the three handlers, one after the other.
LEMMA TickInv ==
  ASSUME IInv, Tick
  PROVE  IInv' /\ Raised
<1>1. DLGood(dl, queue) /\ KWGood(kw, queue) /\ PCGood(pc, queue) /\ CpuOK /\ host \in BOOLEAN
  BY DEF IInv, CpuOK
<1>2. PICK eof \in BOOLEAN, fails \in BOOLEAN :
        LET d == DLTick(dl, queue, host)
            k == KWTick(kw, d.q)
            p == PCTick(pc, k.q, eof, fails)
        IN  dl' = d.dev /\ kw' = k.dev /\ pc' = p.dev /\ queue' = p.q
  BY DEF Tick
<1> DEFINE d == DLTick(dl, queue, host)
           k == KWTick(kw, d.q)
           p == PCTick(pc, k.q, eof, fails)
<1>3. dl' = d.dev /\ kw' = k.dev /\ pc' = p.dev /\ queue' = p.q
  BY <1>2
<1>4. DLDone(dl, d, queue)
  BY <1>1, DLTickDone
<1> HIDE DEF d
<1>5. DLGood(d.dev, d.q) /\ KWGood(kw, d.q) /\ PCGood(pc, d.q)
  BY <1>1, <1>4, HandlerInv DEF DLDone
<1>6. KWDone(k, d.q)
  BY <1>5, KWHandlersDone
<1> HIDE DEF k
<1>7. DLGood(d.dev, k.q) /\ KWGood(k.dev, k.q) /\ PCGood(pc, k.q)
  BY <1>5, <1>6, HandlerInv DEF KWDone
<1>8. PCDone(pc, p, k.q)
  BY <1>7, PCTickDone
<1> HIDE DEF p
<1>9. DLGood(d.dev, p.q) /\ KWGood(k.dev, p.q) /\ PCGood(p.dev, p.q)
  BY <1>7, <1>8, HandlerInv DEF PCDone
<1>10. CpuOK'
  BY <1>1 DEF Tick, CpuOK, cpu
<1>11. DLRaises(dl, d.dev, p.q) /\ PCRaises(pc, p.dev, p.q)
  <2>1. DLRaises(dl, d.dev, d.q) /\ PCRaises(pc, p.dev, p.q)
    BY <1>4, <1>8 DEF DLDone, PCDone
  <2>2. "tx" \in IoVectors
    BY DEF IoVectors
  <2>3. "tx" \in Pending(d.q) => "tx" \in Pending(p.q)
    BY <1>6, <1>8, <2>2 DEF KWDone, PCDone, Only
  <2> QED BY <2>1, <2>3 DEF DLRaises
<1> QED BY <1>3, <1>9, <1>10, <1>11 DEF IInv, Raised

\* Every step keeps the invariant.
LEMMA StepInv ==
  ASSUME IInv, [Next]_vars
  PROVE  IInv'
<1>1. DLGood(dl, queue) /\ KWGood(kw, queue) /\ PCGood(pc, queue) /\ CpuOK
  BY DEF IInv
<1>2. CASE Program
  BY <1>2, ProgramInv
<1>3. CASE Service
  <2> DEFINE i == FirstGrantable(queue, ipl)
  <2>1. QueueOK(queue) /\ Grantable(queue, ipl) # {}
    BY <1>1, <1>3 DEF DLGood, Service
  <2>2. /\ QueueOK(SwapOut(queue, i)) /\ queue[i] \in IoVectors
        /\ \A w : w \in Pending(SwapOut(queue, i)) <=> w \in Pending(queue) /\ w # queue[i]
    BY <2>1, GrantQ
  <2>3. /\ vector' = queue[i] /\ queue' = SwapOut(queue, i)
        /\ UNCHANGED <<used, dl, kw, pc, host, ipl, running>>
    BY <1>3 DEF Service
  <2> HIDE DEF i
  <2>4. QueueOK(queue') /\ \A w : w \in Pending(queue') => w \in Pending(queue)
    BY <2>2, <2>3
  <2>5. DLGood(dl, queue') /\ KWGood(kw, queue') /\ PCGood(pc, queue')
    BY <1>1, <2>4, Untouched
  <2>6. CpuOK'
    BY <1>1, <2>2, <2>3 DEF CpuOK
  <2> QED BY <2>3, <2>5, <2>6 DEF IInv
<1>4. CASE LoadVectorPsw \/ LoadPsw \/ Halt \/ Continue \/ HostTypes
  <2>1. UNCHANGED <<dl, kw, pc, queue>>
    BY <1>4 DEF LoadVectorPsw, LoadPsw, Halt, Continue, HostTypes
  <2>2. CpuOK'
    BY <1>1, <1>4, PrioritiesAssumption DEF CpuOK, LoadVectorPsw, LoadPsw, Halt, Continue, HostTypes
  <2> QED BY <1>1, <2>1, <2>2 DEF IInv
<1>5. CASE BusInit
  BY <1>1, <1>5, InitialisedInv DEF BusInit, IInv, CpuOK
<1>6. CASE Boot
  <2>1. QueueOK(<<>>) /\ Pending(<<>>) = {}
    BY DEF QueueOK, NoDuplicates, Pending
  <2>2. /\ DLGood(Initialised[1].dev, <<>>) /\ KWGood(Initialised[2].dev, <<>>)
        /\ PCGood(Initialised[3].dev, <<>>)
    BY <2>1, InitialisedInv, Untouched
  <2>3. CpuOK'
    BY <1>1, <1>6, PrioritiesAssumption DEF Boot, CpuOK
  <2> QED BY <1>6, <2>2, <2>3 DEF Boot, IInv
<1>7. CASE Tick
  BY <1>7, TickInv
<1>8. CASE Idle
  <2> DEFINE d == DLTick(dl, queue, host)
  <2>1. DLDone(dl, d, queue)
    BY <1>1, DLTickDone DEF CpuOK
  <2>2. /\ dl' = d.dev /\ queue' = d.q /\ UNCHANGED <<kw, pc>> /\ UNCHANGED cpu
        /\ host' = (host /\ ~DLTakes(dl, host))
    BY <1>8 DEF Idle, DL
  <2> HIDE DEF d
  <2>3. DLGood(d.dev, d.q) /\ KWGood(kw, d.q) /\ PCGood(pc, d.q)
    BY <1>1, <2>1, HandlerInv DEF DLDone
  <2>4. CpuOK'
    BY <1>1, <2>2 DEF CpuOK, cpu
  <2> QED BY <2>2, <2>3, <2>4 DEF IInv
<1>9. CASE TransmitTime
  <2>1. DLGood(dl', queue)
    BY <1>1, <1>9 DEF TransmitTime, DLGood, DLStates, Deadlines
  <2> QED BY <1>1, <1>9, <2>1 DEF TransmitTime, IInv, CpuOK
<1>10. CASE LineEdge
  <2>1. KWGood(kw', queue)
    BY <1>1, <1>10 DEF LineEdge, KWGood, KWStates, Deadlines
  <2> QED BY <1>1, <1>10, <2>1 DEF LineEdge, IInv, CpuOK
<1>11. CASE ReaderTime \/ PunchTime
  <2>1. PCGood(pc', queue)
    BY <1>1, <1>11 DEF ReaderTime, PunchTime, PCGood, PCStates, Deadlines
  <2> QED BY <1>1, <1>11, <2>1 DEF ReaderTime, PunchTime, IInv, CpuOK
<1>12. CASE SetHz
  BY <1>1, <1>12, KWHandlersDone DEF SetHz, IInv, CpuOK
<1>13. CASE UNCHANGED vars
  BY <1>1, <1>13 DEF vars, IInv, CpuOK
<1> QED BY <1>2, <1>3, <1>4, <1>5, <1>6, <1>7, <1>8, <1>9, <1>10, <1>11, <1>12, <1>13 DEF Next, Clock

\* In every step a flag that meets its enable requests an interrupt.
LEMMA StepRaised ==
  ASSUME IInv, [Next]_vars
  PROVE  Raised
<1>1. CASE Program \/ Tick
  BY <1>1, ProgramInv, TickInv
<1>2. CASE Idle
  <2> DEFINE d == DLTick(dl, queue, host)
  <2>1. DLDone(dl, d, queue)
    BY DLTickDone DEF IInv, CpuOK
  <2>2. dl' = d.dev /\ queue' = d.q /\ pc' = pc
    BY <1>2 DEF Idle, DL
  <2> HIDE DEF d
  <2> QED BY <2>1, <2>2, NoRise DEF DLDone, Raised
<1>3. CASE BusInit \/ Boot
  <2>1. dl' = Initialised[1].dev /\ pc' = Initialised[3].dev
    BY <1>3 DEF BusInit, Boot
  <2>2. dl'.tie = FALSE
    BY <2>1 DEF Initialised, DLBusInit, DLCleared, After
  <2>3. pc'.rie = FALSE /\ pc'.pie = FALSE
    BY <2>1 DEF Initialised, PCBusInit, PCPowerOn, After
  <2> QED BY <2>2, <2>3 DEF Raised, DLRaises, PCRaises
<1>4. CASE Service \/ LoadVectorPsw \/ LoadPsw \/ Halt \/ Continue \/ HostTypes \/ SetHz
           \/ LineEdge \/ UNCHANGED vars
  <2>1. UNCHANGED <<dl, pc>>
    BY <1>4 DEF Service, LoadVectorPsw, LoadPsw, Halt, Continue, HostTypes, SetHz, LineEdge, vars
  <2> QED BY <2>1, NoRise DEF Raised
<1>5. CASE TransmitTime
  <2>1. dl'.rdy = dl.rdy /\ dl'.tie = dl.tie /\ pc' = pc
    BY <1>5 DEF TransmitTime, IInv, DLGood, DLStates
  <2> QED BY <2>1, NoRise DEF Raised
<1>6. CASE ReaderTime \/ PunchTime
  <2>1. /\ dl' = dl /\ pc'.rdone = pc.rdone /\ pc'.rie = pc.rie
        /\ pc'.pdone = pc.pdone /\ pc'.pie = pc.pie
    BY <1>6 DEF ReaderTime, PunchTime, IInv, PCGood, PCStates
  <2> QED BY <2>1, NoRise DEF Raised
<1> QED BY <1>1, <1>2, <1>3, <1>4, <1>5, <1>6 DEF Next, Clock

\* The invariant holds in every reachable state.
LEMMA IInvAlways == Spec => []IInv
BY InitInv, StepInv, PTL DEF Spec

\* Type correctness: registers, queue and CPU keep their types, and the queue
\* never outgrows the eight places of int.c.
THEOREM TypeCorrect == Spec => []TypeOK
<1>1. IInv => TypeOK
  BY DEF IInv, CpuOK, DLGood, KWGood, PCGood, QueueOK, TypeOK
<1> QED BY <1>1, IInvAlways, PTL

\* No handler leaves a request pending that its device no longer wants.
THEOREM Justified == Spec => []RequestsJustified
<1>1. IInv => RequestsJustified
  BY DEF IInv, DLGood, KWGood, PCGood, RequestsJustified
<1> QED BY <1>1, IInvAlways, PTL

\* A device is busy exactly as long as it has a deadline.
THEOREM BusyUntilDeadline == Spec => []BusyHasDeadline
<1>1. IInv => BusyHasDeadline
  BY DEF IInv, DLGood, PCGood, BusyHasDeadline
<1> QED BY <1>1, IInvAlways, PTL

\* The flag AND its enable clock the request flip-flop: when they become true
\* together, in whatever order and by whichever handler, the request is pending.
THEOREM FlagsRequest == Spec => FlagAndEnableRequest
<1>1. IInv /\ [Next]_vars =>
        [/\ Rises(dl.rdy /\ dl.tie, dl'.rdy /\ dl'.tie, "tx")
         /\ Rises(pc.rdone /\ pc.rie, pc'.rdone /\ pc'.rie, "ptr")
         /\ Rises(pc.pdone /\ pc.pie, pc'.pdone /\ pc'.pie, "ptp")]_vars
  BY StepRaised DEF Raised, DLRaises, PCRaises, Rises
<1> QED BY <1>1, IInvAlways, PTL DEF Spec, FlagAndEnableRequest
=============================================================================
