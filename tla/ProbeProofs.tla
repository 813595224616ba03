---------------------------- MODULE ProbeProofs -----------------------------
(***************************************************************************)
(* Proofs about the logic analyzer, for rings of any sizes, any dividers,  *)
(* trigger positions and sample values, and any width of the counters that *)
(* is a multiple of the ring and at least twice as large.                  *)
(***************************************************************************)
EXTENDS Alone, IntControllerProofs, MachineRunProofs, SequenceTheorems, TLAPS

-----------------------------------------------------------------------------
(* Remainders *)

\* Quotient and remainder.
LEMMA ModFacts ==
  ASSUME NEW a \in Int, NEW d \in Nat \ {0}
  PROVE a % d \in 0..(d-1) /\ a \div d \in Int /\ a = d * (a \div d) + (a % d)
OBVIOUS

\* They are the only ones.
LEMMA ModUnique ==
  ASSUME NEW a \in Int, NEW d \in Nat \ {0}, NEW q \in Int, NEW r \in 0..(d-1), a = d*q + r
  PROVE a % d = r
<1>1. a % d \in 0..(d-1) /\ a \div d \in Int /\ a = d * (a \div d) + (a % d) BY ModFacts
<1>2. d*(q - (a \div d)) = (a % d) - r BY <1>1
<1>3. CASE q - (a \div d) >= 1
  <2>1. d*(q - (a \div d)) >= d BY <1>1, <1>3
  <2> QED BY <1>1,<1>2, <2>1
<1>4. CASE q - (a \div d) <= -1
  <2>1. d*(q - (a \div d)) <= -d BY <1>1, <1>4
  <2> QED BY <1>1,<1>2, <2>1
<1>5. CASE q = a \div d
  BY <1>1,<1>5
<1> QED BY <1>1, <1>3,<1>4,<1>5

\* Less than d apart, two numbers have different places in a ring of d.
LEMMA ModNear ==
  ASSUME NEW a \in Nat, NEW d \in Nat \ {0}, NEW b \in Nat, a < b, b < a + d
  PROVE a % d # b % d
<1> SUFFICES ASSUME a % d = b % d PROVE FALSE OBVIOUS
<1>1. /\ a \div d \in Int /\ a = d * (a \div d) + (a % d) /\ a % d \in Int
      /\ b \div d \in Int /\ b = d * (b \div d) + (b % d) /\ b % d \in Int
  BY ModFacts
<1>2. d * ((b \div d) - (a \div d)) = b - a BY <1>1
<1>3. CASE (b \div d) - (a \div d) >= 1
  <2>1. d*((b \div d) - (a \div d)) >= d BY <1>1, <1>3
  <2> QED BY <1>1,<1>2, <2>1
<1>4. CASE (b \div d) - (a \div d) <= 0
  <2>1. d*((b \div d) - (a \div d)) <= 0 BY <1>1, <1>4
  <2> QED BY <1>1,<1>2, <2>1
<1> QED BY <1>1, <1>3,<1>4

\* The place of the entry at, counted from where the next write goes, in a full
\* ring whose oldest entry is first: what the CLI subtracts.
LEMMA RingPlace ==
  ASSUME NEW first \in Nat, NEW d \in Nat \ {0}, NEW at \in 0..(d-1)
  PROVE (((first + at) % d) + d - ((first + d) % d)) % d = at
<1> DEFINE x == first + at
           y == first + d
<1>1. /\ x \div d \in Int /\ x = d * (x \div d) + (x % d) /\ x % d \in Int
      /\ y \div d \in Int /\ y = d * (y \div d) + (y % d) /\ y % d \in Int
  BY ModFacts
<1> DEFINE n == (x % d) + d - (y % d)
           q == (y \div d) - (x \div d)
<1>2. n = x - d * (x \div d) + d - (y - d * (y \div d))
  BY <1>1
<1>3. n = d * q + at
  <2> DEFINE X == d * (x \div d)
             Y == d * (y \div d)
  <2>1. X \in Int /\ Y \in Int /\ d * q = Y - X
    BY <1>1
  <2>2. n = x - X + d - (y - Y) /\ x \in Int /\ y \in Int /\ x - y = at - d
    BY <1>2
  <2> HIDE DEF n, q, x, y, X, Y
  <2> QED BY <2>1, <2>2
<1>4. n \in Int /\ q \in Int BY <1>1
<1> HIDE DEF n, q, x, y
<1> QED BY <1>3, <1>4, ModUnique DEF n, q, x, y

\* A percentage of d is no more than d.
LEMMA Share ==
  ASSUME NEW d \in Nat, NEW n \in 0..100
  PROVE  (d * n) \div 100 \in 0..d
<1>1. d*n \in Nat /\ d*n <= d*100 BY Z3
<1> QED BY <1>1

-----------------------------------------------------------------------------
(* struct Probe *)

ProbeRecord ==
  [state : States, depth : Depths, trigger : Triggers, edge : BOOLEAN, pct : 0..100,
   divider : Nat \ {0}, pre : Nat, post : Nat, div : Nat, prev : {"unknown", "yes", "no"},
   triggered : BOOLEAN, sample : Nat, abs : Nat, head : 0..(Counts32 - 1),
   count : 0..(Counts32 - 1), buf : [0..(Deepest - 1) -> Samples]]

\* The ranges of the fields, one by one.
InRange(q) ==
  /\ q.state \in States /\ q.depth \in Depths /\ q.trigger \in Triggers /\ q.edge \in BOOLEAN
  /\ q.pct \in 0..100 /\ q.divider \in Nat \ {0} /\ q.pre \in Nat /\ q.post \in Nat /\ q.div \in Nat
  /\ q.prev \in {"unknown", "yes", "no"} /\ q.triggered \in BOOLEAN /\ q.sample \in Nat
  /\ q.abs \in Nat /\ q.head \in 0..(Counts32 - 1) /\ q.count \in 0..(Counts32 - 1)
  /\ q.buf \in [0..(Deepest - 1) -> Samples]

\* What the assumptions on the ring sizes say of each of them.
LEMMA Constants ==
  /\ Counts32 \in Nat \ {0} /\ Counts32 >= 2
  /\ Deepest \in Depths
  /\ \A d \in Depths : d \in Nat \ {0} /\ d > 0 /\ 2 * d <= Counts32 /\ d <= Deepest
<1>1. Deepest \in Depths /\ \A e \in Depths : e <= Deepest
  BY DepthsAssumption DEF Deepest
<1> QED BY <1>1, DepthsAssumption, Counts32Assumption

\* Arming empties the ring, and never asks for more before the trigger than it
\* holds.
LEMMA ArmFacts ==
  ASSUME NEW q \in ProbeRecord
  PROVE  /\ Arm(q) \in ProbeRecord
         /\ Arm(q).depth = q.depth /\ Arm(q).trigger = q.trigger
         /\ Arm(q).pct = q.pct /\ Arm(q).divider = q.divider
         /\ Arm(q).pre <= q.depth /\ Arm(q).div = q.divider /\ ~Arm(q).triggered
         /\ Arm(q).head = 0 /\ Arm(q).count = 0 /\ Arm(q).sample = 0 /\ Arm(q).abs = 0
         /\ IF q.trigger = NoTrigger THEN Arm(q).state = "capturing" /\ Arm(q).post = q.depth
            ELSE Arm(q).state = "armed" /\ Arm(q).post = 0
<1>1. q.depth \in Nat /\ q.depth > 0 /\ q.pct \in 0..100
  BY Constants DEF ProbeRecord
<1>2. (q.depth * q.pct) \div 100 \in 0..q.depth
  BY <1>1, Share
<1> DEFINE n == (q.depth * q.pct) \div 100
<1>3. n \in Nat /\ n <= q.depth
  BY <1>1, <1>2
<1>4. Arm(q) = [q EXCEPT !.head = 0, !.count = 0, !.sample = 0, !.pre = n,
            !.post = IF q.trigger = NoTrigger THEN q.depth ELSE 0,
            !.div = q.divider, !.prev = "unknown", !.triggered = FALSE, !.abs = 0,
            !.state = IF q.trigger = NoTrigger THEN "capturing" ELSE "armed"]
  BY DEF Arm
<1> HIDE DEF n
<1>5. /\ Arm(q).depth = q.depth /\ Arm(q).trigger = q.trigger
      /\ Arm(q).pct = q.pct /\ Arm(q).divider = q.divider
      /\ Arm(q).pre = n /\ Arm(q).div = q.divider
      /\ Arm(q).head = 0 /\ Arm(q).count = 0 /\ Arm(q).sample = 0 /\ Arm(q).abs = 0
  BY <1>4 DEF ProbeRecord
<1>6. ~Arm(q).triggered
  BY <1>4 DEF ProbeRecord
<1>7. IF q.trigger = NoTrigger THEN Arm(q).state = "capturing" /\ Arm(q).post = q.depth
      ELSE Arm(q).state = "armed" /\ Arm(q).post = 0
  BY <1>4 DEF ProbeRecord
<1>8. InRange(Arm(q))
  BY <1>1, <1>3, <1>4, Constants DEF ProbeRecord, InRange, States
<1>9. Arm(q) \in ProbeRecord
  BY <1>4, <1>8 DEF ProbeRecord, InRange
<1> QED BY <1>3, <1>5, <1>6, <1>7, <1>9

\* One micro-step's turn of the divider.
LEMMA TickedFacts ==
  ASSUME NEW q \in ProbeRecord, NEW s \in Samples, q.div > 0
  PROVE  LET t == Ticked(q, s)
         IN  /\ t \in ProbeRecord /\ t.div > 0
             /\ t.state = q.state /\ t.depth = q.depth /\ t.trigger = q.trigger /\ t.pct = q.pct
             /\ t.edge = q.edge /\ t.prev = q.prev
             /\ t.divider = q.divider /\ t.pre = q.pre /\ t.post = q.post
             /\ t.triggered = q.triggered /\ t.sample = q.sample /\ t.abs = q.abs
             /\ IF Due(q) THEN /\ t.head = (q.head + 1) % Counts32
                               /\ t.count = (q.count + 1) % Counts32
                               /\ t.buf = [q.buf EXCEPT ![q.head % q.depth] = s]
                ELSE t.head = q.head /\ t.count = q.count /\ t.buf = q.buf
<1>1. (q.head + 1) % Counts32 \in 0..(Counts32 - 1) /\ (q.count + 1) % Counts32 \in 0..(Counts32 - 1)
  <2>1. q.head + 1 \in Int /\ q.count + 1 \in Int
    BY Constants DEF ProbeRecord
  <2>2. Counts32 \in Nat \ {0}
    BY Constants
  <2> QED BY <2>1, <2>2, ModFacts
<1>2. [q.buf EXCEPT ![q.head % q.depth] = s] \in [0..(Deepest - 1) -> Samples]
  BY DEF ProbeRecord
<1>3. CASE Due(q)
  <2> DEFINE b == [q.buf EXCEPT ![q.head % q.depth] = s]
             t == [q EXCEPT !.div = q.divider, !.buf = b, !.head = (q.head + 1) % Counts32,
                            !.count = (q.count + 1) % Counts32]
  <2>1. Ticked(q, s) = t
    BY <1>3 DEF Ticked, Stored, ProbeRecord
  <2> HIDE DEF b
  <2>2. /\ t.state = q.state /\ t.depth = q.depth /\ t.trigger = q.trigger /\ t.pct = q.pct
        /\ t.prev = q.prev /\ t.divider = q.divider /\ t.pre = q.pre /\ t.post = q.post
        /\ t.sample = q.sample /\ t.abs = q.abs /\ t.buf = b /\ t.div = q.divider
        /\ t.head = (q.head + 1) % Counts32 /\ t.count = (q.count + 1) % Counts32
    BY DEF ProbeRecord
  <2>3. t.triggered = q.triggered /\ t.edge = q.edge
    BY DEF ProbeRecord
  <2>4. InRange(t)
    BY <1>1, <1>2 DEF ProbeRecord, InRange, b
  <2>5. t \in ProbeRecord
    BY <2>4 DEF ProbeRecord, InRange
  <2> HIDE DEF t
  <2> QED BY <1>3, <2>1, <2>2, <2>3, <2>4, <2>5 DEF b, InRange
<1>4. CASE ~Due(q)
  <2> DEFINE t == [q EXCEPT !.div = q.div - 1]
  <2>1. Ticked(q, s) = t
    BY <1>4 DEF Ticked, ProbeRecord
  <2>2. /\ t.state = q.state /\ t.depth = q.depth /\ t.trigger = q.trigger /\ t.pct = q.pct
        /\ t.prev = q.prev /\ t.divider = q.divider /\ t.pre = q.pre /\ t.post = q.post
        /\ t.sample = q.sample /\ t.abs = q.abs /\ t.buf = q.buf /\ t.div = q.div - 1
        /\ t.head = q.head /\ t.count = q.count
    BY DEF ProbeRecord
  <2>3. t.triggered = q.triggered /\ t.edge = q.edge
    BY DEF ProbeRecord
  <2>4. q.div \in Nat /\ q.div - 1 \in Nat /\ q.div - 1 > 0
    BY <1>4 DEF Due, ProbeRecord
  <2>5. InRange(t)
    BY <2>4 DEF ProbeRecord, InRange
  <2>6. t \in ProbeRecord
    BY <2>5 DEF ProbeRecord, InRange
  <2> HIDE DEF t
  <2> QED BY <1>4, <2>1, <2>2, <2>3, <2>4, <2>6
<1> QED BY <1>3, <1>4

\* The trigger: its place is that of the newest sample.
LEMMA TriggeredFacts ==
  ASSUME NEW q \in ProbeRecord, NEW left \in Nat
  PROVE  LET t == Triggered(q, left)
         IN  /\ t \in ProbeRecord /\ t.triggered /\ t.div = q.divider /\ t.post = left
             /\ t.state = IF left = 0 THEN "done" ELSE "capturing"
             /\ t.abs = Newest(q) /\ t.sample = Newest(q) % q.depth /\ t.sample < q.depth
             /\ t.depth = q.depth /\ t.trigger = q.trigger /\ t.pct = q.pct
             /\ t.divider = q.divider /\ t.pre = q.pre
             /\ t.head = q.head /\ t.count = q.count /\ t.buf = q.buf
<1> DEFINE a == Newest(q)
           b == Newest(q) % q.depth
<1>1. a \in Nat
  BY Constants DEF Newest, ProbeRecord
<1>2. b \in Nat /\ b < q.depth
  <2>1. q.depth \in Nat \ {0} /\ a \in Int
    BY <1>1, Constants DEF ProbeRecord
  <2>2. b \in 0..(q.depth - 1)
    BY <2>1, ModFacts
  <2> QED BY <2>1, <2>2
<1> DEFINE t == [q EXCEPT !.state = IF left = 0 THEN "done" ELSE "capturing", !.triggered = TRUE,
                          !.sample = b, !.abs = a, !.post = left, !.div = q.divider]
<1>3. Triggered(q, left) = t
  BY DEF Triggered
<1> HIDE DEF a, b
<1>4. /\ t.depth = q.depth /\ t.trigger = q.trigger /\ t.pct = q.pct
      /\ t.divider = q.divider /\ t.pre = q.pre
      /\ t.head = q.head /\ t.count = q.count /\ t.buf = q.buf
      /\ t.abs = a /\ t.sample = b /\ t.post = left /\ t.div = q.divider
  BY DEF ProbeRecord
<1>5. t.triggered /\ t.state = IF left = 0 THEN "done" ELSE "capturing"
  BY DEF ProbeRecord
<1>6. InRange(t)
  BY <1>1, <1>2 DEF ProbeRecord, InRange, States
<1>7. t \in ProbeRecord
  BY <1>6 DEF ProbeRecord, InRange
<1> HIDE DEF t
<1> QED BY <1>2, <1>3, <1>4, <1>5, <1>7 DEF a, b

\* A new depth empties the ring and ends the capture.
LEMMA SetDepthFacts ==
  ASSUME NEW q \in ProbeRecord, NEW d \in Depths
  PROVE  LET t == SetDepth(q, d)
         IN  /\ t \in ProbeRecord /\ t.depth = d /\ t.trigger = q.trigger /\ t.pct = q.pct
             /\ t.divider = q.divider /\ t.pre = q.pre /\ t.triggered = q.triggered
             /\ t.abs = q.abs /\ t.buf = q.buf
             /\ IF d = q.depth
                THEN /\ t.state = q.state /\ t.post = q.post /\ t.sample = q.sample
                     /\ t.head = q.head /\ t.count = q.count
                ELSE /\ t.state = "idle" /\ t.post = 0 /\ t.sample = 0 /\ t.head = 0 /\ t.count = 0
<1>1. CASE d = q.depth
  <2> DEFINE t == [q EXCEPT !.depth = d]
  <2>1. SetDepth(q, d) = t
    BY <1>1 DEF SetDepth
  <2>2. t = q
    BY <1>1 DEF ProbeRecord
  <2> QED BY <1>1, <2>1, <2>2
<1>2. CASE d # q.depth
  <2> DEFINE t == [q EXCEPT !.state = "idle", !.head = 0, !.count = 0, !.sample = 0, !.post = 0,
                            !.depth = d]
  <2>1. SetDepth(q, d) = t
    BY <1>2 DEF SetDepth, Reset, ProbeRecord
  <2>2. /\ t.depth = d /\ t.trigger = q.trigger /\ t.pct = q.pct
        /\ t.divider = q.divider /\ t.pre = q.pre /\ t.abs = q.abs /\ t.buf = q.buf
        /\ t.state = "idle" /\ t.post = 0 /\ t.sample = 0 /\ t.head = 0 /\ t.count = 0
    BY DEF ProbeRecord
  <2>3. t.triggered = q.triggered
    BY DEF ProbeRecord
  <2>4. InRange(t)
    BY Constants DEF ProbeRecord, InRange, States
  <2>5. t \in ProbeRecord
    BY <2>4 DEF ProbeRecord, InRange
  <2> HIDE DEF t
  <2> QED BY <1>2, <2>1, <2>2, <2>3, <2>5
<1> QED BY <1>1, <1>2

-----------------------------------------------------------------------------
(* The ring as a tape *)

\* The tape, and the mark of the trigger's sample, as a reader of the ring has
\* them.
TapeOf(q) == [i \in 1..ValidCount(q) |-> Get(q, i - 1)]
MarkOf(q) == IF ValidCount(q) = 0 \/ TriggerIndex(q) < 0 THEN 0 ELSE TriggerIndex(q) + 1

\* The oldest sample, for counters that agree.
LEMMA RingFacts ==
  ASSUME NEW q \in ProbeRecord, q.head = q.count
  PROVE  /\ q.head \in 0..(Counts32 - 1) /\ q.depth \in Nat \ {0} /\ 2 * q.depth <= Counts32
         /\ ValidCount(q) = IF q.head < q.depth THEN q.head ELSE q.depth
         /\ First(q) = q.head - ValidCount(q)
         /\ ValidCount(q) \in 0..q.depth /\ First(q) \in Nat
<1>1. /\ q.head \in 0..(Counts32 - 1) /\ q.depth \in Nat \ {0} /\ Counts32 \in Nat \ {0}
      /\ 2 * q.depth <= Counts32
  BY Constants DEF ProbeRecord
<1> DEFINE v == ValidCount(q)
<1>2. v = IF q.head < q.depth THEN q.head ELSE q.depth
  BY <1>1 DEF ValidCount
<1> HIDE DEF v
<1>3. q.head - v \in 0..(Counts32 - 1) /\ q.head - v + Counts32 \in Int
      /\ q.head - v + Counts32 = Counts32 * 1 + (q.head - v)
  BY <1>1, <1>2
<1>4. (q.head - v + Counts32) % Counts32 = q.head - v
  BY <1>1, <1>3, ModUnique
<1> QED BY <1>1, <1>2, <1>3, <1>4 DEF First, v

\* The tape is a sequence of samples, the newest last.
LEMMA TapeType ==
  ASSUME NEW q \in ProbeRecord, q.head = q.count
  PROVE  /\ TapeOf(q) \in Seq(Samples) /\ Len(TapeOf(q)) = ValidCount(q)
         /\ \A i \in 1..ValidCount(q) : TapeOf(q)[i] = q.buf[(First(q) + i - 1) % q.depth]
<1>1. q.depth \in Nat \ {0} /\ q.depth <= Deepest /\ Deepest \in Nat /\ ValidCount(q) \in Nat
      /\ First(q) \in Nat /\ q.buf \in [0..(Deepest - 1) -> Samples]
  BY Constants, RingFacts DEF ProbeRecord
<1> DEFINE v == ValidCount(q)
           f == First(q)
<1>2. \A i \in 1..v : Get(q, i - 1) \in Samples /\ Get(q, i - 1) = q.buf[(f + i - 1) % q.depth]
  <2> SUFFICES ASSUME NEW i \in 1..v
               PROVE  Get(q, i - 1) \in Samples /\ Get(q, i - 1) = q.buf[(f + i - 1) % q.depth]
    OBVIOUS
  <2>1. Get(q, i - 1) = q.buf[(f + (i - 1)) % q.depth]
    BY DEF Get
  <2> HIDE DEF f, v
  <2>2. f + (i - 1) = f + i - 1 /\ f + i - 1 \in Int
    BY <1>1 DEF f, v
  <2>3. (f + i - 1) % q.depth \in 0..(q.depth - 1)
    BY <1>1, <2>2, ModFacts
  <2>4. (f + i - 1) % q.depth \in 0..(Deepest - 1)
    BY <1>1, <2>3
  <2> QED BY <1>1, <2>1, <2>2, <2>4
<1>3. TapeOf(q) = [i \in 1..v |-> Get(q, i - 1)]
  BY DEF TapeOf
<1> HIDE DEF v, f
<1>4. v \in Nat
  BY <1>1 DEF v
<1>5. TapeOf(q) \in Seq(Samples) /\ Len(TapeOf(q)) = v
  BY <1>2, <1>3, <1>4
<1> QED BY <1>2, <1>3, <1>5 DEF v, f

\* A part of a sequence.
LEMMA Slice ==
  ASSUME NEW S, NEW a \in Seq(S), NEW m \in Nat, NEW n \in Nat, m \in 1..n, n = Len(a)
  PROVE  /\ SubSeq(a, m, n) \in Seq(S) /\ Len(SubSeq(a, m, n)) = n - m + 1
         /\ \A i \in 1..(n - m + 1) : SubSeq(a, m, n)[i] = a[m + i - 1]
<1>1. \A i \in m..n : a[i] \in S
  OBVIOUS
<1>2. m \in Int /\ n \in Int /\ m <= n /\ m <= n+1
  OBVIOUS
<1> QED BY <1>1, <1>2, SubSeqProperties

\* A stored sample is put at the end of the tape; the oldest goes when the
\* tape is full.
LEMMA StoredTape ==
  ASSUME NEW q \in ProbeRecord, q.head = q.count, NEW r \in ProbeRecord, r.head = r.count,
         NEW s \in Samples, r.depth = q.depth, r.head = q.head + 1,
         r.buf = [q.buf EXCEPT ![q.head % q.depth] = s]
  PROVE  TapeOf(r) = Tapes!Newest(Append(TapeOf(q), s), q.depth)
<1> DEFINE d == q.depth
           h == q.head
           v == ValidCount(q)
           w == ValidCount(r)
           f == First(q)
           g == First(r)
           a == Append(TapeOf(q), s)
           m == 1 + (IF Len(a) > d THEN Len(a) - d ELSE 0)
<1>1. /\ h \in Nat /\ d \in Nat \ {0} /\ d <= Deepest /\ Deepest \in Nat
      /\ v = (IF h < d THEN h ELSE d) /\ f = h - v
      /\ w = (IF h + 1 < d THEN h + 1 ELSE d) /\ g = h + 1 - w
      /\ v \in Nat /\ f \in Nat /\ w \in Nat /\ g \in Nat
  <2>1. /\ h \in Nat /\ d \in Nat \ {0} /\ d <= Deepest /\ Deepest \in Nat
    BY Constants DEF ProbeRecord
  <2>2. v = (IF h < d THEN h ELSE d) /\ f = h - v /\ f \in Nat
    BY RingFacts
  <2>4. r.head = h + 1 /\ r.depth = d
    OBVIOUS
  <2>5. w = (IF r.head < r.depth THEN r.head ELSE r.depth) /\ g = r.head - w /\ g \in Nat
    BY RingFacts
  <2>3. w = (IF h + 1 < d THEN h + 1 ELSE d) /\ g = h + 1 - w /\ g \in Nat
    <3> HIDE DEF v, w, f, g, h, d
    <3> QED BY <2>1, <2>4, <2>5
  <2> HIDE DEF v, w, f, g, h, d
  <2> QED BY <2>1, <2>2, <2>3
<1>2. /\ TapeOf(q) \in Seq(Samples) /\ Len(TapeOf(q)) = v
      /\ \A i \in 1..v : TapeOf(q)[i] = q.buf[(f + i - 1) % d]
  BY TapeType
<1>3. /\ TapeOf(r) \in Seq(Samples) /\ Len(TapeOf(r)) = w
      /\ \A i \in 1..w : TapeOf(r)[i] = r.buf[(g + i - 1) % d]
  BY TapeType
<1>4. /\ a \in Seq(Samples) /\ Len(a) = v + 1 /\ a[v + 1] = s
      /\ \A i \in 1..v : a[i] = TapeOf(q)[i]
  BY <1>2, AppendProperties
<1>5. Tapes!Newest(a, d) = SubSeq(a, m, Len(a))
  BY DEF Tapes!Newest
<1>0. m = 1 + (IF Len(a) > d THEN Len(a) - d ELSE 0)
  OBVIOUS
<1> DEFINE n == v + 1
<1>n. n = v + 1 OBVIOUS
<1> HIDE DEF a, v, w, f, g, h, m, n
<1>6. m \in 1..(v + 1) /\ v + 1 - m + 1 = w /\ f + m = g + 1
  <2>1. m = 1 + (IF v + 1 > d THEN v + 1 - d ELSE 0)
    <3>1. Len(a) = v + 1 BY <1>4
    <3> HIDE DEF d
    <3> QED BY <1>0, <1>1, <3>1
  <2> HIDE DEF d
  <2> QED BY <1>1, <2>1
<1>7. /\ SubSeq(a, m, v + 1) \in Seq(Samples) /\ Len(SubSeq(a, m, v + 1)) = w
      /\ \A i \in 1..w : SubSeq(a, m, v + 1)[i] = a[m + i - 1]
  <2>1. n \in Nat /\ Len(a) = n /\ m \in 1..n /\ n - m + 1 = w
    BY <1>1, <1>4, <1>6, <1>n
  <2>2. SubSeq(a, m, n) \in Seq(Samples) /\ Len(SubSeq(a, m, n)) = n - m + 1
        /\ \A i \in 1..(n - m + 1) : SubSeq(a, m, n)[i] = a[m + i - 1]
    BY <1>4, <2>1, Slice
  <2> QED BY <1>n, <2>1, <2>2
<1>8. ASSUME NEW i \in 1..w PROVE TapeOf(r)[i] = a[m + i - 1]
  <2>0. i \in Int /\ g + i - 1 \in Nat
    <3> HIDE DEF d
    <3> QED BY <1>1
  <2>1. TapeOf(r)[i] = r.buf[(g + i - 1) % d] /\ g + i - 1 \in Nat /\ i \in Int
    BY <1>3, <2>0
  <2>2. h % d \in 0..(Deepest - 1) /\ h \in Int
    <3>1. h \in Int
      BY <1>1
    <3>2. h % d \in 0..(d - 1)
      BY <1>1, <3>1, ModFacts
    <3> QED BY <1>1, <3>1, <3>2
  <2>3. r.buf = [q.buf EXCEPT ![h % d] = s] /\ q.buf \in [0..(Deepest - 1) -> Samples]
    BY DEF h, ProbeRecord
  <2>4. CASE i = w
    <3>1. g + i - 1 = h /\ m + i - 1 = v + 1
      BY <1>1, <1>6, <2>4
    <3> QED BY <1>4, <2>1, <2>2, <2>3, <3>1
  <2>5. CASE i # w
    <3>1. g + i - 1 < h /\ h < (g + i - 1) + d
      BY <1>1, <2>5
    <3>2. (g + i - 1) % d # h % d
      BY <1>1, <2>1, <3>1, ModNear
    <3>3. (g + i - 1) % d \in 0..(Deepest - 1)
      <4>1. g + i - 1 \in Int
        BY <2>1
      <4>2. (g + i - 1) % d \in 0..(d - 1)
        BY <1>1, <4>1, ModFacts
      <4> QED BY <1>1, <4>2
    <3>4. TapeOf(r)[i] = q.buf[(g + i - 1) % d]
      BY <2>1, <2>3, <3>2, <3>3
    <3>5. m + i - 1 \in 1..v /\ f + (m + i - 1) - 1 = g + i - 1
      <4> HIDE DEF d
      <4> QED BY <1>1, <1>6, <2>5
    <3>6. a[m + i - 1] = q.buf[(f + (m + i - 1) - 1) % d]
      BY <1>2, <1>4, <3>5
    <3> QED BY <3>4, <3>5, <3>6
  <2> QED BY <2>4, <2>5
<1>9. TapeOf(r) = SubSeq(a, m, v + 1)
  <2>1. \A i \in 1..Len(TapeOf(r)) : TapeOf(r)[i] = SubSeq(a, m, v + 1)[i]
    BY <1>3, <1>7, <1>8
  <2> QED BY <1>3, <1>7, <2>1, SeqEqual
<1> QED BY <1>4, <1>5, <1>9 DEF a, v

\* A counter's next value.
LEMMA NextCount ==
  ASSUME NEW n \in 0..(Counts32 - 1)
  PROVE  /\ (n + 1) % Counts32 = IF n + 1 = Counts32 THEN 0 ELSE n + 1
         /\ (n + 1) % Counts32 # n
<1>1. Counts32 \in Nat \ {0} /\ Counts32 >= 2
  BY Constants
<1>2. CASE n + 1 = Counts32
  <2>1. n + 1 \in Int /\ n + 1 = Counts32 * 1 + 0 /\ 0 \in 0..(Counts32 - 1)
    BY <1>1, <1>2
  <2>2. (n + 1) % Counts32 = 0
    BY <1>1, <2>1, ModUnique
  <2> QED BY <1>1, <1>2, <2>2
<1>3. CASE n + 1 # Counts32
  <2>1. n + 1 \in Int /\ n + 1 = Counts32 * 0 + (n + 1) /\ n + 1 \in 0..(Counts32 - 1)
    BY <1>1, <1>3
  <2>2. (n + 1) % Counts32 = n + 1
    BY <1>1, <2>1, ModUnique
  <2> QED BY <1>1, <1>3, <2>2
<1> QED BY <1>2, <1>3

\* A ring that nothing is stored in.
LEMMA EmptyTape ==
  ASSUME NEW q \in ProbeRecord, q.head = 0, q.count = 0
  PROVE  ValidCount(q) = 0 /\ TapeOf(q) = <<>> /\ MarkOf(q) = 0
<1>1. q.head = q.count /\ q.depth \in Nat \ {0}
  BY RingFacts
<1>2. ValidCount(q) = 0
  BY <1>1 DEF ValidCount
<1>3. TapeOf(q) \in Seq(Samples) /\ Len(TapeOf(q)) = 0
  BY <1>1, <1>2, TapeType
<1> QED BY <1>2, <1>3, EmptySeq DEF MarkOf

\* What is kept with a sample.
LEMMA KeptTape ==
  ASSUME NEW q \in ProbeRecord, q.head = q.count, NEW r \in ProbeRecord, NEW s \in Samples,
         r.depth = q.depth, r.head = (q.head + 1) % Counts32, r.count = (q.count + 1) % Counts32,
         r.buf = [q.buf EXCEPT ![q.head % q.depth] = s]
  PROVE  /\ r.count # q.count /\ r.head = r.count
         /\ r.head = IF q.head + 1 = Counts32 THEN 0 ELSE q.head + 1
         /\ TapeOf(r) = IF r.count = 0 THEN <<>> ELSE Tapes!Newest(Append(TapeOf(q), s), q.depth)
<1>1. q.head \in 0..(Counts32 - 1) /\ q.count \in 0..(Counts32 - 1) /\ Counts32 \in Nat
  BY Constants DEF ProbeRecord
<1>2. /\ r.count # q.count /\ r.head = r.count
      /\ r.head = IF q.head + 1 = Counts32 THEN 0 ELSE q.head + 1
  BY <1>1, NextCount
<1>3. CASE q.head + 1 = Counts32
  BY <1>2, <1>3, EmptyTape
<1>4. CASE q.head + 1 # Counts32
  <2>1. r.head = q.head + 1 /\ r.count # 0
    BY <1>1, <1>2, <1>4
  <2>2. TapeOf(r) = Tapes!Newest(Append(TapeOf(q), s), q.depth)
    BY <1>2, <2>1, StoredTape
  <2> QED BY <1>2, <2>1, <2>2
<1> QED BY <1>3, <1>4

\* The mark is where the trigger's count is on the tape: nowhere, if the count
\* was overwritten, or stands for one of the samples before the counters began
\* again.
LEMMA MarkFacts ==
  ASSUME NEW q \in ProbeRecord, q.head = q.count, q.abs < Counts32
  PROVE  /\ ~q.triggered => MarkOf(q) = 0
         /\ q.head = 0 => MarkOf(q) = 0
         /\ q.triggered /\ q.abs < q.head =>
              MarkOf(q) = IF q.abs < First(q) THEN 0 ELSE q.abs - First(q) + 1
         /\ q.triggered /\ Counts32 + q.head <= q.abs + 1 + q.depth => MarkOf(q) = 0
<1> DEFINE v == ValidCount(q)
           f == First(q)
           h == q.head
           d == q.depth
           a == q.abs
           k == Counts32
           half == Counts32 \div 2
<1>1. /\ h \in 0..(k - 1) /\ d \in Nat \ {0} /\ 2 * d <= k /\ v = (IF h < d THEN h ELSE d)
      /\ f = h - v /\ v \in Nat /\ f \in Nat
  BY RingFacts
<1>2. k \in Nat /\ a \in Nat /\ a < k
  BY Constants DEF ProbeRecord
<1>3. half \in Nat /\ d <= half /\ 2 * half <= k
  <2>1. q.depth \in Nat /\ 2 * q.depth <= Counts32
    BY <1>1
  <2> QED BY <1>2, <2>1
<1>4. MarkOf(q) = IF v = 0 \/ TriggerIndex(q) < 0 THEN 0 ELSE TriggerIndex(q) + 1
  BY DEF MarkOf
<1>5. TriggerIndex(q) = IF ~q.triggered \/ a < f THEN -1
                        ELSE IF a - f >= half THEN a - f - k ELSE a - f
  BY DEF TriggerIndex, Signed
<1> DEFINE i == TriggerIndex(q)
           m == MarkOf(q)
<1>6. /\ m = (IF v = 0 \/ i < 0 THEN 0 ELSE i + 1)
      /\ i = IF ~q.triggered \/ a < f THEN -1
             ELSE IF a - f >= half THEN a - f - k ELSE a - f
  BY <1>4, <1>5
<1>7. (h = 0 <=> q.head = 0) /\ h = q.head /\ a = q.abs /\ d = q.depth /\ k = Counts32
  OBVIOUS
<1> HIDE DEF v, f, h, d, a, k, half, i, m
<1>8. ~q.triggered => m = 0
  BY <1>6
<1>9. h = 0 => m = 0
  BY <1>1, <1>6
<1>10. q.triggered /\ a < h => m = IF a < f THEN 0 ELSE a - f + 1
  BY <1>1, <1>2, <1>3, <1>6
<1>11. q.triggered /\ k + h <= a + 1 + d => m = 0
  BY <1>1, <1>2, <1>3, <1>6
<1> QED BY <1>7, <1>8, <1>9, <1>10, <1>11 DEF m, f

\* The trigger's count: that of a sample not far behind, or of the one to come,
\* or of one before the counters began again.
Ahead(q)  == q.abs < q.head /\ q.head + q.post <= q.abs + 1 + q.depth
ToCome(q) == q.abs = 0 /\ q.head = 0
Beyond(q) == Counts32 + q.head + q.post <= q.abs + 1 + q.depth

Course ==
  /\ p.abs < Counts32
  /\ p.state = "capturing" /\ p.triggered => Ahead(p) \/ ToCome(p) \/ Beyond(p)

\* A sample further.
LEMMA Onward ==
  ASSUME NEW a \in Nat, NEW h \in Nat, NEW d \in Nat \ {0}, NEW k \in Nat, 2 * d <= k, h < k, a < k,
         NEW t \in 1..d, NEW g \in Nat, g = (IF h + 1 = k THEN 0 ELSE h + 1),
         \/ a < h /\ h + t <= a + 1 + d
         \/ a = 0 /\ h = 0
         \/ k + h + t <= a + 1 + d
  PROVE  \/ a < g /\ g + (t - 1) <= a + 1 + d
         \/ k + g + (t - 1) <= a + 1 + d
OBVIOUS

\* The mark moves with the tape.
LEMMA MovedMark ==
  ASSUME NEW q \in ProbeRecord, q.head = q.count, q.abs < Counts32, q.post \in 1..q.depth,
         q.triggered => Ahead(q) \/ ToCome(q) \/ Beyond(q),
         NEW r \in ProbeRecord, r.head = r.count, r.depth = q.depth, r.abs = q.abs,
         r.triggered = q.triggered, r.post = q.post - 1,
         r.head = IF q.head + 1 = Counts32 THEN 0 ELSE q.head + 1
  PROVE  /\ r.triggered => Ahead(r) \/ Beyond(r)
         /\ r.post > 0 => ~(r.triggered /\ r.count = 0 /\ r.abs = 0)
         /\ MarkOf(r) = IF r.count = 0 THEN 0
                        ELSE IF q.triggered /\ q.count = 0 /\ q.abs = 0 THEN 1
                        ELSE IF MarkOf(q) > 0 /\ ValidCount(q) = q.depth THEN MarkOf(q) - 1
                        ELSE MarkOf(q)
<1> DEFINE h == q.head
           g == r.head
           d == q.depth
           a == q.abs
           t == q.post
           k == Counts32
           v == ValidCount(q)
           w == ValidCount(r)
           f == First(q)
           e == First(r)
           m == MarkOf(q)
           n == MarkOf(r)
<1>1. /\ h \in Nat /\ h < k /\ g \in Nat /\ g < k /\ d \in Nat \ {0} /\ 2 * d <= k /\ k \in Nat
      /\ a \in Nat /\ a < k /\ t \in 1..d
  <2>1. q.head \in 0..(Counts32 - 1) /\ r.head \in 0..(Counts32 - 1) /\ q.depth \in Nat \ {0}
        /\ 2 * q.depth <= Counts32
    BY RingFacts
  <2>2. Counts32 \in Nat /\ q.abs \in Nat
    BY Constants DEF ProbeRecord
  <2> QED BY <2>1, <2>2
<1>2. g = (IF h + 1 = k THEN 0 ELSE h + 1)
  OBVIOUS
<1>3. v = (IF h < d THEN h ELSE d) /\ f = h - v
  BY RingFacts
<1>4. w = (IF g < d THEN g ELSE d) /\ e = g - w
  BY RingFacts
<1>5. q.triggered =>
         \/ a < h /\ h + t <= a + 1 + d
         \/ a = 0 /\ h = 0
         \/ k + h + t <= a + 1 + d
  BY DEF Ahead, ToCome, Beyond
<1>6. r.triggered = q.triggered /\ q.triggered \in BOOLEAN /\ r.abs = a /\ r.depth = d
      /\ r.post = t - 1 /\ r.count = g /\ q.count = h
  BY DEF ProbeRecord
<1>7. /\ ~q.triggered => m = 0
      /\ h = 0 => m = 0
      /\ q.triggered /\ a < h => m = IF a < f THEN 0 ELSE a - f + 1
      /\ q.triggered /\ k + h <= a + 1 + d => m = 0
  BY MarkFacts
<1>8. /\ ~r.triggered => n = 0
      /\ r.head = 0 => n = 0
      /\ r.triggered /\ r.abs < r.head => n = IF r.abs < e THEN 0 ELSE r.abs - e + 1
      /\ r.triggered /\ Counts32 + r.head <= r.abs + 1 + r.depth => n = 0
  BY MarkFacts
<1>9. r.head = g /\ Counts32 = k
  OBVIOUS
<1>10. /\ Ahead(r)  <=> a < g /\ g + (t - 1) <= a + 1 + d
       /\ Beyond(r) <=> k + g + (t - 1) <= a + 1 + d
  BY <1>6 DEF Ahead, Beyond
<1> HIDE DEF h, g, d, a, t, k, v, w, f, e, m, n
<1>11. q.triggered => \/ a < g /\ g + (t - 1) <= a + 1 + d
                      \/ k + g + (t - 1) <= a + 1 + d
  BY <1>1, <1>2, <1>5, Onward
<1>12. r.triggered => Ahead(r) \/ Beyond(r)
  BY <1>6, <1>10, <1>11
<1>13. r.post > 0 => ~(r.triggered /\ r.count = 0 /\ r.abs = 0)
  <2> SUFFICES ASSUME t - 1 > 0, q.triggered, g = 0, a = 0 PROVE FALSE
    BY <1>6
  <2> QED BY <1>1, <1>11
<1>14. n = IF g = 0 THEN 0
           ELSE IF q.triggered /\ h = 0 /\ a = 0 THEN 1
           ELSE IF m > 0 /\ v = d THEN m - 1
           ELSE m
  <2>1. /\ ~q.triggered => n = 0
        /\ g = 0 => n = 0
        /\ q.triggered /\ a < g => n = IF a < e THEN 0 ELSE a - e + 1
        /\ q.triggered /\ k + g <= a + 1 + d => n = 0
    BY <1>6, <1>8, <1>9
  <2>2. CASE g = 0 \/ ~q.triggered
    BY <1>7, <2>1, <2>2
  <2>3. CASE g # 0 /\ q.triggered /\ h = 0 /\ a = 0
    BY <1>1, <1>2, <1>4, <2>1, <2>3
  <2>4. CASE g # 0 /\ q.triggered /\ a < h /\ h + t <= a + 1 + d
    BY <1>1, <1>2, <1>3, <1>4, <1>7, <2>1, <2>4
  <2>5. CASE g # 0 /\ q.triggered /\ k + h + t <= a + 1 + d
    BY <1>1, <1>2, <1>3, <1>4, <1>7, <2>1, <2>5
  <2> QED BY <1>5, <2>2, <2>3, <2>4, <2>5
<1>15. ValidCount(q) = v /\ MarkOf(q) = m /\ MarkOf(r) = n /\ q.depth = d /\ q.abs = a
  BY DEF v, m, n, d, a
<1> QED BY <1>6, <1>12, <1>13, <1>14, <1>15

-----------------------------------------------------------------------------
(* The invariant *)

Ordinary ==
  /\ p \in ProbeRecord /\ hit \in Triggers /\ wrapped \in BOOLEAN
  /\ p.pct \in Percents \cup {50} /\ p.divider \in Dividers \cup {1}
  /\ p.head = p.count /\ p.sample < p.depth /\ p.post <= p.depth /\ p.pre <= Deepest
  /\ p.state # "idle" => p.pre <= p.depth
  /\ p.state = "armed" => p.trigger # NoTrigger /\ ~p.triggered /\ hit = NoTrigger
  /\ p.state = "capturing" => p.post > 0
  /\ p.state = "done" => p.post = 0
  /\ p.state \in {"armed", "capturing"} => p.div > 0

\* A trigger whose sample was stored: as many samples follow it as belong
\* behind it and are not still to come, so that it is not overwritten.
HitStored ==
  /\ p.abs < p.head /\ p.pre <= p.abs + 1
  /\ p.head + p.post = p.abs + (IF p.pre = p.depth THEN 1 ELSE p.depth - p.pre)
  /\ p.buf[p.abs % p.depth] = hit

\* One that was not: its place is that of the last sample of the part before.
HitMissed ==
  /\ hit = NoTrigger /\ p.pre + p.post <= p.depth
  /\ LET n == p.head + p.post + p.pre - p.depth
     IN  n >= p.pre /\ p.abs = IF n > 0 THEN n - 1 ELSE 0

Placed ==
  p.state \in {"capturing", "done"} /\ p.triggered /\ ~wrapped =>
    p.sample = p.abs % p.depth /\ (HitStored \/ HitMissed)

PInv == Ordinary /\ Placed

\* A probe just made has an empty ring and no trigger.
LEMMA InitInv == WatchInit => PInv
<1> SUFFICES ASSUME WatchInit PROVE PInv
  OBVIOUS
<1>1. PICK s \in Samples : p = Powered(Deepest, s)
  BY DEF WatchInit, ProbeInit
<1>2. Deepest \in Nat /\ Deepest > 0 /\ Deepest \in Depths /\ Counts32 \in Nat /\ Counts32 > 0
  BY Constants
<1>3. p \in ProbeRecord
  BY <1>1, <1>2 DEF Powered, ProbeRecord, States, Triggers
<1>4. /\ p.state = "idle" /\ p.pct = 50 /\ p.divider = 1 /\ p.head = 0 /\ p.count = 0
      /\ p.sample = 0 /\ p.post = 0 /\ p.pre = 0 /\ p.depth = Deepest
  BY <1>1 DEF Powered
<1>5. hit \in Triggers /\ wrapped \in BOOLEAN
  BY DEF WatchInit, Triggers
<1>6. Ordinary
  BY <1>2, <1>3, <1>4, <1>5 DEF Ordinary
<1>7. Placed
  BY <1>4 DEF Placed
<1> QED BY <1>6, <1>7 DEF PInv

\* Arming, from whatever front end.
LEMMA ArmInv ==
  ASSUME NEW q \in ProbeRecord, q.pct \in Percents \cup {50}, q.divider \in Dividers \cup {1},
         p' = Arm(q), hit' = NoTrigger, wrapped' = FALSE
  PROVE  PInv'
<1>1. q.depth \in Nat /\ q.depth > 0 /\ q.depth <= Deepest /\ Deepest \in Nat
  BY Constants DEF ProbeRecord
<1>2. q.divider > 0
  BY DEF ProbeRecord
<1>3. /\ p' \in ProbeRecord /\ p'.depth = q.depth /\ p'.trigger = q.trigger
      /\ p'.pct = q.pct /\ p'.divider = q.divider
      /\ p'.pre <= q.depth /\ p'.div = q.divider /\ ~p'.triggered
      /\ p'.head = 0 /\ p'.count = 0 /\ p'.sample = 0
      /\ IF q.trigger = NoTrigger THEN p'.state = "capturing" /\ p'.post = q.depth
         ELSE p'.state = "armed" /\ p'.post = 0
  BY ArmFacts
<1>4. p'.pre \in Nat /\ hit' \in Triggers /\ wrapped' \in BOOLEAN
  BY <1>3 DEF ProbeRecord, Triggers
<1>5. Ordinary'
  <2>1. CASE q.trigger = NoTrigger
    BY <1>1, <1>2, <1>3, <1>4, <2>1 DEF Ordinary
  <2>2. CASE q.trigger # NoTrigger
    BY <1>1, <1>2, <1>3, <1>4, <2>2 DEF Ordinary
  <2> QED BY <2>1, <2>2
<1>6. Placed'
  BY <1>3 DEF Placed
<1> QED BY <1>5, <1>6 DEF PInv

\* A command that changes what the next capture will be, or stops this one.
LEMMA SettingInv ==
  ASSUME PInv, Setting, UNCHANGED <<hit, wrapped>> PROVE PInv'
<1>1. p \in ProbeRecord /\ p.depth \in Nat /\ p.depth > 0 /\ Deepest \in Nat
  BY Constants DEF PInv, Ordinary, ProbeRecord
<1>2. CASE CliTrigger
  <2>1. PICK s \in Samples : p' = [p EXCEPT !.trigger = s]
    BY <1>2 DEF CliTrigger
  <2>2. p' \in ProbeRecord
    BY <1>1, <2>1 DEF ProbeRecord, Triggers
  <2>3. /\ p'.trigger = s /\ p'.state = p.state /\ p'.depth = p.depth /\ p'.pct = p.pct
        /\ p'.divider = p.divider /\ p'.pre = p.pre /\ p'.post = p.post /\ p'.div = p.div
        /\ p'.sample = p.sample /\ p'.abs = p.abs /\ p'.head = p.head /\ p'.count = p.count
        /\ p'.buf = p.buf
    BY <1>1, <2>1 DEF ProbeRecord
  <2>4. p'.triggered = p.triggered
    BY <1>1, <2>1 DEF ProbeRecord
  <2>5. Ordinary'
    BY <2>2, <2>3, <2>4, NoTriggerAssumption DEF PInv, Ordinary
  <2>6. Placed'
    BY <2>3, <2>4 DEF PInv, Placed, HitStored, HitMissed
  <2> QED BY <2>5, <2>6 DEF PInv
<1>3. CASE CliPos \/ CliRate
  <2>1. PICK n \in 0..100, m \in Nat \ {0} :
          /\ n \in Percents \cup {50} /\ m \in Dividers \cup {1}
          /\ p' = [p EXCEPT !.pct = n, !.divider = m]
    <3>1. p.pct \in 0..100 /\ p.divider \in Nat \ {0}
      BY <1>1 DEF ProbeRecord
    <3>2. p.pct \in Percents \cup {50} /\ p.divider \in Dividers \cup {1}
      BY DEF PInv, Ordinary
    <3>3. \A n : [p EXCEPT !.pct = n] = [p EXCEPT !.pct = n, !.divider = p.divider]
      BY <1>1 DEF ProbeRecord
    <3>4. \A m : [p EXCEPT !.divider = m] = [p EXCEPT !.pct = p.pct, !.divider = m]
      BY <1>1 DEF ProbeRecord
    <3>5. CASE CliPos
      <4>1. PICK n \in Percents : p' = [p EXCEPT !.pct = n]
        BY <3>5 DEF CliPos
      <4>2. n \in 0..100 /\ p' = [p EXCEPT !.pct = n, !.divider = p.divider]
        BY <3>3, <4>1, PercentsAssumption
      <4> QED BY <3>1, <3>2, <4>2
    <3>6. CASE CliRate
      <4>1. PICK m \in Dividers : p' = [p EXCEPT !.divider = m]
        BY <3>6 DEF CliRate
      <4>2. m \in Nat \ {0} /\ p' = [p EXCEPT !.pct = p.pct, !.divider = m]
        BY <3>4, <4>1, DividersAssumption
      <4> QED BY <3>1, <3>2, <4>2
    <3> QED BY <1>3, <3>5, <3>6
  <2>2. p' \in ProbeRecord
    BY <1>1, <2>1 DEF ProbeRecord
  <2>3. /\ p'.trigger = p.trigger /\ p'.state = p.state /\ p'.depth = p.depth /\ p'.pct = n
        /\ p'.divider = m /\ p'.pre = p.pre /\ p'.post = p.post /\ p'.div = p.div
        /\ p'.sample = p.sample /\ p'.abs = p.abs /\ p'.head = p.head /\ p'.count = p.count
        /\ p'.buf = p.buf
    BY <1>1, <2>1 DEF ProbeRecord
  <2>4. p'.triggered = p.triggered
    BY <1>1, <2>1 DEF ProbeRecord
  <2>5. Ordinary'
    BY <2>1, <2>2, <2>3, <2>4 DEF PInv, Ordinary
  <2>6. Placed'
    BY <2>3, <2>4 DEF PInv, Placed, HitStored, HitMissed
  <2> QED BY <2>5, <2>6 DEF PInv
<1>4. CASE CliDepth
  <2>1. PICK d \in Depths : p' = SetDepth(p, d)
    BY <1>4 DEF CliDepth
  <2>2. p.state \in {"idle", "done"}
    BY <1>1, <1>4 DEF CliDepth, ProbeRecord, States
  <2>3. CASE d = p.depth
    <3>1. p' = p
      BY <1>1, <2>1, <2>3 DEF SetDepth, ProbeRecord
    <3> QED BY <3>1 DEF PInv, Ordinary, Placed, HitStored, HitMissed
  <2>4. CASE d # p.depth
    <3>1. d \in Nat /\ d > 0
      BY Constants
    <3>2. Ordinary'
      BY <1>1, <2>1, <2>4, <3>1, SetDepthFacts DEF PInv, Ordinary
    <3>3. Placed'
      BY <1>1, <2>1, <2>4, SetDepthFacts DEF Placed
    <3> QED BY <3>2, <3>3 DEF PInv
  <2> QED BY <2>3, <2>4
<1>5. CASE Stop
  <2>1. p' = [p EXCEPT !.state = "idle"]
    BY <1>5 DEF Stop, Disarm
  <2>2. p' \in ProbeRecord
    BY <1>1, <2>1 DEF ProbeRecord, States
  <2>3. /\ p'.state = "idle" /\ p'.depth = p.depth /\ p'.pct = p.pct
        /\ p'.divider = p.divider /\ p'.pre = p.pre /\ p'.post = p.post
        /\ p'.sample = p.sample /\ p'.head = p.head /\ p'.count = p.count
    BY <1>1, <2>1 DEF ProbeRecord
  <2> QED BY <2>2, <2>3 DEF PInv, Ordinary, Placed
<1> QED BY <1>2, <1>3, <1>4, <1>5 DEF Setting

\* A count that did not shrink did not wrap.
LEMMA CountUp ==
  ASSUME NEW c \in 0..(Counts32 - 1), (c + 1) % Counts32 >= c
  PROVE  (c + 1) % Counts32 = c + 1
<1> DEFINE n == (c + 1) % Counts32
<1>1. n = (IF c + 1 = Counts32 THEN 0 ELSE c + 1) /\ n >= c
  BY NextCount
<1>2. Counts32 >= 2 /\ c \in Nat /\ Counts32 \in Nat
  BY Constants
<1> HIDE DEF n
<1>3. n = c + 1
  BY <1>1, <1>2
<1> QED BY <1>3 DEF n

\* What a micro-step shows, in the states in which it counts.
LEMMA CapturingInv ==
  ASSUME PInv, p.state = "capturing", NEW s \in Samples, p' = SampledCapturing(p, s),
         hit' = hit, wrapped' = (wrapped \/ p'.count < p.count)
  PROVE  PInv'
<1> DEFINE t == Ticked(p, s)
<1>1. /\ p \in ProbeRecord /\ p.depth \in Nat \ {0} /\ p.div > 0 /\ p.post > 0 /\ p.post \in Nat
      /\ p.pre \in Nat /\ p.abs \in Nat /\ p.sample \in Nat /\ p.depth <= Deepest /\ Deepest \in Nat
      /\ p.head \in 0..(Counts32 - 1) /\ p.head = p.count /\ Counts32 \in Nat
  BY Constants DEF PInv, Ordinary, ProbeRecord
<1>2. /\ t \in ProbeRecord /\ t.div > 0
      /\ t.state = p.state /\ t.depth = p.depth /\ t.trigger = p.trigger /\ t.pct = p.pct
      /\ t.divider = p.divider /\ t.pre = p.pre /\ t.post = p.post
      /\ t.triggered = p.triggered /\ t.sample = p.sample /\ t.abs = p.abs
      /\ IF Due(p) THEN /\ t.head = (p.head + 1) % Counts32
                        /\ t.count = (p.count + 1) % Counts32
                        /\ t.buf = [p.buf EXCEPT ![p.head % p.depth] = s]
         ELSE t.head = p.head /\ t.count = p.count /\ t.buf = p.buf
  BY <1>1, TickedFacts
<1> HIDE DEF t
<1>3. CASE ~Due(p)
  <2>1. p' = t
    BY <1>3 DEF SampledCapturing, t
  <2>2. Ordinary'
    BY <1>1, <1>2, <1>3, <2>1 DEF PInv, Ordinary
  <2>3. ~wrapped' => ~wrapped
    OBVIOUS
  <2>4. Placed'
    BY <1>2, <1>3, <2>1, <2>3 DEF PInv, Placed, HitStored, HitMissed
  <2> QED BY <2>2, <2>4 DEF PInv
<1>4. CASE Due(p)
  <2> DEFINE st == IF p.post = 1 THEN "done" ELSE "capturing"
  <2>1. p' = [t EXCEPT !.post = p.post - 1, !.state = st]
    BY <1>2, <1>4 DEF SampledCapturing, t, ProbeRecord
  <2>2. p' \in ProbeRecord
    <3>1. p.post - 1 \in Nat /\ st \in States
      BY <1>1 DEF States
    <3> HIDE DEF st
    <3>2. InRange(p')
      BY <1>2, <2>1, <3>1 DEF ProbeRecord, InRange
    <3> QED BY <1>2, <2>1, <3>2 DEF ProbeRecord, InRange
  <2>3. /\ p'.state = st /\ p'.depth = p.depth /\ p'.trigger = p.trigger /\ p'.pct = p.pct
        /\ p'.divider = p.divider /\ p'.pre = p.pre /\ p'.post = p.post - 1 /\ p'.div = t.div
        /\ p'.sample = p.sample /\ p'.abs = p.abs /\ p'.head = t.head /\ p'.count = t.count
        /\ p'.buf = t.buf
    BY <1>2, <2>1 DEF ProbeRecord
  <2>4. p'.triggered = p.triggered
    BY <1>2, <2>1 DEF ProbeRecord
  <2>5. Ordinary'
    BY <1>1, <1>2, <1>4, <2>2, <2>3, <2>4 DEF PInv, Ordinary
  <2>6. ASSUME p.triggered, ~wrapped' PROVE Placed'
    <3>1. ~wrapped /\ p'.count >= p.count
      <4>1. ~wrapped /\ ~(p'.count < p.count)
        BY <2>6
      <4>2. p'.count \in Int /\ p.count \in Int
        BY <1>1, <2>2, Constants DEF ProbeRecord
      <4> QED BY <4>1, <4>2
    <3>2. p'.head = p.head + 1
      BY <1>1, <1>2, <1>4, <2>3, <3>1, CountUp
    <3>3. p.sample = p.abs % p.depth /\ (HitStored \/ HitMissed)
      BY <2>6, <3>1 DEF PInv, Placed
    <3>4. CASE HitStored
      <4>1. p.abs < p.head /\ p.head < p.abs + p.depth
        BY <1>1, <3>4 DEF PInv, Ordinary, HitStored
      <4>2. p.abs % p.depth # p.head % p.depth
        BY <1>1, <4>1, ModNear
      <4>3. p'.buf[p.abs % p.depth] = p.buf[p.abs % p.depth]
        <5>1. p.abs % p.depth \in 0..(p.depth - 1) /\ p.depth <= Deepest
          <6>1. p.abs \in Int /\ p.depth \in Nat \ {0}
            BY <1>1
          <6> QED BY <1>1, <6>1, ModFacts
        <5>2. p.abs % p.depth \in 0..(Deepest - 1)
          BY <1>1, <5>1
        <5>3. p.buf \in [0..(Deepest - 1) -> Samples]
          BY <1>1 DEF ProbeRecord
        <5> QED BY <1>2, <1>4, <2>3, <4>2, <5>2, <5>3
      <4>4. HitStored'
        <5> DEFINE place == p.abs % p.depth
                   after == IF p.pre = p.depth THEN 1 ELSE p.depth - p.pre
        <5>1. p.abs < p.head /\ p.pre <= p.abs + 1 /\ p.head + p.post = p.abs + after
          BY <3>4 DEF HitStored
        <5>2. p.buf[place] = hit
          BY <3>4 DEF HitStored
        <5>3. p'.buf[place] = hit'
          BY <4>3, <5>2
        <5>4. p.abs < p.head + 1 /\ (p.head + 1) + (p.post - 1) = p.abs + after
          <6>1. p.abs \in Int /\ p.head \in Int /\ p.post \in Int
            BY <1>1
          <6> HIDE DEF after
          <6> QED BY <5>1, <6>1
        <5>5. /\ place = p'.abs % p'.depth
              /\ after = IF p'.pre = p'.depth THEN 1 ELSE p'.depth - p'.pre
          BY <2>3
        <5> HIDE DEF place, after
        <5>6. p'.abs < p'.head /\ p'.pre <= p'.abs + 1 /\ p'.head + p'.post = p'.abs + after
          BY <2>3, <3>2, <5>1, <5>4
        <5> QED BY <5>3, <5>5, <5>6 DEF HitStored
      <4> QED BY <2>3, <3>3, <4>4 DEF Placed
    <3>5. CASE HitMissed
      <4>1. HitMissed'
        BY <1>1, <2>3, <3>2, <3>5 DEF HitMissed
      <4> QED BY <2>3, <3>3, <4>1 DEF Placed
    <3> QED BY <3>3, <3>4, <3>5
  <2>7. Placed'
    BY <2>4, <2>6 DEF Placed
  <2> QED BY <2>5, <2>7 DEF PInv
<1> QED BY <1>3, <1>4

\* A micro-step while armed: a sample of the part before, or the trigger.
LEMMA ArmedInv ==
  ASSUME PInv, p.state = "armed", NEW s \in Samples, p' = SampledArmed(p, s, s = p.trigger),
         hit' = (IF Fired /\ Kept THEN p.trigger ELSE hit), wrapped' = (wrapped \/ p'.count < p.count)
  PROVE  PInv'
<1> DEFINE r == Ticked(p, s)
           t == [r EXCEPT !.prev = IF s = p.trigger THEN "yes" ELSE "no"]
           left == Left(t, Due(p))
<1>1. /\ p \in ProbeRecord /\ p.depth \in Nat \ {0} /\ p.div > 0 /\ p.trigger \in Triggers
      /\ p.pre \in Nat /\ p.pre <= p.depth /\ p.depth <= Deepest /\ Deepest \in Nat
      /\ p.head \in 0..(Counts32 - 1) /\ p.head = p.count /\ Counts32 \in Nat /\ Counts32 >= 2
      /\ ~p.triggered /\ hit = NoTrigger /\ p.trigger # NoTrigger /\ p.post <= p.depth
      /\ p.sample < p.depth /\ p.pct \in Percents \cup {50} /\ p.divider \in Dividers \cup {1}
      /\ p.divider > 0
  BY Constants DEF PInv, Ordinary, ProbeRecord
<1>2. /\ r \in ProbeRecord /\ r.div > 0
      /\ r.state = p.state /\ r.depth = p.depth /\ r.trigger = p.trigger /\ r.pct = p.pct
      /\ r.divider = p.divider /\ r.pre = p.pre /\ r.post = p.post
      /\ r.triggered = p.triggered /\ r.sample = p.sample /\ r.abs = p.abs
      /\ IF Due(p) THEN /\ r.head = (p.head + 1) % Counts32
                        /\ r.count = (p.count + 1) % Counts32
                        /\ r.buf = [p.buf EXCEPT ![p.head % p.depth] = s]
         ELSE r.head = p.head /\ r.count = p.count /\ r.buf = p.buf
  BY <1>1, TickedFacts
<1> HIDE DEF r
<1>3. /\ t.state = r.state /\ t.depth = r.depth /\ t.trigger = r.trigger /\ t.pct = r.pct
      /\ t.divider = r.divider /\ t.pre = r.pre /\ t.post = r.post /\ t.div = r.div
      /\ t.sample = r.sample /\ t.abs = r.abs /\ t.head = r.head /\ t.count = r.count
      /\ t.buf = r.buf
  BY <1>2 DEF ProbeRecord
<1>4. t.triggered = r.triggered
  BY <1>2 DEF ProbeRecord
<1>5. t \in ProbeRecord
  BY <1>2 DEF ProbeRecord
<1>6. p' = IF Fires(p, s = p.trigger) /\ t.count >= t.pre THEN Triggered(t, left) ELSE t
  BY DEF SampledArmed, r
<1> HIDE DEF t
<1>7. wrapped' \in BOOLEAN /\ hit' \in Triggers
  BY <1>1 DEF Triggers
<1>8. CASE ~(Fires(p, s = p.trigger) /\ t.count >= t.pre)
  <2>1. p' = t
    BY <1>6, <1>8
  <2>2. hit' = hit
    BY <1>1, <1>2, <1>4, <2>1 DEF Fired
  <2>3. Ordinary'
    BY <1>1, <1>2, <1>3, <1>4, <1>5, <1>7, <2>1, <2>2 DEF PInv, Ordinary
  <2>4. Placed'
    BY <1>1, <1>2, <1>4, <2>1 DEF Placed
  <2> QED BY <2>3, <2>4 DEF PInv
<1>9. CASE Fires(p, s = p.trigger) /\ t.count >= t.pre
  <2>1. s = p.trigger /\ p' = Triggered(t, left)
    BY <1>6, <1>9 DEF Fires
  <2>2. /\ left \in Nat /\ left <= p.depth
        /\ left = IF Due(p) /\ p.depth - p.pre > 0 THEN p.depth - p.pre - 1 ELSE p.depth - p.pre
    BY <1>1, <1>2, <1>3 DEF Left
  <2> HIDE DEF left
  <2>3. /\ p' \in ProbeRecord /\ p'.triggered /\ p'.div = t.divider /\ p'.post = left
        /\ p'.state = (IF left = 0 THEN "done" ELSE "capturing")
        /\ p'.abs = Newest(t) /\ p'.sample = Newest(t) % t.depth /\ p'.sample < t.depth
        /\ p'.depth = t.depth /\ p'.trigger = t.trigger /\ p'.pct = t.pct
        /\ p'.divider = t.divider /\ p'.pre = t.pre
        /\ p'.head = t.head /\ p'.count = t.count /\ p'.buf = t.buf
    <3> DEFINE u == Triggered(t, left)
    <3>1. /\ u \in ProbeRecord /\ u.triggered /\ u.div = t.divider /\ u.post = left
          /\ u.state = (IF left = 0 THEN "done" ELSE "capturing")
          /\ u.abs = Newest(t) /\ u.sample = Newest(t) % t.depth /\ u.sample < t.depth
          /\ u.depth = t.depth /\ u.trigger = t.trigger /\ u.pct = t.pct
          /\ u.divider = t.divider /\ u.pre = t.pre
          /\ u.head = t.head /\ u.count = t.count /\ u.buf = t.buf
      <4>1. left \in Nat
        BY <2>2
      <4> HIDE DEF u
      <4>2. u = Triggered(t, left)
        BY DEF u
      <4> QED BY <1>5, <4>1, <4>2, TriggeredFacts
    <3>2. p' = u
      BY <2>1
    <3> HIDE DEF u
    <3> QED BY <3>1, <3>2, Zenon
  <2>4. Ordinary'
    BY <1>1, <1>2, <1>3, <1>7, <2>2, <2>3 DEF Ordinary
  <2>5. ASSUME ~wrapped' PROVE Placed'
    <3>1. ~(p'.count < p.count) /\ p'.count \in Int /\ p.count \in Int
      <4>1. ~(p'.count < p.count)
        BY <2>5
      <4> QED BY <1>1, <2>3, <4>1, Constants DEF ProbeRecord
    <3>2. CASE Due(p)
      <4>1. p'.head = p.head + 1 /\ p'.count = p.head + 1
        BY <1>1, <1>2, <1>3, <2>3, <3>1, <3>2, CountUp
      <4>2. hit' = s
        BY <1>1, <2>1, <2>3, <4>1 DEF Fired, Kept
      <4>3. p'.abs = p.head
        BY <1>1, <2>3, <4>1 DEF Newest
      <4>4. p'.buf[p'.abs % p'.depth] = s
        <5>1. p.head \in Int /\ p.depth \in Nat \ {0}
          BY <1>1
        <5>2. p.head % p.depth \in 0..(p.depth - 1)
          BY <5>1, ModFacts
        <5>3. p.head % p.depth \in 0..(Deepest - 1)
          BY <1>1, <5>2
        <5>4. p.buf \in [0..(Deepest - 1) -> Samples]
          BY <1>1 DEF ProbeRecord
        <5>5. p'.buf = [p.buf EXCEPT ![p.head % p.depth] = s]
          BY <1>2, <1>3, <2>3, <3>2
        <5>6. p'.abs % p'.depth = p.head % p.depth
          BY <1>2, <1>3, <2>3, <4>3
        <5> QED BY <5>3, <5>4, <5>5, <5>6
      <4>5. HitStored'
        <5>1. p'.pre = p.pre /\ p'.depth = p.depth /\ p'.post = left /\ p.pre <= p.head + 1
          BY <1>2, <1>3, <1>9, <2>3, <4>1
        <5>2. p'.head + p'.post = p'.abs + (IF p'.pre = p'.depth THEN 1 ELSE p'.depth - p'.pre)
          BY <1>1, <2>2, <3>2, <4>1, <4>3, <5>1
        <5>3. p'.abs < p'.head /\ p'.pre <= p'.abs + 1
          BY <1>1, <4>1, <4>3, <5>1
        <5>4. p'.buf[p'.abs % p'.depth] = hit'
          BY <4>2, <4>4
        <5> QED BY <5>2, <5>3, <5>4 DEF HitStored
      <4> QED BY <2>3, <4>5 DEF Placed
    <3>3. CASE ~Due(p)
      <4>1. p'.head = p.head /\ p'.count = p.count
        BY <1>2, <1>3, <2>3, <3>3
      <4>2. hit' = NoTrigger
        BY <1>1, <4>1 DEF Kept
      <4>3. p'.abs = IF p.head > 0 THEN p.head - 1 ELSE 0
        BY <1>1, <2>3, <4>1 DEF Newest
      <4>4. HitMissed'
        BY <1>1, <1>2, <1>3, <1>9, <2>2, <2>3, <3>3, <4>1, <4>2, <4>3 DEF HitMissed
      <4> QED BY <2>3, <4>4 DEF Placed
    <3> QED BY <3>2, <3>3
  <2>6. Placed'
    BY <2>5 DEF Placed
  <2> QED BY <2>4, <2>6 DEF PInv
<1> QED BY <1>8, <1>9

\* Every command and every micro-step keeps the invariant.
LEMMA StepInv == PInv /\ [WatchNext]_watchedvars => PInv'
<1> SUFFICES ASSUME PInv, [WatchNext]_watchedvars PROVE PInv'
  OBVIOUS
<1>1. p \in ProbeRecord
  BY DEF PInv, Ordinary
<1>2. CASE WatchSample
  <2>1. CASE p.state = "armed"
    <3>1. PICK s \in Samples : p' = SampledArmed(p, s, s = p.trigger)
      BY <1>2, <2>1 DEF WatchSample, Sample
    <3> QED BY <1>2, <2>1, <3>1, ArmedInv DEF WatchSample
  <2>2. CASE p.state = "capturing"
    <3>1. PICK s \in Samples : p' = SampledCapturing(p, s)
      BY <1>2, <2>2 DEF WatchSample, Sample
    <3>2. p'.triggered = p.triggered
      <4>1. p.div > 0
        BY <2>2 DEF PInv, Ordinary
      <4>2. Ticked(p, s) \in ProbeRecord /\ Ticked(p, s).triggered = p.triggered
        BY <1>1, <4>1, TickedFacts
      <4> QED BY <3>1, <4>2 DEF SampledCapturing, ProbeRecord
    <3>3. hit' = hit
      BY <1>2, <3>2 DEF WatchSample, Fired
    <3> QED BY <1>2, <2>2, <3>1, <3>3, CapturingInv DEF WatchSample
  <2> QED BY <1>2, <2>1, <2>2 DEF WatchSample, Sample
<1>3. CASE Arming /\ UNCHANGED page /\ hit' = NoTrigger /\ wrapped' = FALSE
  <2>1. CASE CliArm
    BY <1>1, <1>3, <2>1, ArmInv DEF CliArm, PInv, Ordinary
  <2>2. CASE WebArm
    <3>1. PICK u \in Triggers, e \in BOOLEAN, d \in Depths, n \in Dividers, k \in Percents :
            p' = Arm([SetDepth(Chosen(p, u, e), d) EXCEPT !.divider = n, !.pct = k])
      BY <2>2 DEF WebArm
    <3> DEFINE c == Chosen(p, u, e)
               b == SetDepth(c, d)
               q == [b EXCEPT !.divider = n, !.pct = k]
    <3>2. c \in ProbeRecord
      BY <1>1 DEF Chosen, ProbeRecord
    <3> HIDE DEF c
    <3>3. b \in ProbeRecord
      BY <3>2, SetDepthFacts
    <3> HIDE DEF b
    <3>4. n \in Nat \ {0} /\ k \in 0..100
      BY DividersAssumption, PercentsAssumption
    <3>5. q \in ProbeRecord /\ q.divider = n /\ q.pct = k
      BY <3>3, <3>4 DEF ProbeRecord
    <3>6. p' = Arm(q)
      BY <3>1 DEF b, c
    <3> HIDE DEF q
    <3> QED BY <1>3, <3>5, <3>6, ArmInv
  <2> QED BY <1>3, <2>1, <2>2 DEF Arming
<1>4. CASE Setting /\ UNCHANGED <<page, hit, wrapped>>
  BY <1>4, SettingInv
<1>5. CASE UNCHANGED watchedvars
  BY <1>5 DEF watchedvars, probevars, PInv, Ordinary, Placed, HitStored, HitMissed
<1> QED BY <1>2, <1>3, <1>4, <1>5 DEF WatchNext

\* The invariant holds in every reachable state.
LEMMA PInvAlways == WatchSpec => []PInv
  BY InitInv, StepInv, PTL DEF WatchSpec

-----------------------------------------------------------------------------
\* The commands and the samples keep the analyzer's fields in their ranges; no
\* percentage asks for more than the ring holds.
THEOREM ProbeTypeCorrect == WatchSpec => []ProbeTypeOK
<1>1. PInv => ProbeTypeOK
  <2> SUFFICES ASSUME PInv PROVE ProbeTypeOK
    OBVIOUS
  <2>1. p \in ProbeRecord /\ p.depth \in Nat \ {0} /\ Deepest \in Nat
    BY Constants DEF PInv, Ordinary, ProbeRecord
  <2>2. /\ p.state \in States /\ p.depth \in Depths /\ p.trigger \in Triggers
        /\ p.pre \in Nat /\ p.post \in Nat /\ p.sample \in Nat
        /\ p.count \in 0..(Counts32 - 1)
    BY <2>1 DEF ProbeRecord
  <2> QED BY <2>1, <2>2 DEF PInv, Ordinary, ProbeTypeOK
<1> QED BY <1>1, PInvAlways, PTL

\* The oldest sample, while the counters have not wrapped.
LEMMA FirstFacts ==
  ASSUME PInv
  PROVE  /\ ValidCount(p) = IF p.head < p.depth THEN p.head ELSE p.depth
         /\ First(p) = p.head - ValidCount(p)
BY RingFacts DEF PInv, Ordinary

\* A trigger that is still in the ring is where the ring's start and its place
\* put it, for both of the front ends' ways to work it out.
LEMMA IndexFacts ==
  ASSUME PInv, p.triggered, p.abs >= First(p), p.abs < p.head, p.sample = p.abs % p.depth
  PROVE  /\ TriggerIndex(p) = p.abs - First(p) /\ ShownIndex(p) = TriggerIndex(p)
         /\ Get(p, TriggerIndex(p)) = p.buf[p.abs % p.depth]
<1>1. /\ p.head \in 0..(Counts32 - 1) /\ p.depth \in Nat \ {0} /\ p.head = p.count
      /\ Counts32 \in Nat \ {0} /\ 2 * p.depth <= Counts32 /\ p.abs \in Nat
  BY Constants DEF PInv, Ordinary, ProbeRecord
<1> DEFINE f == First(p)
           at == p.abs - f
<1>2. f = IF p.head < p.depth THEN 0 ELSE p.head - p.depth
  BY <1>1, FirstFacts
<1>3. f \in Nat /\ at \in 0..(p.depth - 1)
  BY <1>1, <1>2
<1>4. TriggerIndex(p) = at
  <2>1. ~(at >= Counts32 \div 2)
    BY <1>1, <1>3
  <2> QED BY <1>1, <1>2, <2>1 DEF TriggerIndex, Signed
<1>5. Get(p, at) = p.buf[p.abs % p.depth]
  <2>1. f + at = p.abs
    BY <1>1, <1>3
  <2> QED BY <2>1 DEF Get
<1>6. ShownIndex(p) = at
  <2>1. CASE p.head >= p.depth
    <3>1. f + at = p.abs /\ f + p.depth = p.head
      BY <1>1, <1>2, <2>1
    <3>2. (((f + at) % p.depth) + p.depth - ((f + p.depth) % p.depth)) % p.depth = at
      BY <1>1, <1>3, RingPlace
    <3>3. ShownIndex(p) = (p.sample + p.depth - (p.head % p.depth)) % p.depth
      BY <1>1, <2>1 DEF ShownIndex
    <3> HIDE DEF f, at
    <3> QED BY <3>1, <3>2, <3>3
  <2>2. CASE p.head < p.depth
    <3>1. p.abs \in 0..(p.depth - 1) /\ p.abs \in Int /\ p.abs = p.depth * 0 + p.abs
      BY <1>1, <2>2
    <3>2. p.abs % p.depth = p.abs
      BY <1>1, <3>1, ModUnique
    <3>3. ShownIndex(p) = p.sample /\ at = p.abs
      BY <1>1, <1>2, <2>2 DEF ShownIndex
    <3> QED BY <3>2, <3>3
  <2> QED BY <1>1, <2>1, <2>2
<1> QED BY <1>4, <1>5, <1>6

\* A finished capture has its trigger where it was ordered, whatever the ring's
\* size, the position, the divider, and the commands given on the way.
THEOREM TriggerFound == WatchSpec => []TriggerInPlace
<1>1. PInv => TriggerInPlace
  <2> SUFFICES ASSUME PInv, p.state = "done", p.triggered, ~wrapped
               PROVE  LET at    == TriggerIndex(p)
                          later == ValidCount(p) - 1 - at
                          after == p.depth - p.pre
                      IN  IF at < 0 THEN p.pre = 0 /\ hit = NoTrigger
                          ELSE /\ at >= p.pre - 1
                               /\ later \in {after - 1, after} /\ later >= 0
                               /\ hit # NoTrigger => Get(p, at) = hit
                               /\ ShownIndex(p) = at
    BY DEF TriggerInPlace
  <2>1. /\ p.head \in 0..(Counts32 - 1) /\ p.depth \in Nat \ {0} /\ p.head = p.count
        /\ Counts32 \in Nat \ {0} /\ p.abs \in Nat /\ p.pre \in Nat /\ p.pre <= p.depth
        /\ p.post = 0
    BY Constants DEF PInv, Ordinary, ProbeRecord
  <2>2. p.sample = p.abs % p.depth /\ (HitStored \/ HitMissed)
    BY DEF PInv, Placed
  <2> DEFINE v == ValidCount(p)
             f == First(p)
             at == TriggerIndex(p)
  <2>3. v = (IF p.head < p.depth THEN p.head ELSE p.depth) /\ f = p.head - v
    BY FirstFacts
  <2> HIDE DEF v, f
  <2>4. CASE HitStored
    <3>1. p.abs >= f /\ p.abs < p.head
      BY <2>1, <2>3, <2>4 DEF HitStored
    <3>2. at = p.abs - f /\ ShownIndex(p) = at /\ Get(p, at) = p.buf[p.abs % p.depth]
      BY <2>2, <3>1, IndexFacts DEF f
    <3> HIDE DEF at
    <3>3. at \in Int /\ v \in Int /\ at = p.abs - f
      BY <2>1, <2>3, <3>2
    <3>4. p.head = p.abs + (IF p.pre = p.depth THEN 1 ELSE p.depth - p.pre) /\ p.pre <= p.abs + 1
      BY <2>1, <2>4 DEF HitStored
    <3>5. at >= 0 /\ at >= p.pre - 1 /\ v - 1 - at >= 0
      BY <2>1, <2>3, <3>3, <3>4
    <3>6. v - 1 - at = p.depth - p.pre - 1 \/ v - 1 - at = p.depth - p.pre
      BY <2>1, <2>3, <3>3, <3>4
    <3>7. Get(p, at) = hit
      BY <2>4, <3>2 DEF HitStored
    <3> QED BY <3>2, <3>3, <3>5, <3>6, <3>7 DEF v, at
  <2>5. CASE HitMissed /\ p.abs < f
    <3>1. at = -1
      BY <2>5 DEF TriggerIndex, f
    <3>2. p.pre = 0 /\ hit = NoTrigger
      <4>1. /\ hit = NoTrigger
            /\ p.head + p.pre - p.depth >= p.pre
            /\ p.abs = IF p.head + p.pre - p.depth > 0 THEN p.head + p.pre - p.depth - 1 ELSE 0
        BY <2>1, <2>5 DEF HitMissed
      <4> QED BY <2>1, <2>3, <2>5, <4>1
    <3> HIDE DEF at
    <3> QED BY <3>1, <3>2 DEF at
  <2>6. CASE HitMissed /\ p.abs >= f
    <3>0. /\ hit = NoTrigger
          /\ p.head + p.pre - p.depth >= p.pre
          /\ p.abs = IF p.head + p.pre - p.depth > 0 THEN p.head + p.pre - p.depth - 1 ELSE 0
      BY <2>1, <2>6 DEF HitMissed
    <3>1. p.abs < p.head
      BY <2>1, <2>3, <3>0
    <3>2. at = p.abs - f /\ ShownIndex(p) = at
      BY <2>2, <2>6, <3>1, IndexFacts DEF f
    <3> HIDE DEF at
    <3>3. at \in Int /\ v \in Int /\ at = p.abs - f
      BY <2>1, <2>3, <3>2
    <3>4. v = p.depth /\ f = p.head - p.depth
      BY <2>1, <2>3, <3>0
    <3>5. at = IF p.pre = 0 THEN 0 ELSE p.pre - 1
      <4>1. CASE p.head + p.pre - p.depth > 0
        <5>1. at = p.pre - 1 /\ at >= 0
          BY <2>1, <2>6, <3>0, <3>3, <3>4, <4>1
        <5> QED BY <2>1, <5>1
      <4>2. CASE p.head + p.pre - p.depth <= 0
        <5>1. p.pre = 0 /\ p.head = p.depth /\ p.abs = 0
          BY <2>1, <3>0, <4>2
        <5> QED BY <2>1, <3>3, <3>4, <5>1
      <4> QED BY <2>1, <4>1, <4>2
    <3>6. at >= 0 /\ at >= p.pre - 1 /\ v - 1 - at >= 0
      BY <2>1, <3>4, <3>5
    <3>7. v - 1 - at = p.depth - p.pre - 1 \/ v - 1 - at = p.depth - p.pre
      BY <2>1, <3>4, <3>5
    <3> QED BY <3>0, <3>2, <3>3, <3>6, <3>7 DEF v, at
  <2>7. p.abs < f \/ p.abs >= f
    BY <2>1, <2>3
  <2> QED BY <2>2, <2>4, <2>5, <2>6, <2>7
<1> QED BY <1>1, PInvAlways, PTL

-----------------------------------------------------------------------------
(* The recorder that the ring implements *)

\* The refinement's mapping, of a probe.
LEMMA Views ==
  /\ Tape = TapeOf(p) /\ Mark = MarkOf(p)
  /\ Tape' = TapeOf(p') /\ Mark' = MarkOf(p')
BY DEF Tape, Mark, TapeOf, MarkOf

\* It sees no more than these fields.
LEMMA SameView ==
  ASSUME NEW q, NEW r, r.head = q.head, r.count = q.count, r.depth = q.depth, r.buf = q.buf,
         r.triggered = q.triggered, r.abs = q.abs
  PROVE  /\ ValidCount(r) = ValidCount(q) /\ TapeOf(r) = TapeOf(q) /\ MarkOf(r) = MarkOf(q)
<1>1. ValidCount(r) = ValidCount(q)
  BY DEF ValidCount
<1>2. First(r) = First(q)
  BY <1>1 DEF First
<1>3. \A i : Get(r, i) = Get(q, i)
  BY <1>2 DEF Get
<1>4. TapeOf(r) = TapeOf(q)
  BY <1>1, <1>3 DEF TapeOf
<1>5. TriggerIndex(r) = TriggerIndex(q)
  BY <1>2 DEF TriggerIndex
<1> QED BY <1>1, <1>4, <1>5 DEF MarkOf

\* A new probe is a new recorder.
LEMMA InitRefines == WatchInit => Course /\ Tapes!Init
<1> SUFFICES ASSUME WatchInit PROVE Course /\ Tapes!Init
  OBVIOUS
<1>1. PInv /\ p \in ProbeRecord
  BY InitInv DEF PInv, Ordinary
<1>2. PICK s \in Samples : p = Powered(Deepest, s)
  BY DEF WatchInit, ProbeInit
<1>3. /\ p.state = "idle" /\ p.head = 0 /\ p.count = 0 /\ p.post = 0 /\ p.pre = 0 /\ p.abs = 0
      /\ p.depth = Deepest
  BY <1>2 DEF Powered
<1>4. Tape = <<>> /\ Mark = 0
  BY <1>1, <1>3, EmptyTape, Views
<1>5. Course
  BY <1>3, Constants DEF Course
<1>6. Tapes!Init
  BY <1>3, <1>4, Constants DEF Tapes!Init
<1> QED BY <1>5, <1>6

\* Arming erases the tape.
LEMMA ArmRefines ==
  ASSUME PInv, NEW q \in ProbeRecord, p' = Arm(q)
  PROVE  /\ Course'
         /\ q.depth = p.depth => Tapes!Arm
         /\ Tapes!Restart
<1>1. /\ p' \in ProbeRecord /\ p'.depth = q.depth /\ p'.pre <= q.depth /\ ~p'.triggered
      /\ p'.head = 0 /\ p'.count = 0 /\ p'.abs = 0
      /\ IF q.trigger = NoTrigger THEN p'.state = "capturing" /\ p'.post = q.depth
         ELSE p'.state = "armed" /\ p'.post = 0
  BY ArmFacts
<1>2. Tape' = <<>> /\ Mark' = 0
  BY <1>1, EmptyTape, Views
<1>3. p'.pre \in 0..p'.depth /\ p'.depth \in Depths
  BY <1>1, Constants DEF ProbeRecord
<1>4. Course'
  BY <1>1, Constants DEF Course
<1>5. q.depth = p.depth => Tapes!Arm
  BY <1>1, <1>2, <1>3 DEF Tapes!Arm
<1>6. Tapes!Restart
  BY <1>1, <1>2, <1>3 DEF Tapes!Restart
<1> QED BY <1>4, <1>5, <1>6

\* A step that the recorder does not see.
LEMMA Unseen ==
  ASSUME Course, p'.state = p.state, p'.head = p.head, p'.count = p.count, p'.depth = p.depth,
         p'.buf = p.buf, p'.triggered = p.triggered, p'.abs = p.abs, p'.pre = p.pre,
         p'.post = p.post
  PROVE  Course' /\ UNCHANGED Tapes!recorder
<1>1. Tape' = Tape /\ Mark' = Mark
  BY SameView, Views
<1>2. Course'
  BY DEF Course, Ahead, ToCome, Beyond
<1> QED BY <1>1, <1>2 DEF Tapes!recorder

\* The settings change the tape's length, or stop the capture, or neither.
LEMMA SettingRefines ==
  ASSUME PInv, Course, Setting
  PROVE  Course' /\ [Tapes!Next]_(Tapes!recorder)
<1>1. p \in ProbeRecord /\ p.depth \in Depths
  BY DEF PInv, Ordinary, ProbeRecord
<1>2. CASE CliTrigger \/ CliPos \/ CliRate
  <2>1. /\ p'.state = p.state /\ p'.head = p.head /\ p'.count = p.count /\ p'.depth = p.depth
        /\ p'.buf = p.buf /\ p'.triggered = p.triggered /\ p'.abs = p.abs /\ p'.pre = p.pre
        /\ p'.post = p.post
    <3>1. CASE CliTrigger
      BY <1>1, <3>1 DEF CliTrigger, ProbeRecord
    <3>2. CASE CliPos
      BY <1>1, <3>2 DEF CliPos, ProbeRecord
    <3>3. CASE CliRate
      BY <1>1, <3>3 DEF CliRate, ProbeRecord
    <3> QED BY <1>2, <3>1, <3>2, <3>3
  <2> QED BY <2>1, Unseen
<1>3. CASE CliDepth
  <2>1. PICK d \in Depths : p' = SetDepth(p, d)
    BY <1>3 DEF CliDepth
  <2>2. CASE d = p.depth
    <3>1. p' = p
      BY <1>1, <2>1, <2>2 DEF SetDepth, ProbeRecord
    <3> QED BY <3>1, Unseen
  <2>3. CASE d # p.depth
    <3>1. /\ p' \in ProbeRecord /\ p'.depth = d /\ p'.pre = p.pre /\ p'.abs = p.abs
          /\ p'.state = "idle" /\ p'.post = 0 /\ p'.head = 0 /\ p'.count = 0
      BY <1>1, <2>1, <2>3, SetDepthFacts
    <3>2. Tape' = <<>> /\ Mark' = 0
      BY <3>1, EmptyTape, Views
    <3>3. Tapes!Resize
      BY <2>3, <3>1, <3>2 DEF Tapes!Resize
    <3> QED BY <3>1, <3>3 DEF Course, Tapes!Next
  <2> QED BY <2>2, <2>3
<1>4. CASE Stop
  <2>1. /\ p'.state = "idle" /\ p'.head = p.head /\ p'.count = p.count /\ p'.depth = p.depth
        /\ p'.buf = p.buf /\ p'.triggered = p.triggered /\ p'.abs = p.abs /\ p'.pre = p.pre
        /\ p'.post = p.post
    BY <1>1, <1>4 DEF Stop, Disarm, ProbeRecord
  <2>2. Tape' = Tape /\ Mark' = Mark
    BY <2>1, SameView, Views
  <2>3. Tapes!Disarm
    BY <2>1, <2>2 DEF Tapes!Disarm
  <2> QED BY <2>1, <2>3 DEF Course, Tapes!Next
<1> QED BY <1>2, <1>3, <1>4 DEF Setting

\* A micro-step of a capture: a sample kept, or skipped.
LEMMA CapturingRefines ==
  ASSUME PInv, Course, p.state = "capturing", NEW s \in Samples, p' = SampledCapturing(p, s)
  PROVE  Course' /\ Tapes!Capture
<1> DEFINE t == Ticked(p, s)
<1>1. /\ p \in ProbeRecord /\ p.depth \in Nat \ {0} /\ p.div > 0 /\ p.post \in 1..p.depth
      /\ p.head = p.count /\ Counts32 \in Nat /\ p.abs < Counts32
  BY Constants DEF PInv, Ordinary, ProbeRecord, Course
<1>2. /\ t \in ProbeRecord
      /\ t.state = p.state /\ t.depth = p.depth /\ t.pre = p.pre /\ t.post = p.post
      /\ t.triggered = p.triggered /\ t.abs = p.abs
      /\ IF Due(p) THEN /\ t.head = (p.head + 1) % Counts32
                        /\ t.count = (p.count + 1) % Counts32
                        /\ t.buf = [p.buf EXCEPT ![p.head % p.depth] = s]
         ELSE t.head = p.head /\ t.count = p.count /\ t.buf = p.buf
  BY <1>1, TickedFacts
<1> HIDE DEF t
<1>3. CASE ~Due(p)
  <2>1. p' = t
    BY <1>3 DEF SampledCapturing, t
  <2>2. Course' /\ UNCHANGED Tapes!recorder
    BY <1>2, <1>3, <2>1, Unseen
  <2>3. p'.post # 0 /\ p'.state = "capturing"
    BY <1>1, <1>2, <2>1
  <2>4. Tapes!Capture
    BY <2>2, <2>3 DEF Tapes!Capture, Tapes!Skip, Tapes!recorder
  <2> QED BY <2>2, <2>4
<1>4. CASE Due(p)
  <2> DEFINE st == IF p.post = 1 THEN "done" ELSE "capturing"
  <2>1. p' = [t EXCEPT !.post = p.post - 1, !.state = st]
    BY <1>2, <1>4 DEF SampledCapturing, t, ProbeRecord
  <2>2. /\ p'.state = st /\ p'.depth = p.depth /\ p'.pre = p.pre /\ p'.post = p.post - 1
        /\ p'.abs = p.abs /\ p'.head = (p.head + 1) % Counts32
        /\ p'.count = (p.count + 1) % Counts32
        /\ p'.buf = [p.buf EXCEPT ![p.head % p.depth] = s]
    BY <1>2, <1>4, <2>1 DEF ProbeRecord
  <2>3. p'.triggered = p.triggered
    BY <1>2, <2>1 DEF ProbeRecord
  <2>4. p' \in ProbeRecord
    <3>1. p.post - 1 \in Nat /\ st \in States
      BY <1>1 DEF States
    <3> HIDE DEF st
    <3> QED BY <1>2, <2>1, <3>1 DEF ProbeRecord
  <2>5. /\ p'.count # p.count /\ p'.head = p'.count
        /\ p'.head = IF p.head + 1 = Counts32 THEN 0 ELSE p.head + 1
        /\ TapeOf(p') = IF p'.count = 0 THEN <<>> ELSE Tapes!Newest(Append(TapeOf(p), s), p.depth)
    BY <1>1, <2>2, <2>4, KeptTape
  <2>6. p.triggered => Ahead(p) \/ ToCome(p) \/ Beyond(p)
    BY DEF Course
  <2>7. /\ p'.triggered => Ahead(p') \/ Beyond(p')
        /\ p'.post > 0 => ~(p'.triggered /\ p'.count = 0 /\ p'.abs = 0)
        /\ MarkOf(p') = IF p'.count = 0 THEN 0
                        ELSE IF p.triggered /\ p.count = 0 /\ p.abs = 0 THEN 1
                        ELSE IF MarkOf(p) > 0 /\ ValidCount(p) = p.depth THEN MarkOf(p) - 1
                        ELSE MarkOf(p)
    BY <1>1, <2>2, <2>3, <2>4, <2>5, <2>6, MovedMark
  <2>8. p'.state = (IF p'.post = 0 THEN "done" ELSE "capturing")
    BY <1>1, <2>2
  <2>9. ~(p'.state = "capturing" /\ p'.triggered /\ p'.count = 0 /\ p'.abs = 0)
    <3>1. p'.state = "capturing" => p'.post > 0
      BY <1>1, <2>2, <2>8
    <3> QED BY <2>7, <3>1
  <2>10. Tapes!Keep
    <3>1. Tape' = IF p'.count = 0 THEN <<>> ELSE Tapes!Newest(Append(Tape, s), p.depth)
      BY <2>5, Views
    <3> QED BY <2>2, <3>1 DEF Tapes!Keep
  <2>11. Len(Tape) = ValidCount(p)
    BY <1>1, TapeType, Views
  <2>12. Mark' = Tapes!Moved
    <3>1. Mark' = IF p'.count = 0 THEN 0
                  ELSE IF p.triggered /\ p.count = 0 /\ p.abs = 0 THEN 1
                  ELSE IF Mark > 0 /\ Len(Tape) = p.depth THEN Mark - 1
                  ELSE Mark
      BY <2>7, <2>11, Views
    <3> QED BY <3>1 DEF Tapes!Moved
  <2>13. Tapes!Capture
    BY <2>2, <2>8, <2>9, <2>10, <2>12 DEF Tapes!Capture
  <2>14. Course'
    BY <1>1, <2>2, <2>7 DEF Course
  <2> QED BY <2>13, <2>14
<1> QED BY <1>3, <1>4

\* A micro-step while armed: a sample, and the trigger's mark.
LEMMA ArmedRefines ==
  ASSUME PInv, Course, p.state = "armed", NEW s \in Samples, p' = SampledArmed(p, s, s = p.trigger)
  PROVE  Course' /\ (Tapes!Listen \/ Tapes!Trigger)
<1> DEFINE r == Ticked(p, s)
           t == [r EXCEPT !.prev = IF s = p.trigger THEN "yes" ELSE "no"]
           left == Left(t, Due(p))
<1>1. /\ p \in ProbeRecord /\ p.depth \in Nat \ {0} /\ p.div > 0
      /\ p.pre \in Nat /\ p.pre <= p.depth
      /\ p.head \in 0..(Counts32 - 1) /\ p.head = p.count /\ Counts32 \in Nat /\ Counts32 >= 2
      /\ ~p.triggered /\ p.abs < Counts32
  BY Constants DEF PInv, Ordinary, ProbeRecord, Course
<1>2. /\ r \in ProbeRecord
      /\ r.state = p.state /\ r.depth = p.depth /\ r.pre = p.pre /\ r.post = p.post
      /\ r.triggered = p.triggered /\ r.abs = p.abs
      /\ IF Due(p) THEN /\ r.head = (p.head + 1) % Counts32
                        /\ r.count = (p.count + 1) % Counts32
                        /\ r.buf = [p.buf EXCEPT ![p.head % p.depth] = s]
         ELSE r.head = p.head /\ r.count = p.count /\ r.buf = p.buf
  BY <1>1, TickedFacts
<1> HIDE DEF r
<1>3. /\ t.state = p.state /\ t.depth = p.depth /\ t.pre = p.pre /\ t.post = p.post
      /\ t.abs = p.abs /\ t.head = r.head /\ t.count = r.count /\ t.buf = r.buf
  BY <1>2 DEF ProbeRecord
<1>4. t.triggered = p.triggered
  BY <1>2 DEF ProbeRecord
<1>5. t \in ProbeRecord
  BY <1>2 DEF ProbeRecord
<1>6. p' = IF Fires(p, s = p.trigger) /\ t.count >= t.pre THEN Triggered(t, left) ELSE t
  BY DEF SampledArmed, r
<1>7. left = IF Due(p) /\ p.depth - p.pre > 0 THEN p.depth - p.pre - 1 ELSE p.depth - p.pre
  BY <1>3 DEF Left
<1>8. left \in Nat /\ left <= p.depth
  BY <1>1, <1>7
<1> HIDE DEF t, left
<1>9. /\ p'.depth = p.depth /\ p'.pre = p.pre
      /\ p'.head = t.head /\ p'.count = t.count /\ p'.buf = t.buf /\ p' \in ProbeRecord
  <2>1. CASE p' = t
    BY <1>3, <1>5, <2>1
  <2>2. CASE p' = Triggered(t, left)
    BY <1>3, <1>5, <1>8, <2>2, TriggeredFacts
  <2> QED BY <1>6, <2>1, <2>2
<1>10. /\ p'.head = p'.count /\ (Due(p) <=> p'.count # p.count)
       /\ Tapes!Keep \/ Tapes!Skip
  <2>1. CASE Due(p)
    <3>1. /\ p'.count # p.count /\ p'.head = p'.count
          /\ TapeOf(p') = IF p'.count = 0 THEN <<>> ELSE Tapes!Newest(Append(TapeOf(p), s), p.depth)
      BY <1>1, <1>2, <1>3, <1>9, <2>1, KeptTape
    <3>2. Tape' = IF p'.count = 0 THEN <<>> ELSE Tapes!Newest(Append(Tape, s), p.depth)
      BY <3>1, Views
    <3>3. p'.count = (p.count + 1) % Counts32
      BY <1>2, <1>3, <1>9, <2>1
    <3>4. Tapes!Keep
      BY <3>2, <3>3 DEF Tapes!Keep
    <3> QED BY <2>1, <3>1, <3>4
  <2>2. CASE ~Due(p)
    <3>1. p'.head = p.head /\ p'.count = p.count /\ p'.buf = p.buf
      BY <1>2, <1>3, <1>9, <2>2
    <3>2. TapeOf(p') = TapeOf(p)
      <4>1. ValidCount(p') = ValidCount(p) /\ First(p') = First(p)
        BY <1>9, <3>1 DEF ValidCount, First
      <4> QED BY <1>9, <3>1, <4>1 DEF TapeOf, Get
    <3>3. Tapes!Skip
      BY <3>1, <3>2, Views DEF Tapes!Skip
    <3> QED BY <1>1, <2>2, <3>1, <3>3
  <2> QED BY <2>1, <2>2
<1>11. Mark = 0
  BY <1>1, MarkFacts, Views
<1>12. CASE p' = t
  <2>1. p'.state = "armed" /\ ~p'.triggered /\ p'.abs < Counts32 /\ p'.post = p.post
    BY <1>1, <1>3, <1>4, <1>12
  <2>2. Mark' = 0
    BY <1>9, <1>10, <2>1, MarkFacts, Views
  <2>3. Tapes!Listen
    BY <1>9, <1>10, <1>11, <2>1, <2>2 DEF Tapes!Listen
  <2>4. Course'
    BY <2>1 DEF Course
  <2> QED BY <2>3, <2>4
<1>13. CASE t.count >= t.pre /\ p' = Triggered(t, left)
  <2>1. /\ p'.triggered /\ p'.post = left /\ p'.abs = Newest(t)
        /\ p'.state = IF left = 0 THEN "done" ELSE "capturing"
    BY <1>5, <1>8, <1>13, TriggeredFacts
  <2>2. /\ p'.head \in 0..(Counts32 - 1) /\ p'.depth \in Nat \ {0}
        /\ ValidCount(p') = (IF p'.head < p'.depth THEN p'.head ELSE p'.depth)
        /\ First(p') = p'.head - ValidCount(p')
    BY <1>9, <1>10, RingFacts
  <2>3. p'.abs = (IF p'.head > 0 THEN p'.head ELSE 1) - 1
    BY <1>9, <2>1 DEF Newest
  <2>4. Course'
    <3>1. p'.abs < Counts32
      BY <1>1, <2>2, <2>3
    <3>2. Ahead(p') \/ ToCome(p')
      BY <1>8, <1>9, <2>1, <2>2, <2>3 DEF Ahead, ToCome
    <3> QED BY <3>1, <3>2 DEF Course
  <2>5. Len(Tape') = ValidCount(p') /\ (Tape' = <<>> <=> p'.count = 0)
    <3>1. Tape' \in Seq(Samples) /\ Len(Tape') = ValidCount(p')
      BY <1>9, <1>10, TapeType, Views
    <3>2. ValidCount(p') = 0 <=> p'.count = 0
      BY <1>10, <2>2
    <3> QED BY <3>1, <3>2, EmptySeq
  <2>6. Mark' = Len(Tape')
    <3>1. p'.abs < Counts32
      BY <1>1, <2>2, <2>3
    <3>2. /\ p'.head = 0 => Mark' = 0
          /\ p'.triggered /\ p'.abs < p'.head =>
               Mark' = IF p'.abs < First(p') THEN 0 ELSE p'.abs - First(p') + 1
      BY <1>9, <1>10, <3>1, MarkFacts, Views
    <3> QED BY <2>1, <2>2, <2>3, <2>5, <3>2
  <2>7. (p'.state = "capturing" /\ p'.triggered /\ p'.count = 0 /\ p'.abs = 0)
          <=> (Tape' = <<>> /\ p'.state = "capturing")
    BY <1>10, <2>1, <2>2, <2>3, <2>5
  <2>8. p'.count >= p.pre
    BY <1>3, <1>9, <1>13
  <2>9. p'.post = LET after == p.depth - p.pre
                  IN  IF p'.count # p.count /\ after > 0 THEN after - 1 ELSE after
    BY <1>7, <1>10, <2>1
  <2>10. Tapes!Trigger
    BY <1>9, <1>10, <2>1, <2>6, <2>7, <2>8, <2>9 DEF Tapes!Trigger
  <2> QED BY <2>4, <2>10
<1> QED BY <1>6, <1>12, <1>13

\* Every command and every micro-step is one of the recorder's, or none.
LEMMA StepRefines ==
  PInv /\ Course /\ [WatchNext]_watchedvars => Course' /\ [Tapes!Next]_(Tapes!recorder)
<1> SUFFICES ASSUME PInv, Course, [WatchNext]_watchedvars
             PROVE  Course' /\ [Tapes!Next]_(Tapes!recorder)
  OBVIOUS
<1>1. p \in ProbeRecord
  BY DEF PInv, Ordinary
<1>2. CASE WatchSample
  <2>1. CASE p.state = "armed"
    <3>1. PICK s \in Samples : p' = SampledArmed(p, s, s = p.trigger)
      BY <1>2, <2>1 DEF WatchSample, Sample
    <3> QED BY <2>1, <3>1, ArmedRefines DEF Tapes!Next
  <2>2. CASE p.state = "capturing"
    <3>1. PICK s \in Samples : p' = SampledCapturing(p, s)
      BY <1>2, <2>2 DEF WatchSample, Sample
    <3> QED BY <2>2, <3>1, CapturingRefines DEF Tapes!Next
  <2> QED BY <1>2, <2>1, <2>2 DEF WatchSample, Sample
<1>3. CASE Arming
  <2>1. CASE CliArm
    BY <1>1, <2>1, ArmRefines DEF CliArm, Tapes!Next
  <2>2. CASE WebArm
    <3>1. PICK u \in Triggers, e \in BOOLEAN, d \in Depths, n \in Dividers, k \in Percents :
            p' = Arm([SetDepth(Chosen(p, u, e), d) EXCEPT !.divider = n, !.pct = k])
      BY <2>2 DEF WebArm
    <3> DEFINE q == [SetDepth(Chosen(p, u, e), d) EXCEPT !.divider = n, !.pct = k]
    <3>2. q \in ProbeRecord
      <4>1. Chosen(p, u, e) \in ProbeRecord
        BY <1>1 DEF Chosen, ProbeRecord
      <4>2. SetDepth(Chosen(p, u, e), d) \in ProbeRecord
        BY <4>1, SetDepthFacts
      <4>3. n \in Nat \ {0} /\ k \in 0..100
        BY DividersAssumption, PercentsAssumption
      <4> QED BY <4>2, <4>3 DEF ProbeRecord
    <3> HIDE DEF q
    <3>3. p' = Arm(q)
      BY <3>1 DEF q
    <3> QED BY <3>2, <3>3, ArmRefines DEF Tapes!Next
  <2> QED BY <1>3, <2>1, <2>2 DEF Arming
<1>4. CASE Setting
  BY <1>4, SettingRefines
<1>5. CASE UNCHANGED watchedvars
  <2>1. p' = p
    BY <1>5 DEF watchedvars, probevars
  <2> QED BY <2>1, Unseen
<1> QED BY <1>2, <1>3, <1>4, <1>5 DEF WatchNext

\* The ring implements the recorder: whatever its size, the position of the
\* trigger, the divider and the commands given on the way, and though the
\* counters begin again, the tape is the newest samples and the mark is on the
\* trigger's.
THEOREM Recorded == WatchSpec => ImplementsRecorder
<1>1. WatchInit => PInv /\ Course /\ Tapes!Init
  BY InitInv, InitRefines
<1>2. PInv /\ Course /\ [WatchNext]_watchedvars => PInv' /\ Course'
  BY StepInv, StepRefines
<1>3. PInv /\ Course /\ [WatchNext]_watchedvars => [Tapes!Next]_(Tapes!recorder)
  BY StepRefines
<1> QED BY <1>1, <1>2, <1>3, PTL DEF WatchSpec, ImplementsRecorder, Tapes!Spec, Tapes!recorder

-----------------------------------------------------------------------------
(* The three components *)

\* The three share no state: whatever is proved of one by itself holds of it
\* beside the others.
LEMMA Apart == AloneSpec => Spec /\ WatchSpec /\ WSpec
<1>1. AloneInit => Init /\ WatchInit /\ WInit
  BY DEF AloneInit
<1>2. [AloneNext]_alonevars => [Next]_vars /\ [WatchNext]_watchedvars /\ [WNext]_wvars
  BY DEF AloneNext, alonevars
<1> QED BY <1>1, <1>2, PTL DEF AloneSpec, Spec, WatchSpec, WSpec

\* The controller's queue, the analyzer's fields and the run loop's counters
\* keep their types.
THEOREM AloneTypeCorrect == AloneSpec => []AloneTypeOK
<1>1. TypeOK /\ ProbeTypeOK /\ LoopTypeOK => AloneTypeOK
  BY DEF AloneTypeOK
<1> QED BY <1>1, Apart, TypeCorrect, ProbeTypeCorrect, LoopTypeCorrect, PTL
=============================================================================
