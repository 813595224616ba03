-------------------------- MODULE IntQueueProofs ---------------------------
(***************************************************************************)
(* Lemmas about the request queue of int.c, for every set of vectors and   *)
(* every capacity that has a place for each: what a request, a withdrawal  *)
(* and a grant leave in it.                                                *)
(***************************************************************************)
EXTENDS IntQueue, FiniteSetTheorems, NaturalsInduction,
        WellFoundedInduction, TLAPS

\* Removing the entry i by moving the last one into its place leaves a queue
\* with the others, whatever is in it.
LEMMA SwapOutKeeps ==
  ASSUME NEW S, NEW q \in Seq(S), NEW i \in DOMAIN q
  PROVE  /\ SwapOut(q, i) \in Seq(S) /\ Len(SwapOut(q, i)) = Len(q) - 1
         /\ \A v \in Pending(q) : v # q[i] => v \in Pending(SwapOut(q, i))
<1> DEFINE n == Len(q)
           s == SwapOut(q, i)
<1>1. n \in Nat /\ n > 0 /\ DOMAIN q = 1..n /\ i \in 1..n /\ \A j \in 1..n : q[j] \in S
  OBVIOUS
<1>2. s \in Seq(S) /\ Len(s) = n - 1 /\ DOMAIN s = 1..(n - 1)
  BY <1>1 DEF SwapOut
<1>3. \A j \in 1..(n - 1) : s[j] = IF j = i THEN q[n] ELSE q[j]
  BY <1>1 DEF SwapOut
<1> HIDE DEF n, s
<1>4. ASSUME NEW v \in Pending(q), v # q[i] PROVE v \in Pending(s)
  <2>1. PICK k \in 1..n : v = q[k]
    BY <1>1 DEF Pending
  <2>2. CASE k = n
    BY <1>1, <1>2, <1>3, <1>4, <2>1, <2>2 DEF Pending
  <2>3. CASE k # n
    <3>1. k \in 1..(n - 1)
      BY <1>1, <2>3
    <3>2. k # i
      BY <1>4, <2>1
    <3>3. s[k] = v /\ k \in DOMAIN s
      BY <1>2, <1>3, <2>1, <3>1, <3>2
    <3> QED BY <3>3 DEF Pending
  <2> QED BY <2>2, <2>3
<1> QED BY <1>2, <1>4 DEF s, n

\* In a queue that holds each vector once, exactly the others are left.
LEMMA SwapOutFacts ==
  ASSUME NEW q \in Seq(Vectors), NEW i \in DOMAIN q, NoDuplicates(q)
  PROVE  /\ SwapOut(q, i) \in Seq(Vectors)
         /\ Len(SwapOut(q, i)) = Len(q) - 1
         /\ NoDuplicates(SwapOut(q, i))
         /\ Pending(SwapOut(q, i)) = Pending(q) \ {q[i]}
<1> DEFINE n == Len(q)
           s == SwapOut(q, i)
<1>1. n \in Nat /\ n > 0 /\ DOMAIN q = 1..n /\ i \in 1..n
  OBVIOUS
<1>2. s \in Seq(Vectors) /\ Len(s) = n - 1 /\ \A v \in Pending(q) : v # q[i] => v \in Pending(s)
  BY SwapOutKeeps
<1>3. \A j \in 1..(n - 1) : s[j] = IF j = i THEN q[n] ELSE q[j]
  BY <1>1 DEF SwapOut
<1> HIDE DEF n, s
<1>4. DOMAIN s = 1..(n - 1)
  BY <1>2
<1>5. NoDuplicates(s)
  BY <1>1, <1>3, <1>4 DEF NoDuplicates
<1>6. Pending(s) \subseteq Pending(q) \ {q[i]}
  BY <1>1, <1>3, <1>4 DEF NoDuplicates, Pending
<1> QED BY <1>2, <1>5, <1>6 DEF s, n

\* A queue without duplicates is no longer than the set of vectors is large.
LEMMA LengthBound ==
  ASSUME NEW q \in Seq(Vectors), NoDuplicates(q)
  PROVE  Len(q) <= Cardinality(Pending(q)) /\ IsFiniteSet(Pending(q))
         /\ Cardinality(Pending(q)) <= Cardinality(Vectors)
<1>1. Pending(q) \subseteq Vectors
  BY DEF Pending
<1>2. IsFiniteSet(Pending(q)) /\ Cardinality(Pending(q)) <= Cardinality(Vectors)
  BY <1>1, CapacityAssumption, FS_Subset
<1>3. [j \in 1..Len(q) |-> q[j]] \in Injection(1..Len(q), Pending(q))
  BY DEF Injection, IsInjective, NoDuplicates, Pending
<1>4. IsFiniteSet(1..Len(q)) /\ Cardinality(1..Len(q)) = Len(q)
  <2>1. 1 \in Int /\ Len(q) \in Int /\ Len(q) >= 0
    OBVIOUS
  <2> QED BY <2>1, FS_Interval
<1>5. Cardinality(1..Len(q)) <= Cardinality(Pending(q))
  BY <1>2, <1>3, FS_Injection
<1> QED BY <1>2, <1>4, <1>5

\* A request is never refused: afterwards exactly the old vectors and the new
\* one are pending, each once.
LEMMA RequestFacts ==
  ASSUME NEW q \in Seq(Vectors), NoDuplicates(q), NEW v \in Vectors
  PROVE  /\ Request(q, v) \in Seq(Vectors)
         /\ Len(Request(q, v)) <= IF Len(q) <= MaxPending THEN MaxPending ELSE Len(q)
         /\ NoDuplicates(Request(q, v))
         /\ Pending(Request(q, v)) = Pending(q) \cup {v}
<1>1. MaxPending \in Nat
  BY CapacityAssumption
<1>2. CASE v \in Pending(q)
  BY <1>1, <1>2 DEF Request
<1>3. CASE v \notin Pending(q)
  <2>1. Pending(q) \in SUBSET Vectors /\ Pending(q) # Vectors
    BY <1>3 DEF Pending
  <2>2. Cardinality(Pending(q)) # Cardinality(Vectors)
    BY <2>1, CapacityAssumption, FS_Subset
  <2>3. /\ Len(q) <= Cardinality(Pending(q)) /\ IsFiniteSet(Pending(q))
        /\ Cardinality(Pending(q)) <= Cardinality(Vectors)
    BY LengthBound
  <2>4. Cardinality(Pending(q)) \in Nat /\ Cardinality(Vectors) \in Nat
    BY <2>3, CapacityAssumption, FS_CardinalityType
  <2>5. Len(q) < MaxPending
    BY <1>1, <2>2, <2>3, <2>4, CapacityAssumption
  <2>6. Request(q, v) = Append(q, v)
    BY <1>3, <2>5 DEF Request
  <2>7. NoDuplicates(Append(q, v))
    BY <1>3 DEF NoDuplicates, Pending
  <2>8. Pending(Append(q, v)) = Pending(q) \cup {v}
    <3>1. Pending(Append(q, v)) \subseteq Pending(q) \cup {v}
      BY DEF Pending
    <3>2. v \in Pending(Append(q, v))
      <4>1. Append(q, v)[Len(q) + 1] = v /\ Len(q) + 1 \in DOMAIN Append(q, v)
        OBVIOUS
      <4> QED BY <4>1 DEF Pending
    <3>3. ASSUME NEW w \in Pending(q) PROVE w \in Pending(Append(q, v))
      <4>1. PICK j \in DOMAIN q : w = q[j]
        BY DEF Pending
      <4>2. Append(q, v)[j] = w /\ j \in DOMAIN Append(q, v)
        BY <4>1
      <4> QED BY <4>2 DEF Pending
    <3> QED BY <3>1, <3>2, <3>3
  <2> QED BY <1>1, <2>5, <2>6, <2>7, <2>8
<1> QED BY <1>2, <1>3

\* Withdrawing a request leaves the other ones pending, each once.
LEMMA CancelFacts ==
  ASSUME NEW q \in Seq(Vectors), NoDuplicates(q), NEW v
  PROVE  /\ Cancel(q, v) \in Seq(Vectors)
         /\ Len(Cancel(q, v)) <= Len(q)
         /\ NoDuplicates(Cancel(q, v))
         /\ Pending(Cancel(q, v)) = Pending(q) \ {v}
<1>1. CASE v \notin Pending(q)
  BY <1>1 DEF Cancel
<1>2. CASE v \in Pending(q)
  <2> DEFINE i == CHOOSE j \in DOMAIN q : q[j] = v
  <2>1. i \in DOMAIN q /\ q[i] = v
    BY <1>2 DEF Pending
  <2>2. Cancel(q, v) = SwapOut(q, i)
    BY <1>2 DEF Cancel
  <2> HIDE DEF i
  <2>3. Len(q) \in Nat /\ Len(q) - 1 <= Len(q)
    OBVIOUS
  <2> QED BY <2>1, <2>2, <2>3, SwapOutFacts
<1> QED BY <1>1, <1>2

\* int_pending's scan finds an entry whenever E29 grants a level.
LEMMA FirstGrantableFacts ==
  ASSUME NEW S, NEW q \in Seq(S), NEW p, Grantable(q, p) # {}
  PROVE  FirstGrantable(q, p) \in Grantable(q, p)
<1> DEFINE G == Grantable(q, p)
<1>1. G \subseteq Nat
  BY DEF Grantable
<1>2. PICK i \in G : \A j \in G : ~ (<<j, i>> \in OpToRel(<, Nat))
  BY <1>1, NatLessThanWellFounded, WFMin
<1>3. ASSUME NEW j \in G PROVE i <= j
  <2>1. i \in Nat /\ j \in Nat
    BY <1>1
  <2>2. <<j, i>>[1] = j /\ <<j, i>>[2] = i /\ <<j, i>> \in Nat \X Nat
    BY <2>1
  <2>3. j < i => <<j, i>> \in OpToRel(<, Nat)
    BY <2>2, Zenon DEF OpToRel
  <2>4. ~ (j < i)
    BY <1>2, <2>3, Zenon
  <2> QED BY <2>1, <2>4
<1> QED BY <1>3 DEF FirstGrantable

\* A queue is a sequence of what is pending in it.
LEMMA QueueOfPending ==
  ASSUME NEW S, NEW q \in Seq(S)
  PROVE  q \in Seq(Pending(q))
<1>1. Len(q) \in Nat /\ q \in [1..Len(q) -> Pending(q)]
  BY DEF Pending
<1> QED BY <1>1
=============================================================================
