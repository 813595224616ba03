----------------------------- MODULE DisksProofs -----------------------------
(***************************************************************************)
(* Proofs about the two disk controllers, for every geometry, every width  *)
(* of the count and of the bus address, every size of memory and every set *)
(* of images.                                                              *)
(***************************************************************************)
EXTENDS Disks, WellFoundedInduction, TLAPS

-----------------------------------------------------------------------------
(* Numbers *)

\* Quotients and remainders stay in the widths of their registers.
LEMMA Division ==
  ASSUME NEW a \in Nat, NEW b \in Nat \ {0}
  PROVE  a \div b \in Nat /\ a % b \in 0..(b - 1) /\ a % b \in Nat
OBVIOUS

\* Products, which give sizes in sectors, are natural numbers.
LEMMA Products ==
  ASSUME NEW a \in Nat, NEW b \in Nat
  PROVE  a * b \in Nat /\ (a # 0 /\ b # 0 => a * b # 0)
OBVIOUS

\* The smaller and the larger of two integers are among them.
LEMMA MinMaxOfTwo ==
  ASSUME NEW a \in Int, NEW b \in Int
  PROVE  /\ Min({a, b}) \in {a, b} /\ Min({a, b}) <= a /\ Min({a, b}) <= b
         /\ Max({a, b}) \in {a, b} /\ Max({a, b}) >= a /\ Max({a, b}) >= b
<1>1. \E x \in {a, b} : \A y \in {a, b} : x =< y
  OBVIOUS
<1>2. \E x \in {a, b} : \A y \in {a, b} : x >= y
  OBVIOUS
<1> QED BY <1>1, <1>2 DEF Min, Max

\* A set of natural numbers that is not empty has its minimum.
LEMMA MinOfNats ==
  ASSUME NEW S \in SUBSET Nat, S # {}
  PROVE  Min(S) \in S
<1>1. PICK x \in S : \A y \in S : ~ (<<y, x>> \in OpToRel(<, Nat))
  BY NatLessThanWellFounded, WFMin
<1>2. ASSUME NEW y \in S PROVE x =< y
  <2>1. x \in Nat /\ y \in Nat
    OBVIOUS
  <2>2. <<y, x>>[1] = y /\ <<y, x>>[2] = x /\ <<y, x>> \in Nat \X Nat
    BY <2>1
  <2>3. y < x => <<y, x>> \in OpToRel(<, Nat)
    BY <2>2, Zenon DEF OpToRel
  <2>4. ~ (y < x)
    BY <1>1, <2>3, Zenon
  <2> QED BY <2>1, <2>4
<1> QED BY <1>2 DEF Min

\* A quotient and a remainder are determined by what they stand for.
LEMMA Unique ==
  ASSUME NEW n \in Nat \ {0}, NEW b \in Nat, NEW m \in 0..(n - 1)
  PROVE  (n * b + m) % n = m /\ (n * b + m) \div n = b
OBVIOUS

\* The quotient by a product is the quotient of the quotient: a number is put
\* together again from the page, counted modulo the pages, and the place in it.
LEMMA Nested ==
  ASSUME NEW x \in Nat, NEW p \in Nat \ {0}, NEW q \in Nat \ {0}
  PROVE  /\ ((x \div p) % q) * p + (x % p) = x % (q * p)
         /\ (x \div p) \div q = x \div (q * p)
<1> DEFINE a == x \div p
           r == x % p
<1>1. a \in Nat /\ r \in 0..(p - 1) /\ x = p * a + r
  OBVIOUS
<1> HIDE DEF a, r
<1> DEFINE b == a \div q
           s == a % q
<1>2. b \in Nat /\ s \in 0..(q - 1) /\ a = q * b + s
  BY <1>1
<1> HIDE DEF b, s
<1>3. x = (q * p) * b + (s * p + r)
  BY <1>1, <1>2
<1>4. s * p + r \in 0..(q * p - 1)
  <2>1. s * p \in Nat /\ (q - 1 - s) * p \in Nat
    BY <1>2
  <2>2. (q - 1 - s) * p = q * p - p - s * p
    BY <1>2
  <2> QED BY <1>1, <2>1, <2>2
<1>5. q * p \in Nat \ {0}
  OBVIOUS
<1>6. x % (q * p) = s * p + r /\ x \div (q * p) = b
  <2> DEFINE n == q * p
             m == s * p + r
  <2>1. n \in Nat \ {0} /\ m \in 0..(n - 1) /\ x = n * b + m
    BY <1>3, <1>4, <1>5
  <2> HIDE DEF n, m
  <2>2. x % n = m /\ x \div n = b
    BY <1>2, <2>1, Unique
  <2> QED BY <2>2 DEF n, m
<1> QED BY <1>6 DEF a, r, b, s

\* A count that wrapped gives back what was added to it.
LEMMA Wrapped ==
  ASSUME NEW a \in Nat, NEW b \in Nat, NEW k \in Nat \ {0}, a < k, b < k
  PROVE  /\ (((a + b) % k) - a) % k = b
         /\ (a + b) % k = 0 => a + b = 0 \/ a + b = k
OBVIOUS

\* Addresses wrap alike before and after an advance.
LEMMA Ahead ==
  ASSUME NEW f \in Nat, NEW m \in Nat, NEW d \in 0..m, NEW k \in Nat \ {0}
  PROVE  /\ (((f + m) % k) - f - d) % k = (m - d) % k
         /\ (m - d) % k <= m - d
<1> DEFINE q == (f + m) \div k
           r == (f + m) % k
<1>1. q \in Int /\ r \in Int /\ f + m = k * q + r
  OBVIOUS
<1> HIDE DEF q, r
<1>2. r - f - d = (m - d) - k * q
  BY <1>1
<1>3. ((m - d) - k * q) % k = (m - d) % k
  <2> DEFINE x == m - d
             a == x \div k
             b == x % k
  <2>1. a \in Int /\ b \in 0..(k - 1) /\ x = k * a + b
    OBVIOUS
  <2> HIDE DEF a, b
  <2>2. x - k * q = k * (a - q) + b
    BY <1>1, <2>1
  <2> DEFINE c == a - q
  <2>3. c \in Int
    BY <1>1, <2>1
  <2> HIDE DEF c
  <2>4. (k * c + b) % k = b
    BY <2>1, <2>3
  <2> QED BY <2>2, <2>4 DEF b, c
<1>4. (m - d) % k <= m - d
  OBVIOUS
<1> QED BY <1>2, <1>3, <1>4 DEF r

\* A quotient is monotonic, and its remainder less than the divisor.
LEMMA Whole ==
  ASSUME NEW x \in Nat, NEW w \in Nat \ {0}, NEW s \in Nat, x <= s * w
  PROVE  /\ x \div w <= s
         /\ ((x \div w) * w) % w = 0
         /\ x - (x \div w) * w < w /\ x - (x \div w) * w >= 0
         /\ x \div w \in Nat
<1> DEFINE q == x \div w
           r == x % w
<1>1. q \in Nat /\ r \in 0..(w - 1) /\ x = w * q + r
  OBVIOUS
<1> HIDE DEF q, r
<1>2. q <= s
  <2> SUFFICES ASSUME q > s PROVE FALSE
    BY <1>1
  <2>1. (q - s - 1) * w >= 0
    BY <1>1
  <2>2. (q - s - 1) * w = q * w - s * w - w
    BY <1>1
  <2> QED BY <1>1, <2>1, <2>2
<1>3. (q * w) % w = 0
  <2>1. q * w = w * q + 0 /\ 0 \in 0..(w - 1)
    BY <1>1
  <2> QED BY <1>1, Unique
<1> QED BY <1>1, <1>2, <1>3 DEF q

-----------------------------------------------------------------------------
(* The RK11-D: the inductive invariant *)

\* That a WRITE touches only an unlocked image needs that the checks made
\* before the transfer still hold in every pass of it (RkAdmitted); that the
\* checks hold needs the types.
RkIInv == RkTypeOK /\ RkSummary /\ RkAdmitted

\* The constants as the provers need them.
LEMMA RkConstants ==
  /\ RkWords \in Nat \ {0} /\ RkSectors \in Nat \ {0} /\ RkSurfaces * RkSectors \in Nat \ {0}
  /\ RkCounts \in Nat \ {0} /\ RkPage \in Nat \ {0} /\ RkPages \in Nat \ {0}
  /\ RkDiskCodes \subseteq [drive : RkDrives, cyl : Nat, surf : Nat, sect : Nat]
  /\ 0 \in RkDrives
<1>1. RkSurfaces * RkSectors \in Nat \ {0}
  BY RkGeometryAssumption, Products
<1>2. ASSUME NEW d \in RkDiskCodes
      PROVE  d \in [drive : RkDrives, cyl : Nat, surf : Nat, sect : Nat]
  BY RkDiskCodesAssumption DEF RkDrives
<1> QED BY <1>1, <1>2, RkGeometryAssumption, RkWidthAssumption DEF RkDrives

\* The place of a disk address is a natural number.
LEMMA SectorType ==
  ASSUME NEW da \in [drive : RkDrives, cyl : Nat, surf : Nat, sect : Nat]
  PROVE  RkSector(da) \in Nat
<1>1. RkSurfaces \in Nat /\ RkSectors \in Nat
  BY RkGeometryAssumption
<1>2. da.cyl \in Nat /\ da.surf \in Nat /\ da.sect \in Nat
  OBVIOUS
<1>3. da.cyl * RkSurfaces \in Nat
  BY <1>1, <1>2, Products
<1>4. (da.cyl * RkSurfaces + da.surf) * RkSectors \in Nat
  BY <1>1, <1>2, <1>3, Products
<1> QED BY <1>2, <1>4 DEF RkSector

\* A place is the place of a disk address.
LEMMA AddressType ==
  ASSUME NEW drive \in RkDrives, NEW s \in Nat
  PROVE  RkAddress(drive, s) \in [drive : RkDrives, cyl : Nat, surf : Nat, sect : Nat]
<1>1. s \div (RkSurfaces * RkSectors) \in Nat
  BY RkConstants, Division
<1>2. s \div RkSectors \in Nat /\ s % RkSectors \in Nat
  BY RkConstants, Division
<1>3. RkSurfaces \in Nat \ {0}
  BY RkGeometryAssumption
<1>4. (s \div RkSectors) % RkSurfaces \in Nat
  BY <1>2, <1>3, Division
<1> QED BY <1>1, <1>2, <1>4 DEF RkAddress

\* RKWC gives a count.
LEMMA CountType ==
  ASSUME RkTypeOK
  PROVE  RkCount \in Nat
BY RkConstants DEF RkCount, RkTypeOK

\* A command starts within the types.
LEMMA StartType ==
  ASSUME RkTypeOK, NEW func \in RkFunctions, NEW mex \in 0..(RkPages - 1)
  PROVE  /\ RkStart(func, mex) \in
              [busy : BOOLEAN, func : RkFunctions, start : Nat, count : Nat,
               moved : Nat, from : Nat, ma : Nat]
         /\ RkStart(func, mex).busy = TRUE /\ RkStart(func, mex).func = func
<1>1. RkSector(rkda) \in Nat
  BY SectorType DEF RkTypeOK
<1>2. RkCount \in Nat
  BY CountType
<1>3. mex * RkPage \in Nat
  BY RkConstants, Products
<1>4. mex * RkPage + rkba \in Nat
  BY <1>3, RkConstants DEF RkTypeOK
<1> QED BY <1>1, <1>2, <1>4 DEF RkStart

-----------------------------------------------------------------------------
(* The ends of a command *)

RkCsType == [done : BOOLEAN, ie : BOOLEAN, mex : 0..(RkPages - 1), err : BOOLEAN, herr : BOOLEAN]
RkCmdType == [busy : BOOLEAN, func : RkFunctions, start : Nat, count : Nat,
              moved : Nat, from : Nat, ma : Nat]

\* Whatever the errors, a command that ends leaves the two registers in
\* agreement.
LEMMA DoneFacts ==
  ASSUME NEW cs \in RkCsType, NEW e \in SUBSET RkErrors, rkirq \in BOOLEAN, RkDone(cs, e)
  PROVE  /\ rkcs' \in RkCsType /\ rker' \subseteq RkErrors /\ rkirq' \in BOOLEAN
         /\ rkcs'.done /\ (rkcs'.err <=> rker' # {}) /\ (rkcs'.herr <=> rker' \cap RkHard # {})
<1>1. /\ rker' = e
      /\ rkcs' = [cs EXCEPT !.done = TRUE, !.err = e # {}, !.herr = e \cap RkHard # {}]
      /\ rkirq' = (rkirq \/ cs.ie)
  BY DEF RkDone
<1>2. rkcs' \in RkCsType
  BY <1>1 DEF RkCsType
<1>3. rkcs'.done = TRUE /\ rkcs'.err = (e # {}) /\ rkcs'.herr = (e \cap RkHard # {})
  BY <1>1 DEF RkCsType
<1> QED BY <1>1, <1>2, <1>3

\* xfer_done leaves registers of the right widths, whatever was moved.
LEMMA FinishFacts ==
  ASSUME NEW cs \in RkCsType, NEW c \in RkCmdType, NEW ma \in Nat,
         NEW e \in SUBSET RkErrors, RkTypeOK, RkFinish(cs, c, ma, e)
  PROVE  /\ rkcs' \in RkCsType /\ rker' \subseteq RkErrors /\ rkirq' \in BOOLEAN
         /\ rkcs'.done /\ (rkcs'.err <=> rker' # {}) /\ (rkcs'.herr <=> rker' \cap RkHard # {})
         /\ rkwc' \in 0..(RkCounts - 1) /\ rkba' \in 0..(RkPage - 1)
         /\ rkda' \in [drive : RkDrives, cyl : Nat, surf : Nat, sect : Nat]
<1>1. c.count \in Nat /\ c.start \in Nat
  BY DEF RkCmdType
<1>2. rkwc + c.count \in Nat /\ rkwc' = (rkwc + c.count) % RkCounts
  BY <1>1, RkConstants DEF RkTypeOK, RkFinish
<1>3. rkwc' \in 0..(RkCounts - 1)
  BY <1>2, RkConstants, Division
<1>4. rkba' \in 0..(RkPage - 1)
  BY RkConstants, Division DEF RkFinish
<1>5. (c.count + RkWords - 1) \in Nat
  BY <1>1, RkConstants
<1>6. c.start + (c.count + RkWords - 1) \div RkWords \in Nat
  BY <1>1, <1>5, RkConstants, Division
<1>7. rkda.drive \in RkDrives
  BY DEF RkTypeOK
<1>8. rkda' \in [drive : RkDrives, cyl : Nat, surf : Nat, sect : Nat]
  BY <1>6, <1>7, AddressType DEF RkFinish
<1>9. (ma \div RkPage) % RkPages \in 0..(RkPages - 1)
  BY RkConstants, Division
<1>10. [cs EXCEPT !.mex = (ma \div RkPage) % RkPages] \in RkCsType
  BY <1>9 DEF RkCsType
<1>11. RkDone([cs EXCEPT !.mex = (ma \div RkPage) % RkPages], e) /\ rkirq \in BOOLEAN
  BY DEF RkFinish, RkTypeOK
<1> QED BY <1>3, <1>4, <1>8, <1>10, <1>11, DoneFacts

\* After an idle controller's step that ends a command, or a reset, the
\* invariant holds as soon as the types do.
LEMMA IdleInv ==
  ASSUME RkIInv, rkcs' \in RkCsType, rker' \subseteq RkErrors, rkirq' \in BOOLEAN,
         rkcs'.done, rkcs'.err <=> rker' # {}, rkcs'.herr <=> rker' \cap RkHard # {},
         rkwc' \in 0..(RkCounts - 1), rkba' \in 0..(RkPage - 1),
         rkda' \in [drive : RkDrives, cyl : Nat, surf : Nat, sect : Nat],
         rkimage' = rkimage, rklock' = rklock,
         rkcmd' \in RkCmdType, ~rkcmd'.busy
  PROVE  RkIInv'
<1>1. RkTypeOK'
  BY DEF RkIInv, RkTypeOK, RkCsType, RkCmdType
<1>2. RkSummary' /\ RkAdmitted'
  BY DEF RkSummary, RkAdmitted
<1> QED BY <1>1, <1>2 DEF RkIInv

-----------------------------------------------------------------------------
(* The passes of a transfer *)

\* What a pass of an admitted transfer works with.
LEMMA PassFacts ==
  ASSUME RkIInv, rkcmd.busy, rkcmd.moved < rkcmd.count
  PROVE  /\ rkcmd \in RkCmdType /\ rkcs \in RkCsType /\ rker \in SUBSET RkErrors
         /\ RkLength \in Nat /\ RkPlace \in Nat /\ RkChunk \in Nat /\ RkGot \in Nat
<1>1. /\ rkcmd \in RkCmdType /\ rkcs \in RkCsType /\ rker \in SUBSET RkErrors
      /\ rkcmd.start \in Nat /\ rkcmd.count \in Nat /\ rkcmd.moved \in Nat
  BY DEF RkIInv, RkTypeOK, RkCmdType, RkCsType
<1>2. rkimage[rkda.drive] # RkNone
  BY DEF RkIInv, RkAdmitted, RkRefusal
<1>3. rkda.drive \in RkDrives /\ rkimage \in [RkDrives -> Nat \cup {RkNone}]
  BY DEF RkIInv, RkTypeOK
<1>4. RkLength \in Nat
  BY <1>2, <1>3 DEF RkLength
<1>5. rkcmd.start * RkWords \in Nat
  BY <1>1, RkConstants, Products
<1>6. RkPlace \in Nat
  BY <1>1, <1>5 DEF RkPlace
<1>7. RkChunk \in Nat
  <2>1. /\ RkWords \in Nat /\ rkcmd.count - rkcmd.moved \in Nat
        /\ RkWords \in Int /\ rkcmd.count - rkcmd.moved \in Int
    BY <1>1, RkConstants
  <2>2. Min({RkWords, rkcmd.count - rkcmd.moved}) \in {RkWords, rkcmd.count - rkcmd.moved}
    BY <2>1, MinMaxOfTwo, Zenon
  <2> QED BY <2>1, <2>2 DEF RkChunk
<1>8. RkGot \in Nat
  <2>1. RkLength - RkPlace \in Int /\ RkChunk \in Int /\ 0 \in Int
    BY <1>4, <1>6, <1>7
  <2>2. Min({RkChunk, RkLength - RkPlace}) \in Int
    <3>1. Min({RkChunk, RkLength - RkPlace}) \in {RkChunk, RkLength - RkPlace}
      BY <2>1, MinMaxOfTwo, Zenon
    <3> QED BY <2>1, <3>1
  <2>3. /\ Max({0, Min({RkChunk, RkLength - RkPlace})}) \in {0, Min({RkChunk, RkLength - RkPlace})}
        /\ Max({0, Min({RkChunk, RkLength - RkPlace})}) >= 0
    BY <2>1, <2>2, MinMaxOfTwo, Zenon
  <2> QED BY <2>2, <2>3 DEF RkGot
<1> QED BY <1>1, <1>4, <1>6, <1>7, <1>8

\* The words before missing memory are no more than those of the pass.
LEMMA ReachedType ==
  ASSUME NEW n \in Nat
  PROVE  RkReached(n) \in Nat
<1> DEFINE S == {i \in 0..n : i = n \/ ~RkAnswers(rkcmd.ma + i)}
<1>1. S \in SUBSET Nat /\ n \in S
  OBVIOUS
<1>2. Min(S) \in S
  BY <1>1, MinOfNats
<1> QED BY <1>1, <1>2 DEF RkReached

\* A comparison adds at most WCE.
LEMMA ComparedFacts ==
  ASSUME rker \in SUBSET RkErrors, NEW n, NEW e \in RkCompared(n)
  PROVE  e \in SUBSET RkErrors
BY DEF RkCompared, RkErrors

\* A pass that goes on keeps the invariant, when it leaves the errors and the
\* images well typed and does not detach the drive.
LEMMA MovesInv ==
  ASSUME RkIInv, rkcmd.busy, NEW n \in Nat, RkMoves(n), rker' \subseteq RkErrors,
         rkimage' \in [RkDrives -> Nat \cup {RkNone}],
         rkimage'[rkda.drive] # RkNone
  PROVE  RkIInv'
<1>1. rkcmd \in RkCmdType
  BY DEF RkIInv, RkTypeOK, RkCmdType
<1>2. rkcmd' = [rkcmd EXCEPT !.moved = @ + n, !.ma = @ + n]
  BY DEF RkMoves
<1>3. rkcmd' \in RkCmdType /\ rkcmd'.busy = rkcmd.busy /\ rkcmd'.func = rkcmd.func
  <2>1. rkcmd.moved + n \in Nat /\ rkcmd.ma + n \in Nat
    BY <1>1 DEF RkCmdType
  <2>2. rkcmd' = [rkcmd EXCEPT !.moved = rkcmd.moved + n, !.ma = rkcmd.ma + n]
    BY <1>1, <1>2 DEF RkCmdType
  <2> QED BY <1>1, <2>1, <2>2 DEF RkCmdType
<1>4. UNCHANGED <<rkcs, rkwc, rkba, rkda, rklock, rkirq>>
  BY DEF RkMoves
<1>5. RkTypeOK'
  BY <1>3, <1>4 DEF RkIInv, RkTypeOK, RkCmdType
<1>6. RkSummary'
  BY <1>3 DEF RkSummary, RkIdle
<1>7. RkAdmitted'
  BY <1>3, <1>4 DEF RkIInv, RkAdmitted, RkRefusal
<1> QED BY <1>5, <1>6, <1>7 DEF RkIInv

\* A pass that ends the transfer keeps it.
LEMMA StopsInv ==
  ASSUME RkIInv, NEW ma \in Nat, NEW e \in SUBSET RkErrors, RkStops(ma, e)
  PROVE  RkIInv'
<1>1. rkcmd \in RkCmdType /\ rkcs \in RkCsType /\ RkTypeOK
  BY DEF RkIInv, RkTypeOK, RkCmdType, RkCsType
<1>2. /\ rkcmd' = RkQuiet /\ RkFinish(rkcs, rkcmd, ma, e)
      /\ rkimage' = rkimage /\ rklock' = rklock
  BY DEF RkStops
<1>3. rkcmd' \in RkCmdType /\ ~rkcmd'.busy
  BY <1>2 DEF RkQuiet, RkCmdType, RkFunctions
<1> HIDE DEF RkCmdType, RkCsType
<1> QED BY <1>1, <1>2, <1>3, FinishFacts, IdleInv

\* Every pass keeps the invariant.
LEMMA PassInv ==
  ASSUME RkIInv, RkPass
  PROVE  RkIInv'
<1>1. rkcmd.busy
  BY DEF RkPass, RkPassRead, RkPassReadCheck, RkPassWrite, RkPassWriteCheck,
         RkOverrun, RkNoMemory, RkComplete, RkTransferring
<1>2. rkcmd.ma \in Nat /\ rker \in SUBSET RkErrors
  BY DEF RkIInv, RkTypeOK
<1>3. rkda.drive \in RkDrives /\ rkimage \in [RkDrives -> Nat \cup {RkNone}]
      /\ rkimage[rkda.drive] # RkNone
  BY <1>1 DEF RkIInv, RkTypeOK, RkAdmitted, RkRefusal
<1>4. CASE RkPassRead \/ RkPassReadCheck
  <2>1. RkGot \in Nat
    BY <1>1, <1>4, PassFacts DEF RkPassRead, RkPassReadCheck, RkTransferring
  <2>2. RkMoves(RkGot) /\ rker' = rker /\ rkimage' = rkimage
    BY <1>4 DEF RkPassRead, RkPassReadCheck
  <2> QED BY <1>1, <1>2, <1>3, <2>1, <2>2, MovesInv
<1>5. CASE RkPassWrite
  <2>1. RkChunk \in Nat /\ RkPlace \in Nat /\ RkLength \in Nat
    BY <1>1, <1>5, PassFacts DEF RkPassWrite, RkTransferring
  <2>2. RkMoves(RkChunk) /\ rker' = rker
        /\ rkimage' = [rkimage EXCEPT ![rkda.drive] = Max({@, RkPlace + RkChunk})]
    BY <1>5 DEF RkPassWrite
  <2>3. Max({RkLength, RkPlace + RkChunk}) \in Nat
    <3>1. RkLength \in Int /\ RkPlace + RkChunk \in Int /\ RkPlace + RkChunk \in Nat
      BY <2>1
    <3>2. Max({RkLength, RkPlace + RkChunk}) \in {RkLength, RkPlace + RkChunk}
      BY <3>1, MinMaxOfTwo, Zenon
    <3> QED BY <2>1, <3>1, <3>2
  <2>4. rkimage' \in [RkDrives -> Nat \cup {RkNone}] /\ rkimage'[rkda.drive] \in Nat
    BY <1>3, <2>2, <2>3 DEF RkLength
  <2> QED BY <1>1, <1>2, <2>1, <2>2, <2>4, RkNoneAssumption, MovesInv
<1>6. CASE RkPassWriteCheck
  <2>1. RkGot \in Nat
    BY <1>1, <1>6, PassFacts DEF RkPassWriteCheck, RkTransferring
  <2>2. RkMoves(RkGot) /\ rker' \in RkCompared(RkGot) /\ rkimage' = rkimage
    BY <1>6 DEF RkPassWriteCheck
  <2>3. rker' \subseteq RkErrors
    BY <1>2, <2>2, ComparedFacts
  <2> QED BY <1>1, <1>3, <2>1, <2>2, <2>3, MovesInv
<1>7. CASE RkOverrun
  <2>1. rker \cup {"OVR"} \in SUBSET RkErrors
    BY <1>2 DEF RkErrors
  <2> QED BY <1>2, <1>7, <2>1, StopsInv DEF RkOverrun
<1>8. CASE RkNoMemory
  <2> DEFINE n == IF rkcmd.func = "write" THEN RkChunk ELSE RkGot
  <2>1. n \in Nat
    BY <1>1, <1>8, PassFacts DEF RkNoMemory, RkTransferring
  <2>2. RkReached(n) \in Nat
    BY <2>1, ReachedType
  <2>3. rkcmd.ma + RkReached(n) \in Nat
    BY <1>2, <2>2
  <2>4. PICK e \in IF rkcmd.func = "wchk" THEN RkCompared(RkReached(n)) ELSE {rker} :
          RkStops(rkcmd.ma + RkReached(n), e \cup {"NXM"})
    BY <1>8 DEF RkNoMemory
  <2>5. e \in SUBSET RkErrors
    BY <1>2, <2>4, ComparedFacts
  <2>6. e \cup {"NXM"} \in SUBSET RkErrors
    BY <2>5 DEF RkErrors, RkHard
  <2> HIDE DEF n
  <2> QED BY <2>3, <2>4, <2>6, StopsInv
<1>9. CASE RkComplete
  BY <1>2, <1>9, StopsInv DEF RkComplete
<1> QED BY <1>4, <1>5, <1>6, <1>7, <1>8, <1>9 DEF RkPass

-----------------------------------------------------------------------------
(* Every step *)

\* The registers after power-on, a bus INIT or a controller reset.
LEMMA ResetFacts ==
  /\ RkReset \in RkCsType /\ RkReset.done = TRUE /\ RkReset.err = FALSE /\ RkReset.herr = FALSE
  /\ RkZero \in [drive : RkDrives, cyl : Nat, surf : Nat, sect : Nat]
  /\ 0 \in 0..(RkCounts - 1) /\ 0 \in 0..(RkPage - 1)
BY RkConstants DEF RkReset, RkZero, RkCsType

\* Power-on and attaching establish the invariant.
LEMMA RkInitInv == RkInit => RkIInv
<1> SUFFICES ASSUME RkInit PROVE RkIInv
  OBVIOUS
<1>1. rkcmd \in RkCmdType /\ rkcmd.busy = FALSE
  BY DEF RkInit, RkQuiet, RkCmdType, RkFunctions
<1>2. rkimage \in [RkDrives -> Nat \cup {RkNone}]
  BY RkLengthsAssumption DEF RkInit
<1>3. RkTypeOK
  BY <1>1, <1>2, ResetFacts DEF RkInit, RkTypeOK, RkCsType, RkCmdType, RkErrors
<1>4. RkSummary /\ RkAdmitted
  BY <1>1, ResetFacts DEF RkInit, RkSummary, RkAdmitted
<1> QED BY <1>3, <1>4 DEF RkIInv

\* A cleared RKCS is one with the program's IE and MEX.
LEMMA ClearedType ==
  ASSUME NEW ie \in BOOLEAN, NEW mex \in 0..(RkPages - 1)
  PROVE  RkCleared(ie, mex) \in RkCsType
BY DEF RkCleared, RkReset, RkCsType

\* Every step keeps the invariant.
LEMMA RkStepInv == RkIInv /\ [RkNext]_rkvars => RkIInv'
<1> SUFFICES ASSUME RkIInv, [RkNext]_rkvars PROVE RkIInv'
  OBVIOUS
<1>1. /\ rkcmd \in RkCmdType /\ rkcs \in RkCsType /\ rkirq \in BOOLEAN
      /\ rker \subseteq RkErrors /\ rkwc \in 0..(RkCounts - 1) /\ rkba \in 0..(RkPage - 1)
      /\ rkda \in [drive : RkDrives, cyl : Nat, surf : Nat, sect : Nat]
  BY DEF RkIInv, RkTypeOK, RkCmdType, RkCsType
<1>2. ~rkcmd.busy => /\ rkcs.done
                     /\ rkcs.err <=> rker # {}
                     /\ rkcs.herr <=> rker \cap RkHard # {}
  BY DEF RkIInv, RkSummary, RkIdle
<1>3. CASE RkWriteCs
  <2>1. PICK ie \in BOOLEAN, mex \in 0..(RkPages - 1) : rkcs' = [rkcs EXCEPT !.ie = ie, !.mex = mex]
    BY <1>3 DEF RkWriteCs
  <2>2. rkcs' \in RkCsType /\ rkcs'.done = rkcs.done /\ rkcs'.err = rkcs.err /\ rkcs'.herr = rkcs.herr
    BY <1>1, <2>1 DEF RkCsType
  <2>3. UNCHANGED <<rker, rkwc, rkba, rkda, rkimage, rklock, rkcmd, rkirq>> /\ ~rkcmd.busy
    BY <1>3 DEF RkWriteCs, RkIdle
  <2> QED BY <1>1, <1>2, <2>2, <2>3, IdleInv
<1>4. CASE RkGoReset \/ RkBusInit
  <2>1. /\ rkcs' = RkReset /\ rker' = {} /\ rkwc' = 0 /\ rkba' = 0 /\ rkda' = RkZero
        /\ rkimage' = rkimage /\ rklock' = rklock /\ rkcmd' = rkcmd /\ ~rkcmd.busy
        /\ rkirq' \in BOOLEAN
    BY <1>1, <1>4 DEF RkGoReset, RkBusInit, RkGo, RkIdle
  <2> QED BY <1>1, <2>1, ResetFacts, IdleInv
<1>5. CASE RkGoRefused
  <2>1. PICK ie \in BOOLEAN, mex \in 0..(RkPages - 1), func \in RkFunctions \ {"ctlreset"} :
          /\ RkGo /\ RkDone(RkCleared(ie, mex), RkRefusal(func))
          /\ UNCHANGED <<rkwc, rkba, rkda, rkcmd>>
    BY <1>5 DEF RkGoRefused
  <2>2. RkRefusal(func) \in SUBSET RkErrors
    BY DEF RkRefusal, RkErrors, RkHard
  <2>3. RkCleared(ie, mex) \in RkCsType
    BY ClearedType
  <2>4. ~rkcmd.busy /\ rkimage' = rkimage /\ rklock' = rklock
    BY <2>1 DEF RkGo, RkIdle
  <2> QED BY <1>1, <2>1, <2>2, <2>3, <2>4, DoneFacts, IdleInv
<1>6. CASE RkGoSeek
  <2>1. PICK ie \in BOOLEAN, mex \in 0..(RkPages - 1), func \in {"seek", "drvreset", "wlk"} :
          /\ RkGo /\ UNCHANGED rkcmd
          /\ RkFinish(RkCleared(ie, mex), RkStart(func, mex), RkStart(func, mex).ma, {})
    BY <1>6 DEF RkGoSeek
  <2>2. func \in RkFunctions /\ RkTypeOK
    BY DEF RkFunctions, RkIInv
  <2>3. RkStart(func, mex) \in RkCmdType
    BY <2>2, StartType DEF RkCmdType
  <2>4. RkStart(func, mex).ma \in Nat
    BY <2>3 DEF RkCmdType
  <2>5. RkCleared(ie, mex) \in RkCsType /\ {} \in SUBSET RkErrors
    BY ClearedType
  <2>6. ~rkcmd.busy /\ rkimage' = rkimage /\ rklock' = rklock
    BY <2>1 DEF RkGo, RkIdle
  <2> QED BY <1>1, <2>1, <2>2, <2>3, <2>4, <2>5, <2>6, FinishFacts, IdleInv
<1>7. CASE RkGoTransfer
  <2>1. PICK ie \in BOOLEAN, mex \in 0..(RkPages - 1), func \in RkTransfers :
          /\ RkGo /\ RkRefusal(func) = {}
          /\ rkcs' = RkCleared(ie, mex) /\ rker' = {}
          /\ rkcmd' = RkStart(func, mex)
          /\ UNCHANGED <<rkwc, rkba, rkda, rkirq>>
    BY <1>7 DEF RkGoTransfer
  <2>2. func \in RkFunctions /\ RkTypeOK
    BY DEF RkFunctions, RkTransfers, RkIInv
  <2>3. rkcmd' \in RkCmdType /\ rkcmd'.busy = TRUE /\ rkcmd'.func = func
    BY <2>1, <2>2, StartType DEF RkCmdType
  <2>4. rkcs' \in RkCsType /\ rkimage' = rkimage /\ rklock' = rklock
    BY <2>1, ClearedType DEF RkGo
  <2>5. RkTypeOK'
    BY <1>1, <2>1, <2>2, <2>3, <2>4 DEF RkTypeOK, RkCmdType, RkCsType
  <2>6. RkSummary'
    BY <2>3 DEF RkSummary, RkIdle
  <2>7. RkAdmitted'
    BY <2>1, <2>3, <2>4 DEF RkAdmitted, RkRefusal
  <2> QED BY <2>5, <2>6, <2>7 DEF RkIInv
<1>8. CASE RkPass
  BY <1>8, PassInv
<1>9. CASE RkWriteAddress
  <2>1. /\ rkwc' \in 0..(RkCounts - 1) /\ rkba' \in 0..(RkPage - 1)
        /\ rkda' \in [drive : RkDrives, cyl : Nat, surf : Nat, sect : Nat]
    BY <1>1, <1>9, RkConstants DEF RkWriteAddress
  <2>2. UNCHANGED <<rkcs, rker, rkimage, rklock, rkcmd, rkirq>> /\ ~rkcmd.busy
    BY <1>9 DEF RkWriteAddress, RkIdle
  <2> QED BY <1>1, <1>2, <2>1, <2>2, IdleInv
<1>10. CASE RkGrant
  <2>1. /\ UNCHANGED <<rkcs, rker, rkwc, rkba, rkda, rkimage, rklock, rkcmd>>
        /\ ~rkcmd.busy /\ rkirq' = FALSE
    BY <1>10 DEF RkGrant, RkIdle
  <2> QED BY <1>1, <1>2, <2>1, IdleInv
<1>11. CASE UNCHANGED rkvars
  BY <1>11 DEF rkvars, RkIInv, RkTypeOK, RkSummary, RkAdmitted, RkIdle, RkRefusal
<1> QED
  BY <1>3, <1>4, <1>5, <1>6, <1>7, <1>8, <1>9, <1>10, <1>11 DEF RkNext

-----------------------------------------------------------------------------
(* What a driver of the RK11-D may rely on *)

\* The registers and the transfer keep their types for every geometry.
THEOREM RkTypeCorrect == RkSpec => []RkTypeOK
<1>1. RkIInv => RkTypeOK
  BY DEF RkIInv
<1> QED BY <1>1, RkInitInv, RkStepInv, PTL DEF RkSpec

\* Whenever no command runs, DONE is set and the summary bits ERR and HERR say
\* what RKER holds, however the last command ended and whatever reset came.
THEOREM SummaryAgrees == RkSpec => []RkSummary
<1>1. RkIInv => RkSummary
  BY DEF RkIInv
<1> QED BY <1>1, RkInitInv, RkStepInv, PTL DEF RkSpec

\* In every pass of a transfer the checks that rk05_go made before it would
\* still admit it.
THEOREM TransfersAdmitted == RkSpec => []RkAdmitted
<1>1. RkIInv => RkAdmitted
  BY DEF RkIInv
<1> QED BY <1>1, RkInitInv, RkStepInv, PTL DEF RkSpec

\* One step changes no image but the one of the selected, unlocked and
\* rightly addressed drive, and only makes it longer.
LEMMA ImageStep ==
  ASSUME RkIInv, RkNext, NEW d \in RkDrives, rkimage'[d] # rkimage[d]
  PROVE  /\ d = rkda.drive /\ ~rklock[d] /\ rkimage[d] # RkNone
         /\ rkda.sect < RkSectors /\ rkda.cyl < RkCylinders
         /\ rkimage'[d] > rkimage[d]
<1>1. RkPassWrite
  BY DEF RkNext, RkWriteCs, RkGoReset, RkGoRefused, RkGoSeek, RkGoTransfer, RkGo, RkPass,
         RkPassRead, RkPassReadCheck, RkPassWriteCheck, RkOverrun, RkNoMemory, RkComplete,
         RkStops, RkWriteAddress, RkBusInit, RkGrant
<1>2. /\ rkcmd.busy /\ rkcmd.func = "write" /\ rkcmd.moved < rkcmd.count
      /\ rkimage' = [rkimage EXCEPT ![rkda.drive] = Max({@, RkPlace + RkChunk})]
  BY <1>1 DEF RkPassWrite, RkTransferring
<1>3. RkRefusal("write") = {}
  BY <1>2 DEF RkIInv, RkAdmitted
<1>4. /\ rkimage[rkda.drive] # RkNone /\ ~rklock[rkda.drive]
      /\ ~(rkda.sect >= RkSectors) /\ ~(rkda.cyl >= RkCylinders)
  BY <1>3 DEF RkRefusal
<1>5. /\ rkimage \in [RkDrives -> Nat \cup {RkNone}] /\ rkda.drive \in RkDrives
      /\ rkda.sect \in Nat /\ rkda.cyl \in Nat
  BY DEF RkIInv, RkTypeOK
<1>6. d = rkda.drive
  BY <1>2, <1>5
<1>7. RkLength \in Nat /\ RkPlace + RkChunk \in Nat
  BY <1>2, PassFacts
<1>8. rkimage[d] = RkLength /\ rkimage'[d] = Max({RkLength, RkPlace + RkChunk})
  BY <1>2, <1>5, <1>6 DEF RkLength
<1>9. RkLength \in Int /\ RkPlace + RkChunk \in Int
  BY <1>7
<1>10. /\ Max({RkLength, RkPlace + RkChunk}) \in {RkLength, RkPlace + RkChunk}
       /\ Max({RkLength, RkPlace + RkChunk}) >= RkLength
  BY <1>9, MinMaxOfTwo, Zenon
<1>11. Max({RkLength, RkPlace + RkChunk}) # RkLength
  BY <1>8
<1>12. rkimage'[d] > rkimage[d]
  BY <1>7, <1>8, <1>10, <1>11
<1>13. rkda.sect < RkSectors /\ rkda.cyl < RkCylinders
  BY <1>4, <1>5, RkGeometryAssumption
<1> QED BY <1>4, <1>6, <1>12, <1>13

\* No order of register writes, commands and resets changes the image of a
\* write-locked, unselected or wrongly addressed drive, for any number of
\* drives, any images and any geometry.
THEOREM RkImagesSafe == RkSpec => RkImageSafe
<1>1. RkIInv /\ [RkNext]_rkvars =>
        [\A d \in RkDrives : rkimage'[d] # rkimage[d] =>
           /\ d = rkda.drive /\ ~rklock[d] /\ rkimage[d] # RkNone
           /\ rkda.sect < RkSectors /\ rkda.cyl < RkCylinders
           /\ rkimage'[d] > rkimage[d]]_rkvars
  BY ImageStep
<1> QED BY <1>1, RkInitInv, RkStepInv, PTL DEF RkSpec, RkImageSafe

-----------------------------------------------------------------------------
(* A transfer of the RK11-D runs its course *)

\* The passes of a transfer go on from where it started: RKWC still holds its
\* count, and the words moved, never more than the count, are those between the
\* first bus address and the next.
RkCourse ==
  rkcmd.busy => /\ rkcmd.count = RkCount /\ rkcmd.moved <= rkcmd.count
                /\ rkcmd.ma = rkcmd.from + rkcmd.moved

\* A pass moves no more words than are left.
LEMMA PassBound ==
  ASSUME RkIInv, rkcmd.busy, rkcmd.moved < rkcmd.count
  PROVE  rkcmd.moved + RkChunk <= rkcmd.count /\ rkcmd.moved + RkGot <= rkcmd.count
<1>1. /\ rkcmd.count \in Nat /\ rkcmd.moved \in Nat /\ RkLength \in Nat /\ RkPlace \in Nat
      /\ RkChunk \in Nat /\ RkGot \in Nat /\ RkWords \in Nat
  BY PassFacts, RkConstants DEF RkCmdType
<1> DEFINE left == rkcmd.count - rkcmd.moved
           size == RkLength - RkPlace
           some == Min({RkChunk, size})
           zero == 0
<1>2. left \in Int /\ size \in Int /\ RkChunk \in Int /\ RkWords \in Int /\ zero \in Int
  BY <1>1
<1>3. RkChunk = Min({RkWords, left}) /\ RkGot = Max({zero, some})
  BY DEF RkChunk, RkGot
<1> HIDE DEF left, size, zero
<1>4. RkChunk <= left
  BY <1>2, <1>3, MinMaxOfTwo
<1>5. some \in Int /\ some <= RkChunk
  BY <1>2, MinMaxOfTwo
<1> HIDE DEF some
<1>6. RkGot \in {zero, some}
  BY <1>2, <1>3, <1>5, MinMaxOfTwo
<1> QED BY <1>1, <1>4, <1>5, <1>6 DEF left, zero

\* Every step keeps a transfer on its course.
LEMMA CourseStep == RkIInv /\ RkCourse /\ [RkNext]_rkvars => RkCourse'
<1> SUFFICES ASSUME RkIInv, RkCourse, [RkNext]_rkvars PROVE RkCourse'
  OBVIOUS
<1>1. CASE RkPassRead \/ RkPassReadCheck \/ RkPassWrite \/ RkPassWriteCheck
  <2>1. rkcmd.busy /\ rkcmd.moved < rkcmd.count
    BY <1>1 DEF RkPassRead, RkPassReadCheck, RkPassWrite, RkPassWriteCheck, RkTransferring
  <2>2. PICK n \in {RkGot, RkChunk} : RkMoves(n)
    BY <1>1 DEF RkPassRead, RkPassReadCheck, RkPassWrite, RkPassWriteCheck
  <2>3. rkcmd \in RkCmdType /\ n \in Nat /\ rkcmd.moved + n <= rkcmd.count
    BY <2>1, <2>2, PassFacts, PassBound
  <2>4. /\ rkcmd'.count = rkcmd.count /\ rkcmd'.from = rkcmd.from
        /\ rkcmd'.moved = rkcmd.moved + n /\ rkcmd'.ma = rkcmd.ma + n /\ rkwc' = rkwc
    BY <2>2, <2>3 DEF RkMoves, RkCmdType
  <2> QED BY <2>1, <2>3, <2>4 DEF RkCourse, RkCount, RkCmdType
<1>2. CASE RkOverrun \/ RkNoMemory \/ RkComplete
  <2>1. \E ma, e : RkStops(ma, e)
    BY <1>2 DEF RkOverrun, RkNoMemory, RkComplete
  <2>2. ~rkcmd'.busy
    BY <2>1 DEF RkStops, RkQuiet
  <2> QED BY <2>2 DEF RkCourse
<1>3. CASE RkGoTransfer
  <2>1. PICK mex \in 0..(RkPages - 1), func \in RkTransfers : rkcmd' = RkStart(func, mex) /\ rkwc' = rkwc
    BY <1>3 DEF RkGoTransfer
  <2>2. /\ rkcmd'.count = RkCount /\ rkcmd'.moved = 0 /\ RkCount' = RkCount
        /\ rkcmd'.from = mex * RkPage + rkba /\ rkcmd'.ma = rkcmd'.from
    BY <2>1 DEF RkStart, RkCount
  <2>3. RkCount \in Nat /\ mex * RkPage \in Nat /\ rkba \in Nat
    BY CountType, Products, RkConstants DEF RkIInv, RkTypeOK
  <2> QED BY <2>2, <2>3 DEF RkCourse
<1>4. CASE RkWriteAddress \/ RkBusInit \/ RkGoReset \/ RkGoRefused \/ RkGoSeek
  <2>1. ~rkcmd.busy /\ rkcmd' = rkcmd
    BY <1>4 DEF RkWriteAddress, RkBusInit, RkGoReset, RkGoRefused, RkGoSeek, RkGo, RkIdle
  <2> QED BY <2>1 DEF RkCourse
<1>5. CASE RkWriteCs \/ RkGrant \/ UNCHANGED rkvars
  BY <1>5 DEF RkWriteCs, RkGrant, rkvars, RkCourse, RkCount
<1> QED BY <1>1, <1>2, <1>3, <1>4, <1>5 DEF RkNext, RkPass

\* da_to_sector undoes the division of a place into a disk address.
LEMMA SectorOfAddress ==
  ASSUME NEW drive \in RkDrives, NEW s \in Nat
  PROVE  RkSector(RkAddress(drive, s)) = s
<1> DEFINE h == s \div RkSectors
<1>1. h \in Nat /\ s = RkSectors * h + (s % RkSectors) /\ s % RkSectors \in Nat
  BY RkConstants
<1>2. s \div (RkSurfaces * RkSectors) = h \div RkSurfaces
  BY RkGeometryAssumption, Nested
<1> HIDE DEF h
<1>3. h = RkSurfaces * (h \div RkSurfaces) + (h % RkSurfaces)
  BY <1>1, RkGeometryAssumption
<1>4. h \div RkSurfaces \in Nat /\ h % RkSurfaces \in Nat
  BY <1>1, RkGeometryAssumption, Division
<1>5. (h \div RkSurfaces) * RkSurfaces + (h % RkSurfaces) = h
  BY <1>3, <1>4, RkGeometryAssumption
<1>6. RkSector(RkAddress(drive, s)) = h * RkSectors + (s % RkSectors)
  BY <1>2, <1>5 DEF RkSector, RkAddress, h
<1> QED BY <1>1, <1>6, RkConstants

\* What the last pass leaves in the registers.
LEMMA CompleteFacts ==
  ASSUME RkIInv, RkCourse, RkComplete
  PROVE  /\ rkcmd.moved = rkcmd.count /\ rkwc' = 0
         /\ rkcs'.mex * RkPage + rkba' = (rkcmd.from + rkcmd.count) % (RkPages * RkPage)
         /\ \E rest \in 0..(RkWords - 1) :
              (RkSector(rkda') - rkcmd.start) * RkWords = rkcmd.count + rest
<1>1. /\ rkcmd \in RkCmdType /\ rkcs \in RkCsType /\ rkwc \in 0..(RkCounts - 1)
      /\ rkda.drive \in RkDrives /\ rkcmd.busy /\ rkcmd.moved >= rkcmd.count
  BY DEF RkIInv, RkTypeOK, RkCmdType, RkCsType, RkComplete
<1>2. /\ rkcmd.count \in Nat /\ rkcmd.moved \in Nat /\ rkcmd.ma \in Nat /\ rkcmd.from \in Nat
      /\ rkcmd.start \in Nat
  BY <1>1 DEF RkCmdType
<1>3. rkcmd.moved = rkcmd.count /\ rkcmd.ma = rkcmd.from + rkcmd.count
  BY <1>1, <1>2 DEF RkCourse
<1> DEFINE far == rkcmd.ma
           mex == (far \div RkPage) % RkPages
           s == rkcmd.start + (rkcmd.count + RkWords - 1) \div RkWords
<1>4. /\ rkwc' = (rkwc + rkcmd.count) % RkCounts /\ rkba' = far % RkPage
      /\ rkda' = RkAddress(rkda.drive, s)
      /\ RkDone([rkcs EXCEPT !.mex = mex], rker)
  BY DEF RkComplete, RkStops, RkFinish
<1>5. rkcs'.mex = mex
  BY <1>1, <1>4 DEF RkDone, RkCsType
<1>6. rkwc' = 0
  <2>1. rkcmd.count = IF rkwc = 0 THEN RkCounts ELSE RkCounts - rkwc
    BY <1>1 DEF RkCourse, RkCount
  <2>2. rkwc + rkcmd.count = RkCounts
    BY <1>1, <2>1, RkConstants
  <2> QED BY <1>4, <2>2, RkConstants
<1>7. mex * RkPage + rkba' = (rkcmd.from + rkcmd.count) % (RkPages * RkPage)
  BY <1>2, <1>3, <1>4, RkConstants, Nested
<1>8. \E rest \in 0..(RkWords - 1) : (RkSector(rkda') - rkcmd.start) * RkWords = rkcmd.count + rest
  <2> DEFINE n == rkcmd.count + RkWords - 1
             q == n \div RkWords
             r == n % RkWords
  <2>1. n \in Nat
    BY <1>2, RkConstants
  <2> HIDE DEF n
  <2>2. q \in Nat /\ r \in 0..(RkWords - 1) /\ n = RkWords * q + r
    BY <2>1, RkConstants
  <2> HIDE DEF q, r
  <2>3. s = rkcmd.start + q /\ s \in Nat
    BY <1>2, <2>2 DEF q, n
  <2> HIDE DEF s
  <2>4. RkSector(rkda') - rkcmd.start = q
    BY <1>1, <1>2, <1>4, <2>2, <2>3, SectorOfAddress
  <2>5. q * RkWords = rkcmd.count + (RkWords - 1 - r)
    BY <1>2, <2>2, RkConstants DEF n
  <2> QED BY <2>2, <2>4, <2>5, RkConstants
<1> QED BY <1>3, <1>5, <1>6, <1>7, <1>8

\* A driver that reloads only RKWC goes on where the transfer stopped, for
\* every count, page and geometry.
THEOREM TransfersContinue == RkSpec => RkContinues
<1> DEFINE A == rkcmd.busy /\ ~rkcmd'.busy /\ rker' \cap {"OVR", "NXM"} = {} =>
                  /\ rkcmd.moved = rkcmd.count /\ rkwc' = 0
                  /\ rkcs'.mex * RkPage + rkba' = (rkcmd.from + rkcmd.count) % (RkPages * RkPage)
                  /\ \E rest \in 0..(RkWords - 1) :
                       (RkSector(rkda') - rkcmd.start) * RkWords = rkcmd.count + rest
<1>1. RkInit => RkCourse
  BY DEF RkInit, RkQuiet, RkCourse
<1>2. RkIInv /\ RkCourse /\ [RkNext]_rkvars => [A]_rkvars
  <2> SUFFICES ASSUME RkIInv, RkCourse, RkNext, rkcmd.busy, ~rkcmd'.busy,
                      rker' \cap {"OVR", "NXM"} = {}
               PROVE  RkComplete
    BY CompleteFacts
  <2>1. ~RkOverrun /\ ~RkNoMemory
    BY DEF RkOverrun, RkNoMemory, RkStops, RkFinish, RkDone
  <2>2. ~(RkPassRead \/ RkPassReadCheck \/ RkPassWrite \/ RkPassWriteCheck)
    BY DEF RkPassRead, RkPassReadCheck, RkPassWrite, RkPassWriteCheck, RkMoves, RkIInv, RkTypeOK
  <2>3. ~(RkWriteCs \/ RkGoReset \/ RkGoRefused \/ RkGoSeek \/ RkGoTransfer \/ RkWriteAddress
          \/ RkBusInit \/ RkGrant)
    BY DEF RkWriteCs, RkGoReset, RkGoRefused, RkGoSeek, RkGoTransfer, RkGo, RkWriteAddress,
           RkBusInit, RkGrant, RkIdle
  <2> QED BY <2>1, <2>2, <2>3 DEF RkNext, RkPass
<1> HIDE DEF A
<1>3. [][A]_rkvars => RkContinues
  BY DEF A, RkContinues
<1> QED BY <1>1, <1>2, <1>3, RkInitInv, RkStepInv, CourseStep, PTL DEF RkSpec

-----------------------------------------------------------------------------
(* The RL11: constants and sizes *)

RlDisks == [image : Nat \cup {RlNone}, lock : BOOLEAN, big : BOOLEAN]
RlArms  == [cyl : 0..(RlBig - 1), stat : BOOLEAN]

\* The constants as the provers need them.
LEMMA RlConstants ==
  /\ RlWords \in Nat \ {0} /\ RlSectors \in Nat \ {0} /\ RlTrack \in Nat
  /\ RlCounts \in Nat \ {0} /\ RlPage \in Nat \ {0} /\ RlPages \in Nat \ {0}
  /\ 0 \in RlDrives /\ 0 \in 0..(RlPages - 1) /\ 0 \in 0..(RlBig - 1)
  /\ 0 \in 0..(RlPage - 1) /\ 0 \in 0..(RlCounts - 1)
  /\ RlMedia \cup {RlEmpty} \subseteq RlDisks
<1>1. RlWords \in Nat /\ RlSectors \in Nat /\ RlTrack \in Nat
  BY RlGeometryAssumption, Products DEF RlTrack
<1>2. RlSmall * 2 * RlTrack \in Int
  <2>1. RlSmall * 2 \in Nat
    BY RlGeometryAssumption
  <2> QED BY <1>1, <2>1, Products
<1>3. ASSUME NEW m \in RlMedia PROVE m \in RlDisks
  <2>1. PICK n \in RlLengths, lock \in BOOLEAN : m = RlMedium(n, lock)
    BY DEF RlMedia
  <2>2. n \in Nat
    BY RlDrivesAssumption
  <2>3. (n > RlSmall * 2 * RlTrack) \in BOOLEAN
    OBVIOUS
  <2> QED BY <2>1, <2>2, <2>3 DEF RlMedium, RlDisks
<1>4. RlEmpty \in RlDisks
  BY DEF RlEmpty, RlDisks
<1>5. \A w \in Nat \ {0} : 0 \in 0..(w - 1)
  OBVIOUS
<1>6. RlBig \in Nat \ {0}
  BY RlGeometryAssumption
<1> QED BY <1>1, <1>3, <1>4, <1>5, <1>6, RlGeometryAssumption, RlWidthAssumption, RlDrivesAssumption

\* Either drive type has cylinders, and no more than the larger.
LEMMA CylinderBound ==
  ASSUME NEW d
  PROVE  RlCylinders(d) \in Nat /\ 0 < RlCylinders(d) /\ RlCylinders(d) <= RlBig
BY RlGeometryAssumption DEF RlCylinders

\* A seek lands on the disk.
LEMMA LandsOnDisk ==
  ASSUME NEW d, rlarm[d].cyl \in Nat, NEW out \in BOOLEAN, NEW diff \in Nat
  PROVE  RlLands(d, out, diff) \in 0..(RlCylinders(d) - 1)
<1> DEFINE to == IF out THEN rlarm[d].cyl + diff ELSE rlarm[d].cyl - diff
           top == RlCylinders(d) - 1
           far == Min({to, top})
           edge == 0
<1>1. to \in Int /\ top \in Nat /\ edge \in Int
  BY CylinderBound
<1>2. RlLands(d, out, diff) = Max({edge, far})
  BY DEF RlLands
<1> HIDE DEF to, top
<1>3. far \in Int /\ far <= top
  BY <1>1, MinMaxOfTwo
<1> HIDE DEF far, edge
<1>4. Max({edge, far}) \in {edge, far} /\ Max({edge, far}) >= edge
  BY <1>1, <1>3, MinMaxOfTwo
<1>5. RlLands(d, out, diff) \in {edge, far} /\ RlLands(d, out, diff) >= edge
  BY <1>2, <1>4
<1> QED BY <1>1, <1>3, <1>5 DEF top, edge

\* A transfer that was let through has words to move, and none past its track.
LEMMA CountInTrack ==
  ASSUME RlTypeOK, NEW d \in RlDrives, RlAddressed(d)
  PROVE  /\ RlCount \in Nat /\ rlda.sect * RlWords \in Nat
         /\ rlda.sect * RlWords + RlCount <= RlTrack
<1> DEFINE asked == IF rlmp = 0 THEN RlCounts ELSE RlCounts - rlmp
           place == rlda.sect * RlWords
<1>1. asked \in Nat
  BY RlConstants DEF RlTypeOK
<1>2. rlda.sect \in Nat /\ rlda.sect < RlSectors
  BY DEF RlTypeOK, RlAddressed
<1>3. place \in Nat /\ place <= RlTrack
  <2>1. RlSectors - rlda.sect \in Nat
    BY <1>2, RlConstants
  <2>2. (RlSectors - rlda.sect) * RlWords \in Nat
    BY <2>1, RlConstants, Products
  <2>3. (RlSectors - rlda.sect) * RlWords = RlTrack - place
    BY <1>2, RlConstants DEF RlTrack
  <2>4. place \in Nat
    BY <1>2, RlConstants, Products
  <2> HIDE DEF place
  <2> QED BY <2>2, <2>3, <2>4, RlConstants
<1> DEFINE room == RlTrack - place
<1>4. RlCount = Min({asked, room})
  BY DEF RlCount
<1> HIDE DEF asked, place
<1>5. room \in Nat /\ room = RlTrack - place
  BY <1>3, RlConstants
<1> HIDE DEF room
<1>6. RlCount \in {asked, room} /\ RlCount <= room
  <2>1. asked \in Int /\ room \in Int
    BY <1>1, <1>5
  <2>2. Min({asked, room}) \in {asked, room} /\ Min({asked, room}) <= room
    BY <2>1, MinMaxOfTwo
  <2> QED BY <1>4, <2>2
<1> QED BY <1>1, <1>3, <1>5, <1>6, RlConstants DEF place

\* The place of a disk address in the image.
LEMMA PlaceType ==
  ASSUME RlTypeOK
  PROVE  RlPlace \in Nat /\ RlPlace = (rlda.cyl * 2 + rlda.hd) * RlTrack + rlda.sect * RlWords
<1> DEFINE t == rlda.cyl * 2 + rlda.hd
<1>1. t \in Nat /\ rlda.sect \in Nat
  BY DEF RlTypeOK, RlHeads
<1>2. RlPlace = (t * RlSectors + rlda.sect) * RlWords
  BY DEF RlPlace
<1> HIDE DEF t
<1>3. t * RlSectors \in Nat /\ rlda.sect * RlWords \in Nat
  BY <1>1, RlConstants, Products
<1>4. (t * RlSectors + rlda.sect) * RlWords = t * RlTrack + rlda.sect * RlWords
  BY <1>1, RlConstants, Z3 DEF RlTrack
<1>5. t * RlTrack \in Nat
  BY <1>1, RlConstants, Products
<1> QED BY <1>2, <1>3, <1>4, <1>5 DEF t

\* The words before the first that meets no memory.
LEMMA ReachedBound ==
  ASSUME NEW cs, NEW n \in Nat
  PROVE  RlReached(cs, n) \in 0..n
<1> DEFINE S == {i \in 0..n : i = n \/ ~RlAnswers(RlFrom(cs) + i)}
<1>1. n \in S /\ S \in SUBSET Nat
  OBVIOUS
<1>2. Min(S) \in S
  BY <1>1, MinOfNats
<1> QED BY <1>2 DEF RlReached

\* Whole sectors of a transfer that was cut are no more words than it moved.
LEMMA CountedBound ==
  ASSUME NEW n \in Nat, NEW moved \in 0..n
  PROVE  RlCounted(moved, n) \in 0..n
<1>1. moved \in Nat /\ moved \div RlWords \in Nat /\ RlWords \in Nat
  BY Division, RlConstants
<1>2. (moved \div RlWords) * RlWords \in Nat
  BY <1>1, Products
<1>3. moved = RlWords * (moved \div RlWords) + (moved % RlWords) /\ moved % RlWords \in Nat
  BY RlConstants
<1>4. (moved \div RlWords) * RlWords <= moved
  BY <1>1, <1>2, <1>3
<1> QED BY <1>2, <1>4 DEF RlCounted

-----------------------------------------------------------------------------
(* A command *)

\* The end of a transfer keeps the registers' widths, selects no other drive
\* and leaves the heads on the cylinder that RLDA names.
LEMMA EndFacts ==
  ASSUME RlTypeOK, NEW cs \in RlCs, NEW moved \in Nat, NEW done \in Nat,
         NEW e \in SUBSET RlErrors, RlAddressed(cs.drive), RlEnd(cs, moved, done, e)
  PROVE  /\ rlcs' \in RlCs /\ rlcs'.drive = cs.drive /\ rlerr' \subseteq RlErrors
         /\ rlba' \in 0..(RlPage - 1) /\ rlmp' \in 0..(RlCounts - 1)
         /\ rlda' \in [cyl : Nat, hd : RlHeads, sect : Nat]
         /\ rlarm' = [rlarm EXCEPT ![cs.drive].cyl = rlda.cyl]
         /\ rlirq' \in BOOLEAN
<1> DEFINE far == RlFrom(cs) + moved
           mex == (far \div RlPage) % RlPages
<1>1. far \in Nat
  <2>1. cs.mex * RlPage \in Nat
    BY RlConstants, Products DEF RlCs
  <2> QED BY <2>1 DEF RlFrom, RlTypeOK
<1>2. mex \in 0..(RlPages - 1) /\ far % RlPage \in 0..(RlPage - 1)
  <2> HIDE DEF far
  <2>1. far \div RlPage \in Nat
    BY <1>1, RlConstants, Division
  <2> QED BY <1>1, <2>1, RlConstants, Division
<1>3. rlba' = far % RlPage /\ rlcs' = [cs EXCEPT !.mex = mex]
  BY DEF RlEnd, RlDone
<1> HIDE DEF far, mex
<1>4. rlcs' \in RlCs /\ rlcs'.drive = cs.drive
  BY <1>2, <1>3 DEF RlCs
<1>5. rlmp' \in 0..(RlCounts - 1)
  <2>1. rlmp + done \in Nat
    BY DEF RlTypeOK
  <2> QED BY <2>1, RlConstants, Division DEF RlEnd
<1>6. rlda' \in [cyl : Nat, hd : RlHeads, sect : Nat]
  <2>1. done \div RlWords \in Nat
    BY RlConstants, Division
  <2> QED BY <2>1 DEF RlEnd, RlTypeOK
<1>7. rlerr' \subseteq RlErrors
  BY DEF RlEnd, RlDone, RlErrors
<1>8. rlirq' \in BOOLEAN
  BY DEF RlEnd, RlDone, RlTypeOK, RlCs
<1> QED BY <1>2, <1>3, <1>4, <1>5, <1>6, <1>7, <1>8 DEF RlEnd

\* fread gives no more words than are asked for.
LEMMA AvailableBound ==
  ASSUME RlTypeOK, NEW d \in RlDrives, RlAddressed(d), rldisk[d].image # RlNone
  PROVE  RlAvailable(d) \in 0..RlCount
<1> DEFINE left == rldisk[d].image - RlPlace
           some == Min({RlCount, left})
           zero == 0
<1>1. left \in Int /\ RlCount \in Nat /\ RlCount \in Int /\ zero \in Int
  <2>1. rldisk[d].image \in Nat
    BY DEF RlTypeOK
  <2>2. RlPlace \in Nat
    BY PlaceType
  <2>3. RlCount \in Nat
    BY CountInTrack
  <2> QED BY <2>1, <2>2, <2>3
<1>2. RlAvailable(d) = Max({zero, some})
  BY DEF RlAvailable
<1> HIDE DEF left, zero
<1>3. some \in Int /\ some <= RlCount
  BY <1>1, MinMaxOfTwo
<1> HIDE DEF some
<1>4. Max({zero, some}) \in {zero, some} /\ Max({zero, some}) >= zero
  BY <1>1, <1>3, MinMaxOfTwo
<1> QED BY <1>1, <1>2, <1>3, <1>4 DEF zero

\* A READ and a WRITE CHECK end so, and touch no image.
LEMMA ReadsEnd ==
  ASSUME RlTypeOK, NEW cs \in RlCs, RlRead(cs) \/ RlWriteCheck(cs)
  PROVE  /\ \E moved, done \in Nat, e \in SUBSET RlErrors : RlEnd(cs, moved, done, e)
         /\ RlAddressed(cs.drive) /\ rldisk' = rldisk
<1> DEFINE n == RlAvailable(cs.drive)
           moved == RlReached(cs, n)
<1>1. /\ RlAddressed(cs.drive) /\ rldisk[cs.drive].image # RlNone
      /\ rldisk' = rldisk /\ cs.drive \in RlDrives
  BY DEF RlRead, RlWriteCheck, RlPresent, RlCs
<1>2. n \in Nat
  BY <1>1, AvailableBound, CountInTrack
<1> HIDE DEF n
<1>3. moved \in 0..n
  BY <1>2, ReachedBound
<1> HIDE DEF moved
<1>4. moved \in Nat /\ RlCounted(moved, n) \in Nat
  BY <1>2, <1>3, CountedBound
<1>5. {} \in SUBSET RlErrors /\ {"NXM"} \in SUBSET RlErrors /\ {"CRC"} \in SUBSET RlErrors
  BY DEF RlErrors
<1>6. (IF moved < n THEN {"NXM"} ELSE {}) \in SUBSET RlErrors
  BY <1>5
<1>7. CASE RlRead(cs)
  <2>1. RlEnd(cs, moved, RlCounted(moved, n), IF moved < n THEN {"NXM"} ELSE {})
    BY <1>7 DEF RlRead, n, moved
  <2> QED BY <1>1, <1>4, <1>6, <2>1
<1>8. CASE RlWriteCheck(cs)
  <2>1. \/ RlEnd(cs, moved, RlCounted(moved, n), IF moved < n THEN {"NXM"} ELSE {})
        \/ \E same \in 0..(moved - 1) : RlEnd(cs, same, RlCounted(same, n), {"CRC"})
    BY <1>8 DEF RlWriteCheck, n, moved
  <2>2. ASSUME NEW same \in 0..(moved - 1) PROVE same \in Nat /\ RlCounted(same, n) \in Nat
    <3>1. same \in 0..n
      BY <1>2, <1>3
    <3> QED BY <1>2, <3>1, CountedBound
  <2> QED BY <1>1, <1>4, <1>5, <1>6, <2>1, <2>2
<1> QED BY <1>7, <1>8, <1>1 DEF RlRead, RlWriteCheck

\* A WRITE lengthens the selected drive's image, if it is not locked, and to
\* the end of the addressed track at most.
LEMMA WriteFacts ==
  ASSUME RlTypeOK, NEW cs \in RlCs, RlWrite(cs)
  PROVE  /\ \E moved, done \in Nat, e \in SUBSET RlErrors : RlEnd(cs, moved, done, e)
         /\ RlAddressed(cs.drive) /\ ~rldisk[cs.drive].lock
         /\ \E n \in Nat :
              /\ rldisk' = [rldisk EXCEPT ![cs.drive].image = n]
              /\ n # rldisk[cs.drive].image =>
                   n > rldisk[cs.drive].image /\ n <= (rlda.cyl * 2 + rlda.hd + 1) * RlTrack
<1> DEFINE moved == RlReached(cs, RlCount)
           done == RlCounted(moved, RlCount)
           old == rldisk[cs.drive].image
           end == RlPlace + done
           n == IF done = 0 THEN old ELSE Max({old, end})
           t == rlda.cyl * 2 + rlda.hd
<1>1. /\ RlAddressed(cs.drive) /\ ~rldisk[cs.drive].lock /\ cs.drive \in RlDrives
      /\ old \in Nat
  BY DEF RlWrite, RlOpen, RlPresent, RlCs, RlTypeOK
<1>2. RlEnd(cs, moved, done, IF moved < RlCount THEN {"NXM"} ELSE {})
  BY DEF RlWrite
<1>3. rldisk' = [rldisk EXCEPT ![cs.drive].image = n]
  BY DEF RlWrite
<1>4. RlCount \in Nat /\ rlda.sect * RlWords + RlCount <= RlTrack /\ rlda.sect * RlWords \in Nat
  BY <1>1, CountInTrack
<1>5. moved \in 0..RlCount
  BY <1>4, ReachedBound
<1> HIDE DEF moved
<1>6. done \in 0..RlCount
  BY <1>4, <1>5, CountedBound
<1> HIDE DEF done
<1>7. moved \in Nat /\ done \in Nat
  BY <1>4, <1>5, <1>6
<1>8. (IF moved < RlCount THEN {"NXM"} ELSE {}) \in SUBSET RlErrors
  BY DEF RlErrors
<1>9. t \in Nat /\ RlPlace = t * RlTrack + rlda.sect * RlWords /\ RlPlace \in Nat
  BY PlaceType DEF RlTypeOK, RlHeads
<1>10. t * RlTrack \in Nat /\ (t + 1) * RlTrack = t * RlTrack + RlTrack
  <2> HIDE DEF t
  <2> QED BY <1>9, RlConstants, Products
<1> HIDE DEF t
<1>11. end \in Nat /\ end <= (t + 1) * RlTrack
  BY <1>4, <1>6, <1>7, <1>9, <1>10, RlConstants
<1> HIDE DEF old, end
<1>12. Max({old, end}) \in {old, end} /\ Max({old, end}) >= old
  <2>1. old \in Int /\ end \in Int
    BY <1>1, <1>11
  <2> QED BY <2>1, MinMaxOfTwo
<1>13. n \in Nat /\ (n # old => n > old /\ n <= (t + 1) * RlTrack)
  BY <1>1, <1>11, <1>12
<1> HIDE DEF n
<1> QED BY <1>1, <1>2, <1>3, <1>7, <1>8, <1>13 DEF t, old

-----------------------------------------------------------------------------
(* Every step of the RL11 *)

RlHeadsStep ==
  \A d \in RlDrives : rlarm'[d].cyl # rlarm[d].cyl =>
    d = rlcs'.drive /\ rlarm'[d].cyl < RlCylinders(d)

RlImageStep ==
  \A d \in RlDrives : rldisk'[d] # rldisk[d] =>
    \/ RlAttach
    \/ /\ d = rlcs'.drive /\ ~rldisk[d].lock /\ rlda.cyl < RlCylinders(d)
       /\ rldisk'[d] = [rldisk[d] EXCEPT !.image = rldisk'[d].image]
       /\ rldisk'[d].image > rldisk[d].image
       /\ rldisk'[d].image <= (rlda.cyl * 2 + rlda.hd + 1) * RlTrack

\* A command without a transfer: the drive's heads land on the disk, and no
\* image changes.
LEMMA CommandSafe ==
  ASSUME RlTypeOK, NEW cs \in RlCs,
         RlNop(cs) \/ RlMissing(cs) \/ RlGetStatus(cs) \/ RlReadHeader(cs) \/ RlSeek(cs)
         \/ RlBadAddress(cs) \/ RlLocked(cs)
  PROVE  RlTypeOK' /\ RlHeadsStep /\ RlImageStep
<1>1. /\ rlcs' = cs /\ cs.drive \in RlDrives /\ rlerr' \subseteq RlErrors /\ rlirq' \in BOOLEAN
      /\ UNCHANGED <<rlba, rlda, rldisk>>
  BY DEF RlNop, RlMissing, RlGetStatus, RlReadHeader, RlSeek, RlBadAddress, RlLocked, RlDone,
         RlErrors, RlCs, RlTypeOK
<1>2. rlmp' \in 0..(RlCounts - 1)
  BY RlWidthAssumption
     DEF RlNop, RlMissing, RlGetStatus, RlReadHeader, RlSeek, RlBadAddress, RlLocked, RlTypeOK
<1>3. \/ rlarm' = rlarm
      \/ \E stat \in BOOLEAN : rlarm' = [rlarm EXCEPT ![cs.drive].stat = stat]
      \/ \E cyl \in 0..(RlCylinders(cs.drive) - 1) : rlarm' = [rlarm EXCEPT ![cs.drive].cyl = cyl]
  <2>1. CASE RlNop(cs) \/ RlReadHeader(cs) \/ RlBadAddress(cs)
    BY <2>1 DEF RlNop, RlReadHeader, RlBadAddress
  <2>2. CASE RlMissing(cs) \/ RlLocked(cs)
    BY <2>2 DEF RlMissing, RlLocked
  <2>3. CASE RlGetStatus(cs)
    <3>1. rlarm[cs.drive].stat \in BOOLEAN
      BY <1>1 DEF RlTypeOK
    <3> QED BY <2>3, <3>1 DEF RlGetStatus
  <2>4. CASE RlSeek(cs)
    <3>1. PICK out \in BOOLEAN : rlarm' = [rlarm EXCEPT ![cs.drive].cyl = RlLands(cs.drive, out, rlda.cyl)]
      BY <2>4 DEF RlSeek
    <3>2. rlarm[cs.drive].cyl \in Nat /\ rlda.cyl \in Nat
      BY <1>1 DEF RlTypeOK
    <3>3. RlLands(cs.drive, out, rlda.cyl) \in 0..(RlCylinders(cs.drive) - 1)
      BY <3>2, LandsOnDisk
    <3> QED BY <3>1, <3>3
  <2> QED BY <2>1, <2>2, <2>3, <2>4
<1>4. rlarm' \in [RlDrives -> RlArms]
  <2>1. rlarm \in [RlDrives -> RlArms]
    BY DEF RlTypeOK, RlArms
  <2>2. 0..(RlCylinders(cs.drive) - 1) \subseteq 0..(RlBig - 1)
    BY CylinderBound, RlGeometryAssumption
  <2> QED BY <1>1, <1>3, <2>1, <2>2 DEF RlArms
<1>5. RlHeadsStep
  <2>1. RlCylinders(cs.drive) \in Nat
    BY CylinderBound
  <2>2. rlarm \in [RlDrives -> RlArms]
    BY DEF RlTypeOK, RlArms
  <2>3. ASSUME NEW d \in RlDrives, rlarm'[d].cyl # rlarm[d].cyl
        PROVE  d = cs.drive /\ rlarm'[d].cyl \in 0..(RlCylinders(cs.drive) - 1)
    <3>1. CASE rlarm' = rlarm
      BY <2>3, <3>1
    <3>2. ASSUME NEW stat \in BOOLEAN, rlarm' = [rlarm EXCEPT ![cs.drive].stat = stat] PROVE FALSE
      BY <1>1, <2>2, <2>3, <3>2 DEF RlArms
    <3>3. ASSUME NEW cyl \in 0..(RlCylinders(cs.drive) - 1), rlarm' = [rlarm EXCEPT ![cs.drive].cyl = cyl]
          PROVE  d = cs.drive /\ rlarm'[d].cyl = cyl
      BY <1>1, <2>2, <2>3, <3>3 DEF RlArms
    <3> QED BY <1>3, <3>1, <3>2, <3>3
  <2> QED BY <1>1, <2>1, <2>3 DEF RlHeadsStep
<1>6. RlImageStep
  BY <1>1 DEF RlImageStep
<1> QED BY <1>1, <1>2, <1>4, <1>5, <1>6 DEF RlTypeOK, RlArms

\* A transfer.
LEMMA TransferSafe ==
  ASSUME RlTypeOK, NEW cs \in RlCs, RlRead(cs) \/ RlWriteCheck(cs) \/ RlWrite(cs)
  PROVE  RlTypeOK' /\ RlHeadsStep /\ RlImageStep
<1>1. /\ RlAddressed(cs.drive) /\ cs.drive \in RlDrives
      /\ \E moved, done \in Nat, e \in SUBSET RlErrors : RlEnd(cs, moved, done, e)
  BY ReadsEnd, WriteFacts DEF RlCs
<1>2. /\ rlcs' \in RlCs /\ rlcs'.drive = cs.drive /\ rlerr' \subseteq RlErrors
      /\ rlba' \in 0..(RlPage - 1) /\ rlmp' \in 0..(RlCounts - 1)
      /\ rlda' \in [cyl : Nat, hd : RlHeads, sect : Nat]
      /\ rlarm' = [rlarm EXCEPT ![cs.drive].cyl = rlda.cyl]
      /\ rlirq' \in BOOLEAN
  BY <1>1, EndFacts
<1>3. rlda.cyl \in Nat /\ rlda.cyl < RlCylinders(cs.drive) /\ rlda.cyl \in 0..(RlBig - 1)
  BY <1>1, CylinderBound, RlGeometryAssumption DEF RlAddressed, RlTypeOK
<1>4. rlarm \in [RlDrives -> RlArms] /\ rldisk \in [RlDrives -> RlDisks]
  BY DEF RlTypeOK, RlArms, RlDisks
<1>5. rlarm' \in [RlDrives -> RlArms] /\ RlHeadsStep
  BY <1>1, <1>2, <1>3, <1>4 DEF RlArms, RlHeadsStep
<1>6. \/ rldisk' = rldisk
      \/ /\ ~rldisk[cs.drive].lock
         /\ \E n \in Nat :
              /\ rldisk' = [rldisk EXCEPT ![cs.drive].image = n]
              /\ n # rldisk[cs.drive].image =>
                   n > rldisk[cs.drive].image /\ n <= (rlda.cyl * 2 + rlda.hd + 1) * RlTrack
  BY ReadsEnd, WriteFacts
<1>7. rldisk' \in [RlDrives -> RlDisks]
  BY <1>1, <1>4, <1>6 DEF RlDisks
<1>8. RlImageStep
  <2>1. CASE rldisk' = rldisk
    BY <2>1 DEF RlImageStep
  <2>2. CASE rldisk' # rldisk
    <3>1. PICK n \in Nat :
            /\ rldisk' = [rldisk EXCEPT ![cs.drive].image = n]
            /\ n # rldisk[cs.drive].image =>
                 n > rldisk[cs.drive].image /\ n <= (rlda.cyl * 2 + rlda.hd + 1) * RlTrack
      BY <1>6, <2>2
    <3> DEFINE bound == (rlda.cyl * 2 + rlda.hd + 1) * RlTrack
    <3> HIDE DEF bound
    <3>2. ASSUME NEW d \in RlDrives, rldisk'[d] # rldisk[d]
          PROVE  /\ d = cs.drive /\ rldisk'[d] = [rldisk[d] EXCEPT !.image = n]
                 /\ rldisk'[d].image = n /\ n # rldisk[d].image
      BY <1>1, <1>4, <3>1, <3>2 DEF RlDisks
    <3>3. ASSUME NEW d \in RlDrives, rldisk'[d] # rldisk[d]
          PROVE  n > rldisk[d].image /\ n <= bound
      BY <3>1, <3>2, <3>3 DEF bound
    <3> QED BY <1>2, <1>3, <1>6, <2>2, <3>2, <3>3 DEF RlImageStep, bound
  <2> QED BY <2>1, <2>2
<1> QED BY <1>2, <1>5, <1>7 , <1>8 DEF RlTypeOK, RlArms, RlDisks

\* At power-on the registers are clear, whatever is mounted.
LEMMA RlInitType == RlInit => RlTypeOK
<1> SUFFICES ASSUME RlInit PROVE RlTypeOK
  OBVIOUS
<1>1. rldisk \in [RlDrives -> RlDisks]
  BY RlConstants DEF RlInit
<1>2. rlarm \in [RlDrives -> RlArms]
  BY RlConstants DEF RlInit, RlArms
<1>3. rlcs \in RlCs
  BY RlConstants DEF RlInit, RlCs
<1>4. rlda \in [cyl : Nat, hd : RlHeads, sect : Nat]
  BY DEF RlInit, RlZero, RlHeads
<1>5. rlba \in 0..(RlPage - 1) /\ rlmp \in 0..(RlCounts - 1) /\ rlerr \subseteq RlErrors
      /\ rlirq \in BOOLEAN
  BY RlConstants DEF RlInit
<1> QED BY <1>1, <1>2, <1>3, <1>4, <1>5 DEF RlTypeOK, RlDisks, RlArms

\* Commands, register writes, INIT, grants and exchanges of images.
LEMMA RlStepSafe ==
  ASSUME RlTypeOK, [RlNext]_rlvars
  PROVE  RlTypeOK' /\ [RlHeadsStep]_rlvars /\ [RlImageStep]_rlvars
<1>1. CASE RlGo
  BY <1>1, CommandSafe, TransferSafe DEF RlGo
<1>2. CASE RlWriteCs \/ RlWriteAddress \/ RlGrant
  <2>1. UNCHANGED <<rldisk, rlarm>>
    BY <1>2 DEF RlWriteCs, RlWriteAddress, RlGrant
  <2>2. RlTypeOK'
    BY <1>2, RlDiskCodesAssumption, RlWidthAssumption
       DEF RlWriteCs, RlWriteAddress, RlGrant, RlTypeOK
  <2> QED BY <2>1, <2>2 DEF RlHeadsStep, RlImageStep
<1>3. CASE RlBusInit
  <2>1. /\ UNCHANGED <<rldisk, rlarm, rlmp>> /\ rlerr' \subseteq RlErrors
        /\ rlirq' \in BOOLEAN /\ rlda' = RlZero
    BY <1>3 DEF RlBusInit, RlErrors
  <2>3. rlcs' \in RlCs
    BY <1>3, RlConstants DEF RlBusInit, RlCs
  <2>4. rlba' \in 0..(RlPage - 1)
    BY <1>3, RlConstants DEF RlBusInit
  <2>2. RlTypeOK'
    BY <2>1, <2>3, <2>4 DEF RlTypeOK, RlZero, RlHeads
  <2> QED BY <2>1, <2>2 DEF RlHeadsStep, RlImageStep
<1>4. CASE RlAttach
  <2>1. PICK d \in RlDrives :
          /\ \/ \E medium \in RlMedia : /\ rldisk' = [rldisk EXCEPT ![d] = medium]
                                        /\ rlarm' = [rlarm EXCEPT ![d].stat = TRUE]
             \/ rldisk' = [rldisk EXCEPT ![d] = RlEmpty] /\ UNCHANGED rlarm
          /\ UNCHANGED <<rlcs, rlerr, rlba, rlda, rlmp, rlirq>>
    BY <1>4 DEF RlAttach
  <2>2. rlarm \in [RlDrives -> RlArms] /\ rldisk \in [RlDrives -> RlDisks]
    BY DEF RlTypeOK, RlArms, RlDisks
  <2>3. rldisk' \in [RlDrives -> RlDisks]
    BY <2>1, <2>2, RlConstants
  <2>4. rlarm' \in [RlDrives -> RlArms] /\ \A e \in RlDrives : rlarm'[e].cyl = rlarm[e].cyl
    <3>1. CASE UNCHANGED rlarm
      BY <2>2, <3>1
    <3>2. CASE rlarm' = [rlarm EXCEPT ![d].stat = TRUE]
      <4>1. \A e \in RlDrives : /\ rlarm'[e].cyl = rlarm[e].cyl
                               /\ rlarm'[e] \in RlArms
        BY <2>2, <3>2 DEF RlArms
      <4>2. rlarm' = [e \in RlDrives |-> rlarm'[e]]
        BY <2>2, <3>2
      <4> QED BY <4>1, <4>2
    <3> QED BY <2>1, <3>1, <3>2
  <2>5. RlTypeOK'
    BY <2>1, <2>3, <2>4 DEF RlTypeOK, RlDisks, RlArms
  <2> QED BY <1>4, <2>4, <2>5 DEF RlHeadsStep, RlImageStep
<1>5. CASE UNCHANGED rlvars
  BY <1>5 DEF rlvars, RlTypeOK
<1> QED BY <1>1, <1>2, <1>3, <1>4, <1>5 DEF RlNext

\* The RL11's registers keep their widths, through every command.
THEOREM RlTypeCorrect == RlSpec => []RlTypeOK
BY RlInitType, RlStepSafe, PTL DEF RlSpec

\* The heads only move to a cylinder of the disk under them.
THEOREM HeadsLand == RlSpec => RlHeadsLand
<1>1. RlTypeOK /\ [RlNext]_rlvars => [RlHeadsStep]_rlvars
  BY RlStepSafe
<1>2. [][RlHeadsStep]_rlvars => RlHeadsLand
  BY DEF RlHeadsStep, RlHeadsLand
<1> QED BY <1>1, <1>2, RlTypeCorrect, PTL DEF RlSpec

\* Only a WRITE changes an image: the selected drive's, unlocked, inside the
\* addressed track.
THEOREM RlImagesSafe == RlSpec => RlImageSafe
<1>1. RlTypeOK /\ [RlNext]_rlvars => [RlImageStep]_rlvars
  BY RlStepSafe
<1>2. [][RlImageStep]_rlvars => RlImageSafe
  BY DEF RlImageStep, RlImageSafe
<1> QED BY <1>1, <1>2, RlTypeCorrect, PTL DEF RlSpec

-----------------------------------------------------------------------------
(* What the RL11 leaves for its driver *)

\* Whatever the transfer, it was let through, moved so many of n words and
\* counted the whole sectors of them; it was cut when and only when its errors
\* say so.
LEMMA TransferEnds ==
  ASSUME RlTypeOK, NEW cs \in RlCs, RlTransfers(cs)
  PROVE  /\ RlAddressed(cs.drive)
         /\ \E n \in 0..RlCount, e \in SUBSET RlErrors : \E moved \in 0..n :
              /\ RlEnd(cs, moved, RlCounted(moved, n), e)
              /\ moved < n <=> e \cap {"NXM", "CRC"} # {}
<1>1. RlAddressed(cs.drive) /\ RlPresent(cs) /\ cs.drive \in RlDrives
  BY DEF RlTransfers, RlRead, RlWriteCheck, RlWrite, RlOpen, RlCs
<1>2. RlCount \in Nat
  BY <1>1, CountInTrack
<1>3. {} \in SUBSET RlErrors /\ {"NXM"} \in SUBSET RlErrors /\ {"CRC"} \in SUBSET RlErrors
  BY DEF RlErrors
<1>4. CASE RlWrite(cs)
  <2> DEFINE moved == RlReached(cs, RlCount)
  <2>1. moved \in 0..RlCount
    BY <1>2, ReachedBound
  <2>2. RlEnd(cs, moved, RlCounted(moved, RlCount), IF moved < RlCount THEN {"NXM"} ELSE {})
    BY <1>4 DEF RlWrite
  <2> HIDE DEF moved
  <2>3. RlCount \in 0..RlCount
    BY <1>2
  <2>4. CASE moved < RlCount
    BY <1>1, <1>3, <2>1, <2>2, <2>3, <2>4
  <2>5. CASE ~(moved < RlCount)
    BY <1>1, <1>3, <2>1, <2>2, <2>3, <2>5
  <2> QED BY <2>4, <2>5
<1>5. CASE RlRead(cs) \/ RlWriteCheck(cs)
  <2> DEFINE n == RlAvailable(cs.drive)
             moved == RlReached(cs, n)
  <2>1. n \in 0..RlCount
    BY <1>1, AvailableBound DEF RlPresent
  <2>2. \/ RlEnd(cs, moved, RlCounted(moved, n), IF moved < n THEN {"NXM"} ELSE {})
        \/ \E same \in 0..(moved - 1) : RlEnd(cs, same, RlCounted(same, n), {"CRC"})
    BY <1>5 DEF RlRead, RlWriteCheck
  <2> HIDE DEF n
  <2>3. moved \in 0..n
    BY <2>1, ReachedBound
  <2> HIDE DEF moved
  <2>4. CASE \E same \in 0..(moved - 1) : RlEnd(cs, same, RlCounted(same, n), {"CRC"})
    <3>1. PICK same \in 0..(moved - 1) : RlEnd(cs, same, RlCounted(same, n), {"CRC"})
      BY <2>4
    <3>2. same \in 0..n /\ same < n
      BY <2>1, <2>3
    <3>3. {"CRC"} \cap {"NXM", "CRC"} # {}
      OBVIOUS
    <3> QED BY <1>1, <1>3, <2>1, <3>1, <3>2, <3>3
  <2>5. CASE RlEnd(cs, moved, RlCounted(moved, n), IF moved < n THEN {"NXM"} ELSE {})
    <3>1. CASE moved < n
      BY <1>1, <1>3, <2>1, <2>3, <2>5, <3>1
    <3>2. CASE ~(moved < n)
      BY <1>1, <1>3, <2>1, <2>3, <2>5, <3>2
    <3> QED BY <3>1, <3>2
  <2> QED BY <2>2, <2>4, <2>5
<1> QED BY <1>4, <1>5 DEF RlTransfers

\* What the registers tell after a transfer.
LEMMA ResidueFacts ==
  ASSUME RlTypeOK, NEW cs \in RlCs, RlTransfers(cs), <<rlba, rlmp>>' # <<rlba, rlmp>>,
         NEW mex, cs = [rlcs' EXCEPT !.mex = mex]
  PROVE  LET asked == IF rlmp = 0 THEN RlCounts ELSE RlCounts - rlmp
             done  == (rlmp' - rlmp) % RlCounts
             ahead == (RlFrom(rlcs)' - RlFrom(cs) - done) % (RlPages * RlPage)
         IN  /\ rlda'.sect = rlda.sect + done \div RlWords /\ rlda'.sect <= RlSectors
             /\ IF rlerr' \cap {"NXM", "CRC"} = {} THEN ahead = 0
                ELSE ahead < RlWords /\ done % RlWords = 0
             /\ rlerr' = {} => done = asked
<1>0. PICK n \in 0..RlCount, e \in SUBSET RlErrors : \E m \in 0..n :
        /\ RlEnd(cs, m, RlCounted(m, n), e)
        /\ m < n <=> e \cap {"NXM", "CRC"} # {}
  BY TransferEnds
<1>1. PICK moved \in 0..n :
        /\ RlEnd(cs, moved, RlCounted(moved, n), e)
        /\ moved < n <=> e \cap {"NXM", "CRC"} # {}
  BY <1>0
<1> DEFINE d == RlCounted(moved, n)
           asked == IF rlmp = 0 THEN RlCounts ELSE RlCounts - rlmp
           k == RlPages * RlPage
           far == RlFrom(cs) + moved
<1>2. /\ RlCount \in Nat /\ rlda.sect * RlWords \in Nat /\ rlda.sect * RlWords + RlCount <= RlTrack
      /\ rlda.sect < RlSectors /\ rlda.sect \in Nat
  BY TransferEnds, CountInTrack DEF RlCs, RlTypeOK, RlAddressed
<1>3. n \in Nat /\ moved \in Nat
  BY <1>1, <1>2
<1>4. d \in 0..moved /\ moved - d < RlWords /\ (moved < n => d % RlWords = 0) /\ (moved = n => d = n)
  <2>1. CASE moved = n
    BY <1>3, <2>1, RlConstants DEF RlCounted
  <2>2. CASE moved # n
    <3>1. moved <= moved * RlWords
      BY <1>3, RlConstants
    <3>2. d = (moved \div RlWords) * RlWords
      BY <2>2 DEF RlCounted
    <3>3. /\ d % RlWords = 0 /\ moved - d < RlWords /\ moved - d >= 0 /\ moved \div RlWords \in Nat
      BY <1>3, <3>1, <3>2, RlConstants, Whole
    <3>4. d \in Nat
      BY <3>2, <3>3, RlConstants, Products
    <3> QED BY <1>3, <2>2, <3>3, <3>4
  <2> QED BY <2>1, <2>2
<1>5. /\ rlmp' = (rlmp + d) % RlCounts /\ rlba' = far % RlPage
      /\ rlda' = [rlda EXCEPT !.sect = @ + d \div RlWords]
      /\ rlcs' = [cs EXCEPT !.mex = (far \div RlPage) % RlPages]
      /\ rlerr' = e \cup IF rlmp' # 0 THEN {"INCMP", "DLT"} ELSE {}
  BY <1>1 DEF RlEnd, RlDone
<1>6. RlFrom(cs) \in Nat
  <2>1. cs.mex * RlPage \in Nat /\ rlba \in Nat
    BY RlConstants, Products DEF RlCs, RlTypeOK
  <2> QED BY <2>1 DEF RlFrom
<1>7. rlda'.sect = rlda.sect + d \div RlWords
  BY <1>5 DEF RlTypeOK
<1> HIDE DEF d
<1>8. d \in Nat /\ d <= RlCount
  BY <1>1, <1>2, <1>3, <1>4
<1>9. rlmp \in 0..(RlCounts - 1) /\ d < RlCounts
  BY <1>2, <1>8, RlConstants, RlTrackAssumption DEF RlTypeOK, RlTrack
<1>10. (rlmp' - rlmp) % RlCounts = d /\ (rlmp' = 0 => rlmp + d = 0 \/ rlmp + d = RlCounts)
  BY <1>5, <1>8, <1>9, RlConstants, Wrapped
<1>11. rlda'.sect <= RlSectors
  <2> DEFINE s == RlSectors - rlda.sect
  <2>1. s \in Nat /\ s * RlWords = RlTrack - rlda.sect * RlWords
    BY <1>2, RlConstants DEF RlTrack
  <2>2. d <= s * RlWords
    BY <1>2, <1>8, <2>1, RlConstants
  <2>3. s = RlSectors - rlda.sect
    OBVIOUS
  <2> HIDE DEF s
  <2>4. d \div RlWords <= s /\ d \div RlWords \in Nat
    BY <1>8, <2>1, <2>2, RlConstants, Whole
  <2> QED BY <1>2, <1>7, <2>1, <2>3, <2>4, RlConstants
<1>12. RlFrom(rlcs)' = far % k
  <2>1. far \in Nat
    BY <1>3, <1>6
  <2>2. rlcs'.mex = (far \div RlPage) % RlPages
    BY <1>5 DEF RlCs
  <2>3. RlFrom(rlcs)' = rlcs'.mex * RlPage + rlba'
    BY DEF RlFrom
  <2> HIDE DEF far
  <2> QED BY <1>5, <2>1, <2>2, <2>3, RlConstants, Nested
<1> DEFINE ahead == (RlFrom(rlcs)' - RlFrom(cs) - d) % k
<1>13. ahead = (moved - d) % k /\ ahead <= moved - d /\ (moved = d => ahead = 0)
  <2>1. k \in Nat \ {0}
    BY RlConstants, Products
  <2> HIDE DEF k
  <2>2. (moved - d) % k <= moved - d /\ ahead = (moved - d) % k
    BY <1>3, <1>4, <1>6, <1>12, <2>1, Ahead
  <2>3. 0 % k = 0
    BY <2>1
  <2> QED BY <1>3, <2>2, <2>3
<1>14. IF rlerr' \cap {"NXM", "CRC"} = {} THEN ahead = 0 ELSE ahead < RlWords /\ d % RlWords = 0
  <2>1. rlerr' \cap {"NXM", "CRC"} = e \cap {"NXM", "CRC"}
    BY <1>5
  <2>2. ahead < RlWords
    <3>1. ahead \in Int
      <4>1. k \in Nat \ {0} /\ moved - d \in Int
        BY <1>3, <1>8, RlConstants, Products
      <4> HIDE DEF k
      <4> QED BY <1>13, <4>1
    <3> HIDE DEF ahead
    <3> QED BY <1>3, <1>4, <1>8, <1>13, <3>1, RlConstants
  <2> HIDE DEF ahead
  <2>3. CASE moved < n
    BY <1>1, <1>4, <2>1, <2>2, <2>3
  <2>4. CASE ~(moved < n)
    <3>1. moved = n
      BY <1>1, <1>3, <2>4
    <3> QED BY <1>1, <1>4, <1>13, <2>1, <2>4, <3>1
  <2> QED BY <2>3, <2>4
<1>15. rlerr' = {} => d = asked
  <2> SUFFICES ASSUME rlerr' = {} PROVE d = asked
    OBVIOUS
  <2>1. rlmp' = 0 /\ e = {}
    BY <1>5
  <2>2. moved = n /\ d = moved
    BY <1>1, <1>3, <1>4, <2>1
  <2>3. CASE rlmp + d = RlCounts
    BY <1>8, <1>9, <2>3, RlConstants
  <2>4. CASE rlmp + d = 0
    <3>1. rlmp = 0 /\ d = 0 /\ moved = 0
      BY <1>8, <1>9, <2>2, <2>4
    <3>2. RlFrom(cs) % RlPage = rlba
      <4>1. cs.mex \in Nat /\ rlba \in 0..(RlPage - 1)
        BY RlConstants DEF RlCs, RlTypeOK
      <4>2. RlFrom(cs) = RlPage * cs.mex + rlba
        BY <4>1, RlConstants DEF RlFrom
      <4> QED BY <4>1, <4>2, RlConstants, Unique
    <3>3. rlba' = rlba
      BY <1>5, <1>6, <3>1, <3>2
    <3> QED BY <2>1, <3>1, <3>3
  <2> QED BY <1>10, <2>1, <2>3, <2>4
<1> HIDE DEF ahead
<1>16. (RlFrom(rlcs)' - RlFrom(cs) - d) % (RlPages * RlPage) = ahead
  BY DEF ahead
<1> QED BY <1>7, <1>10, <1>11, <1>14, <1>15, <1>16

\* The count, the sector and the bus address that a command leaves tell of the
\* same words, for every geometry and every width.
THEOREM ResidueAgrees == RlSpec => RlResidue
<1> DEFINE A == <<rlba, rlmp>>' # <<rlba, rlmp>> => \A mex \in 0..(RlPages - 1) :
                  LET cs    == [rlcs' EXCEPT !.mex = mex]
                      asked == IF rlmp = 0 THEN RlCounts ELSE RlCounts - rlmp
                      done  == (rlmp' - rlmp) % RlCounts
                      ahead == (RlFrom(rlcs)' - RlFrom(cs) - done) % (RlPages * RlPage)
                  IN  RlTransfers(cs) =>
                        /\ rlda'.sect = rlda.sect + done \div RlWords /\ rlda'.sect <= RlSectors
                        /\ IF rlerr' \cap {"NXM", "CRC"} = {} THEN ahead = 0
                           ELSE ahead < RlWords /\ done % RlWords = 0
                        /\ rlerr' = {} => done = asked
<1>1. RlTypeOK /\ [RlNext]_rlvars => [A]_rlvars
  <2> SUFFICES ASSUME RlTypeOK, RlNext, <<rlba, rlmp>>' # <<rlba, rlmp>>,
                      NEW mex \in 0..(RlPages - 1), RlTransfers([rlcs' EXCEPT !.mex = mex])
               PROVE  LET cs    == [rlcs' EXCEPT !.mex = mex]
                          asked == IF rlmp = 0 THEN RlCounts ELSE RlCounts - rlmp
                          done  == (rlmp' - rlmp) % RlCounts
                          ahead == (RlFrom(rlcs)' - RlFrom(cs) - done) % (RlPages * RlPage)
                      IN  /\ rlda'.sect = rlda.sect + done \div RlWords /\ rlda'.sect <= RlSectors
                          /\ IF rlerr' \cap {"NXM", "CRC"} = {} THEN ahead = 0
                             ELSE ahead < RlWords /\ done % RlWords = 0
                          /\ rlerr' = {} => done = asked
    OBVIOUS
  <2>1. rlcs' \in RlCs
    BY RlStepSafe DEF RlTypeOK
  <2>2. [rlcs' EXCEPT !.mex = mex] \in RlCs
    BY <2>1 DEF RlCs
  <2> QED BY <2>2, ResidueFacts
<1> HIDE DEF A
<1>2. [][A]_rlvars => RlResidue
  BY DEF A, RlResidue
<1> QED BY <1>1, <1>2, RlTypeCorrect, PTL DEF RlSpec

-----------------------------------------------------------------------------
(* The two controllers on one bus *)

\* A machine of two controllers is one of each: whatever is proved of either
\* alone holds of it on the bus.
LEMMA Apart == DisksSpec => RkSpec /\ RlSpec
<1>1. DisksInit => RkInit /\ RlInit
  BY DEF DisksInit
<1>2. [DisksNext]_disksvars => [RkNext]_rkvars /\ [RlNext]_rlvars
  BY DEF DisksNext, disksvars
<1> QED BY <1>1, <1>2, PTL DEF DisksSpec, RkSpec, RlSpec

\* The registers of both keep their types, for every pair of geometries.
THEOREM TypeCorrect == DisksSpec => []DisksTypeOK
<1>1. RkTypeOK /\ RlTypeOK => DisksTypeOK
  BY DEF DisksTypeOK
<1> QED BY <1>1, Apart, RkTypeCorrect, RlTypeCorrect, PTL
=============================================================================
