-------------------------- MODULE FrontEndsProofs ---------------------------
(***************************************************************************)
(* Proofs about the programmer console and its two front ends, for every   *)
(* width of the console's registers, every set of number keys, addresses   *)
(* that answer and words found there, and any number of characters typed   *)
(* ahead.                                                                  *)
(***************************************************************************)
EXTENDS FrontEnds, TLAPS

-----------------------------------------------------------------------------
(* The panel *)

Addresses == 0..(BusSize - 1)
WordsOf16 == 0..(WordSize - 1)

PanelRecord ==
  [tmp : Addresses, addr : Addresses, exam : BOOLEAN, dep : BOOLEAN, sr : WordsOf16,
   maint : BOOLEAN, cntrl : BOOLEAN, run : BOOLEAN, boot : BOOLEAN, init : BOOLEAN,
   due : [exam : Addresses, dep : Addresses], strayed : BOOLEAN,
   halted : BOOLEAN, mid : BOOLEAN, pc : WordsOf16]

\* The pointer and its flags give the words the manual's walk owes.
Walks(c) ==
  ~c.strayed => c.due = [exam |-> IF c.exam THEN NextWord(c.addr) ELSE c.addr,
                         dep  |-> IF c.dep THEN NextWord(c.addr) ELSE c.addr]

\* The registers of the panel, and its walk: what every key keeps.
Good(c) == c \in PanelRecord /\ Walks(c)

\* The requests START, INIT and BOOT leave to the front end.
Calm(c)         == ~c.boot /\ ~c.init
Alike(d, c)     == d.boot = c.boot /\ d.init = c.init

\* What the widths of the registers make of their contents.
LEMMA Widths ==
  /\ BusSize \in Nat \ {0} /\ WordSize \in Nat \ {0}
  /\ WordsOf16 \subseteq Addresses /\ 0 \in Addresses /\ 0 \in WordsOf16
  /\ R7 \in Addresses /\ Program \subseteq WordsOf16 /\ Contents \subseteq WordsOf16
  /\ \A n \in Int : n % BusSize \in Addresses /\ n % WordSize \in WordsOf16
<1>1. BusSize \in Nat \ {0} /\ WordSize \in Nat \ {0} /\ WordSize <= BusSize
  BY PanelWidthAssumption
<1>2. \A n \in Int : n % BusSize \in 0..(BusSize - 1) /\ n % WordSize \in 0..(WordSize - 1)
  BY <1>1
<1>3. R7 \in Addresses
  BY <1>1, PanelBusAssumption DEF R7, Addresses
<1> QED BY <1>1, <1>2, <1>3, PanelBusAssumption DEF Addresses, WordsOf16

\* What the CPU changes is no matter of the panel's registers.
LEMMA CpuFacts ==
  ASSUME NEW c, Good(c), NEW m \in BOOLEAN, NEW a \in Program, NEW h \in BOOLEAN
  PROVE  LET d == [c EXCEPT !.pc = a, !.mid = m, !.halted = h]
             e == [c EXCEPT !.pc = a, !.mid = m]
         IN  /\ Good(d) /\ Alike(d, c) /\ d.cntrl = c.cntrl /\ d.maint = c.maint
             /\ Good(e) /\ Alike(e, c) /\ e.cntrl = c.cntrl /\ e.maint = c.maint
<1> DEFINE d == [c EXCEPT !.pc = a, !.mid = m, !.halted = h]
           e == [c EXCEPT !.pc = a, !.mid = m]
<1>1. a \in WordsOf16
  BY Widths
<1>2. d \in PanelRecord /\ e \in PanelRecord
  BY <1>1 DEF Good, PanelRecord
<1>3. Walks(d) /\ Walks(e)
  BY DEF Good, PanelRecord, Walks
<1>4. /\ Alike(d, c) /\ d.cntrl = c.cntrl /\ d.maint = c.maint
      /\ Alike(e, c) /\ e.cntrl = c.cntrl /\ e.maint = c.maint
  BY DEF Good, PanelRecord, Alike
<1> QED BY <1>2, <1>3, <1>4 DEF Good

\* An instruction, or a part of one, moves the PC and may halt.
LEMMA UstepFacts ==
  ASSUME NEW c, Good(c), NEW d \in Ustep(c)
  PROVE  Good(d) /\ Alike(d, c) /\ d.cntrl = c.cntrl /\ d.maint = c.maint
<1>1. PICK a \in Program :
        d \in {[c EXCEPT !.pc = a, !.mid = TRUE], [c EXCEPT !.pc = a, !.mid = FALSE],
               [c EXCEPT !.pc = a, !.mid = FALSE, !.halted = TRUE]}
  BY DEF Ustep
<1>2. CASE d = [c EXCEPT !.pc = a, !.mid = TRUE]
  BY <1>2, CpuFacts
<1>3. CASE d = [c EXCEPT !.pc = a, !.mid = FALSE]
  BY <1>3, CpuFacts
<1>4. CASE d = [c EXCEPT !.pc = a, !.mid = FALSE, !.halted = TRUE]
  BY <1>4, CpuFacts
<1> QED BY <1>1, <1>2, <1>3, <1>4

\* The PC is displayed.
LEMMA ShowPcFacts ==
  ASSUME NEW c, Good(c)
  PROVE  Good(ShowPc(c)) /\ Alike(ShowPc(c), c) /\ ShowPc(c).halted = c.halted
BY Widths DEF Good, PanelRecord, Walks, Alike, ShowPc

\* Whether the CPU runs is no matter of the panel's registers.
LEMMA HaltedFacts ==
  ASSUME NEW c, Good(c), NEW h \in BOOLEAN
  PROVE  LET d == [c EXCEPT !.halted = h] IN Good(d) /\ Alike(d, c) /\ d.halted = h
BY DEF Good, PanelRecord, Walks, Alike

\* console_tick.
LEMMA TickFacts ==
  ASSUME NEW c, Good(c)
  PROVE  Good(ConsoleTick(c)) /\ Alike(ConsoleTick(c), c) /\ ConsoleTick(c).halted = c.halted
<1> DEFINE d == [c EXCEPT !.run = ~c.halted]
<1>1. Good(d) /\ Alike(d, c) /\ d.halted = c.halted
  BY DEF Good, PanelRecord, Walks, Alike
<1>2. Good(ShowPc(d)) /\ Alike(ShowPc(d), d) /\ ShowPc(d).halted = d.halted
  <2> HIDE DEF d
  <2> QED BY <1>1, ShowPcFacts
<1> HIDE DEF d
<1> QED BY <1>1, <1>2 DEF ConsoleTick, Alike, d

\* The history is right when its words are those of the pointer and the flags.
LEMMA OwingFacts ==
  ASSUME NEW e \in PanelRecord, NEW due \in [exam : Addresses, dep : Addresses],
         NEW left \in BOOLEAN,
         ~left => due = [exam |-> IF e.exam THEN NextWord(e.addr) ELSE e.addr,
                         dep  |-> IF e.dep THEN NextWord(e.addr) ELSE e.addr]
  PROVE  Good(Owing(e, due, left)) /\ Alike(Owing(e, due, left), e)
<1> DEFINE shown == IF left THEN DueAt(0) ELSE due
<1>1. shown \in [exam : Addresses, dep : Addresses] /\ (~left => shown = due)
  BY Widths DEF DueAt
<1>2. Owing(e, due, left) = [e EXCEPT !.due = shown, !.strayed = left]
  BY DEF Owing
<1> HIDE DEF shown
<1> QED BY <1>1, <1>2 DEF PanelRecord, Good, Walks, Alike

\* console_set_addr.
LEMMA SetAddrFacts ==
  ASSUME NEW c, Good(c), NEW a \in Addresses
  PROVE  Good(SetAddr(c, a)) /\ Alike(SetAddr(c, a), c)
<1> DEFINE n == a % BusSize
           e == [c EXCEPT !.addr = n]
<1>1. n \in Addresses
  BY Widths DEF Addresses
<1>2. SetAddr(c, a) = Owing(e, DueAt(n), c.exam \/ c.dep)
  BY DEF SetAddr
<1> HIDE DEF n
<1>3. /\ e \in PanelRecord /\ e.addr = n /\ e.exam = c.exam /\ e.dep = c.dep /\ Alike(e, c)
      /\ c.exam \in BOOLEAN /\ c.dep \in BOOLEAN
  BY <1>1 DEF Good, PanelRecord, Alike
<1>4. /\ DueAt(n) \in [exam : Addresses, dep : Addresses]
      /\ ~c.exam /\ ~c.dep => DueAt(n) = [exam |-> n, dep |-> n]
  BY <1>1 DEF DueAt
<1> HIDE DEF e
<1> QED BY <1>2, <1>3, <1>4, OwingFacts DEF Alike

\* console_init, console_reset.
LEMMA ClearedFacts ==
  ASSUME NEW c, Good(c)
  PROVE  Good(Cleared(c)) /\ Calm(Cleared(c)) /\ Cleared(c).halted = c.halted
<1>1. Walks(Cleared(c))
  BY Widths DEF Good, PanelRecord, Walks, Cleared, DueAt
<1> QED BY <1>1, Widths DEF Good, PanelRecord, Cleared, Calm, DueAt

\* machine_power_on, and the INIT asked for.
LEMMA PowerOnFacts ==
  ASSUME NEW c, Good(c), NEW d \in PowerOn(c)
  PROVE  Good(d) /\ Alike(d, c)
<1>1. PICK a \in Program : d = [c EXCEPT !.mid = FALSE, !.pc = a, !.halted = FALSE]
  BY DEF PowerOn
<1> QED BY <1>1, CpuFacts

\* BUS INIT is asserted.
LEMMA InitDoneFacts ==
  ASSUME NEW c, Good(c)
  PROVE  Good(InitDone(c)) /\ InitDone(c).boot = c.boot /\ ~InitDone(c).init
         /\ InitDone(c).halted = c.halted
BY DEF Good, PanelRecord, Walks, InitDone

-----------------------------------------------------------------------------
(* The keys *)

Keys == Digits \cup 8..19

\* The word after one of the bus is on the bus; it is the code's but in the
\* range of the registers.
LEMMA WordFacts ==
  /\ \A a \in Addresses : NextWord(a) \in Addresses
  /\ \A c, flag : Good(c) /\ flag \in BOOLEAN =>
       /\ Moved(c, flag) \in Addresses
       /\ ~(flag /\ ByOne(c.addr)) =>
            Moved(c, flag) = IF flag THEN NextWord(c.addr) ELSE c.addr
<1>1. \A a \in Addresses : a + 1 \in Int /\ a + 2 \in Int
  BY DEF Addresses
<1>2. \A a \in Addresses : NextWord(a) \in Addresses
  BY <1>1, Widths DEF NextWord
<1>3. \A c : Good(c) => c.addr \in Addresses
  BY DEF Good, PanelRecord
<1> QED BY <1>1, <1>2, <1>3, Widths DEF Moved, NextWord

\* A number key appends a digit.
LEMMA DigitFacts ==
  ASSUME NEW c, Good(c), NEW k \in Digits, NEW d \in Digit(c, k)
  PROVE  Good(d) /\ Alike(d, c)
<1>1. c.tmp * Radix + k \in Int
  BY PanelWidthAssumption DEF Good, PanelRecord, Addresses
<1>2. (c.tmp * Radix + k) % BusSize \in Addresses
  BY <1>1, Widths
<1> DEFINE n == (c.tmp * Radix + k) % BusSize
<1>3. d = [c EXCEPT !.tmp = n]
  BY DEF Digit
<1> HIDE DEF n
<1> QED BY <1>2, <1>3 DEF Good, PanelRecord, Walks, Alike, n

\* The keys that touch the temporary register, the address pointer and the
\* switch register alone.
LEMMA LoadFacts ==
  ASSUME NEW c, Good(c), NEW d \in Clr(c) \cup Lad(c) \cup Lsr(c) \cup DisAd(c)
  PROVE  Good(d) /\ Alike(d, c)
<1>1. c \in PanelRecord /\ c.tmp \in Addresses /\ c.addr \in Addresses /\ c.tmp \in Int
  BY DEF Good, PanelRecord, Addresses
<1>2. CASE d \in Clr(c)
  <2> DEFINE e == [c EXCEPT !.tmp = 0, !.exam = FALSE, !.dep = FALSE, !.maint = FALSE]
  <2>1. d = Owing(e, c.due, c.strayed \/ c.exam \/ c.dep)
    BY <1>2 DEF Clr
  <2>2. /\ e \in PanelRecord /\ e.addr = c.addr /\ ~e.exam /\ ~e.dep /\ Alike(e, c)
        /\ c.due \in [exam : Addresses, dep : Addresses]
        /\ c.strayed \in BOOLEAN /\ c.exam \in BOOLEAN /\ c.dep \in BOOLEAN
    BY <1>1, Widths DEF PanelRecord, Alike
  <2> HIDE DEF e
  <2>3. ~(c.strayed \/ c.exam \/ c.dep) => c.due = [exam |-> c.addr, dep |-> c.addr]
    BY DEF Good, Walks
  <2> QED BY <2>1, <2>2, <2>3, OwingFacts DEF Good, Alike
<1>3. CASE d \in Lad(c)
  <2>1. d = [c EXCEPT !.addr = c.tmp, !.tmp = 0, !.exam = FALSE, !.dep = FALSE,
                      !.due = DueAt(c.tmp), !.strayed = FALSE]
    BY <1>3 DEF Lad
  <2>2. d \in PanelRecord
    BY <1>1, <2>1, Widths DEF PanelRecord, DueAt
  <2> QED BY <1>1, <2>1, <2>2 DEF PanelRecord, Good, Walks, Alike, DueAt
<1>4. CASE d \in Lsr(c)
  <2>1. c.tmp % WordSize \in WordsOf16
    BY <1>1, Widths
  <2> QED BY <1>1, <1>4, <2>1 DEF Lsr, PanelRecord, Good, Walks, Alike
<1>5. CASE d \in DisAd(c)
  <2>1. d = [c EXCEPT !.exam = FALSE, !.dep = FALSE, !.due = DueAt(c.addr), !.strayed = FALSE]
    BY <1>5 DEF DisAd
  <2>2. d \in PanelRecord
    BY <1>1, <2>1 DEF PanelRecord, DueAt
  <2> QED BY <1>1, <2>1, <2>2 DEF PanelRecord, Good, Walks, Alike, DueAt
<1> QED BY <1>2, <1>3, <1>4, <1>5

\* EXAM leaves the pointer where the next EXAM goes past it and a DEP does not.
LEMMA ExamFacts ==
  ASSUME NEW c, Good(c), NEW d \in Exam(c)
  PROVE  Good(d) /\ Alike(d, c)
<1> DEFINE a == Moved(c, c.exam)
           owed == c.due.exam
           left == c.strayed \/ (c.exam /\ ByOne(c.addr))
<1>1. /\ c \in PanelRecord /\ c.exam \in BOOLEAN /\ c.strayed \in BOOLEAN /\ left \in BOOLEAN
      /\ a \in Addresses /\ owed \in Addresses /\ NextWord(owed) \in Addresses
  BY WordFacts DEF Good, PanelRecord
<1>2. ~left => owed = a
  BY <1>1, WordFacts DEF Good, Walks
<1>3. \A w \in Reads(c, a) : w \in Addresses
  BY <1>1, Widths DEF Reads, PanelRecord
<1>4. CASE ~c.halted
  BY <1>4 DEF Exam, Alike
<1>5. CASE c.halted
  <2>1. PICK w \in Reads(c, a) :
          d = Owing([c EXCEPT !.addr = a, !.tmp = w, !.exam = TRUE, !.dep = FALSE],
                    [exam |-> NextWord(owed), dep |-> owed], left)
    BY <1>5 DEF Exam
  <2> DEFINE e == [c EXCEPT !.addr = a, !.tmp = w, !.exam = TRUE, !.dep = FALSE]
  <2> HIDE DEF a, owed, left
  <2>2. e \in PanelRecord /\ e.addr = a /\ e.exam /\ ~e.dep /\ Alike(e, c)
    BY <1>1, <1>3 DEF PanelRecord, Alike
  <2>3. ~left => NextWord(owed) = NextWord(a)
    BY <1>2
  <2> HIDE DEF e
  <2>4. d = Owing(e, [exam |-> NextWord(owed), dep |-> owed], left)
    BY <2>1 DEF e
  <2> QED BY <1>1, <1>2, <2>2, <2>3, <2>4, OwingFacts DEF Alike
<1> QED BY <1>4, <1>5

\* DEP likewise, the other way round; it may deposit in the PC.
LEMMA DepFacts ==
  ASSUME NEW c, Good(c), NEW d \in Dep(c)
  PROVE  Good(d) /\ Alike(d, c)
<1> DEFINE a == Moved(c, c.dep)
           owed == c.due.dep
           left == c.strayed \/ (c.dep /\ ByOne(c.addr))
           pc == IF a = R7 THEN c.tmp % WordSize ELSE c.pc
<1>1. /\ c \in PanelRecord /\ c.dep \in BOOLEAN /\ c.strayed \in BOOLEAN /\ left \in BOOLEAN
      /\ a \in Addresses /\ owed \in Addresses /\ NextWord(owed) \in Addresses
  BY WordFacts DEF Good, PanelRecord
<1>2. ~left => owed = a
  BY <1>1, WordFacts DEF Good, Walks
<1>3. pc \in WordsOf16
  <2>1. c.pc \in WordsOf16 /\ c.tmp \in Int
    BY DEF Good, PanelRecord, Addresses
  <2> QED BY <2>1, Widths
<1>4. CASE ~c.halted
  BY <1>4 DEF Dep, Alike
<1>5. CASE c.halted
  <2> DEFINE e == [c EXCEPT !.addr = a, !.dep = TRUE, !.exam = FALSE, !.pc = pc]
  <2>1. d = Owing(e, [exam |-> owed, dep |-> NextWord(owed)], left)
    BY <1>5 DEF Dep
  <2> HIDE DEF a, owed, left, pc
  <2>2. e \in PanelRecord /\ e.addr = a /\ e.dep /\ ~e.exam /\ Alike(e, c)
    BY <1>1, <1>3 DEF PanelRecord, Alike
  <2>3. ~left => NextWord(owed) = NextWord(a)
    BY <1>2
  <2> HIDE DEF e
  <2> QED BY <1>1, <1>2, <2>1, <2>2, <2>3, OwingFacts DEF Alike
<1> QED BY <1>4, <1>5

\* HALT/SS on a halted CPU is an instruction; with CNTRL it halts the CPU.
LEMMA HaltSsFacts ==
  ASSUME NEW c, Good(c), NEW d \in HaltSs(c) \cup CntrlHaltSs(c)
  PROVE  Good(d) /\ Alike(d, c)
<1>1. \A e : Good(e) => LET h == [e EXCEPT !.halted = TRUE]
                        IN  Good(ShowPc(h)) /\ Alike(ShowPc(h), e)
  <2> TAKE e
  <2> DEFINE h == [e EXCEPT !.halted = TRUE]
  <2> SUFFICES ASSUME Good(e) PROVE Good(ShowPc(h)) /\ Alike(ShowPc(h), e)
    OBVIOUS
  <2>1. Good(h) /\ Alike(h, e)
    BY HaltedFacts
  <2> HIDE DEF h
  <2>2. Good(ShowPc(h)) /\ Alike(ShowPc(h), h)
    BY <2>1, ShowPcFacts
  <2> QED BY <2>1, <2>2 DEF Alike
<1>2. ASSUME NEW e \in HaltSs(c) PROVE Good(e) /\ Alike(e, c)
  <2>1. CASE ~c.halted
    BY <1>2, <2>1 DEF HaltSs, Alike
  <2>2. CASE c.halted
    <3>1. PICK u \in Ustep(c) : e = ShowPc([u EXCEPT !.halted = TRUE])
      BY <1>2, <2>2 DEF HaltSs
    <3>2. Good(u) /\ Alike(u, c)
      BY UstepFacts
    <3> QED BY <1>1, <3>1, <3>2 DEF Alike
  <2> QED BY <2>1, <2>2
<1>3. ASSUME NEW e \in CntrlHaltSs(c) PROVE Good(e) /\ Alike(e, c)
  BY <1>1, <1>2, <1>3 DEF CntrlHaltSs
<1> QED BY <1>2, <1>3

\* A key in console mode.
LEMMA PlainFacts ==
  ASSUME NEW c, Good(c), NEW k \in Keys, NEW d \in PlainKey(c, k)
  PROVE  Good(d) /\ Alike(d, c)
<1>1. \/ k \in Digits /\ d \in Digit(c, k)
      \/ d \in Clr(c) \cup Lad(c) \cup Lsr(c) \cup DisAd(c)
      \/ d \in Exam(c) \/ d \in Dep(c) \/ d \in HaltSs(c) \/ d = c
  BY DEF PlainKey
<1> QED BY <1>1, DigitFacts, LoadFacts, ExamFacts, DepFacts, HaltSsFacts DEF Alike

\* A key in maintenance mode.
LEMMA MaintFacts ==
  ASSUME NEW c, Good(c), NEW k \in Keys, NEW d \in MaintKey(c, k)
  PROVE  Good(d) /\ d.init = c.init /\ (k # KEY_BOOT => d.boot = c.boot)
<1>1. c \in PanelRecord
  BY DEF Good
<1>2. \/ d = ShowPc([c EXCEPT !.maint = FALSE, !.halted = TRUE])
      \/ d = [c EXCEPT !.halted = TRUE]
      \/ \E u \in Ustep(c) : d = [u EXCEPT !.halted = TRUE]
      \/ k = KEY_BOOT /\ d = [c EXCEPT !.boot = TRUE]
      \/ d = c
  BY DEF MaintKey
<1>3. CASE d = ShowPc([c EXCEPT !.maint = FALSE, !.halted = TRUE])
  <2> DEFINE e == [c EXCEPT !.maint = FALSE, !.halted = TRUE]
  <2>1. Good(e) /\ Alike(e, c)
    BY <1>1 DEF Good, PanelRecord, Walks, Alike
  <2>2. d = ShowPc(e)
    BY <1>3
  <2> HIDE DEF e
  <2> QED BY <2>1, <2>2, ShowPcFacts DEF Alike
<1>4. CASE d = [c EXCEPT !.halted = TRUE]
  BY <1>4, HaltedFacts DEF Alike
<1>5. CASE \E u \in Ustep(c) : d = [u EXCEPT !.halted = TRUE]
  <2>1. PICK u \in Ustep(c) : d = [u EXCEPT !.halted = TRUE]
    BY <1>5
  <2>2. Good(u) /\ Alike(u, c)
    BY UstepFacts
  <2>3. Good(d) /\ Alike(d, u)
    BY <2>1, <2>2, HaltedFacts
  <2> QED BY <2>2, <2>3 DEF Alike
<1>6. CASE k = KEY_BOOT /\ d = [c EXCEPT !.boot = TRUE]
  BY <1>1, <1>6 DEF Good, PanelRecord, Walks
<1> QED BY <1>2, <1>3, <1>4, <1>5, <1>6

\* A key with CNTRL.
LEMMA CntrlFacts ==
  ASSUME NEW c, Good(c), NEW k \in CntrlKeys, NEW d \in CntrlKey(c, k)
  PROVE  /\ Good(d) /\ (k # KEY_BOOT => d.boot = c.boot)
         /\ k \notin {KEY_START, KEY_INIT} => d.init = c.init
<1>1. c \in PanelRecord /\ c.tmp \in Int /\ c.addr \in Int /\ c.sr \in Int
  BY DEF Good, PanelRecord, Addresses, WordsOf16
<1>2. \/ d \in CntrlHaltSs(c) \/ d = [c EXCEPT !.halted = FALSE]
      \/ k = KEY_START /\ d \in CntrlStart(c)
      \/ k = KEY_BOOT /\ d \in CntrlBoot(c)
      \/ k = KEY_INIT /\ d \in CntrlInit(c)
      \/ d \in Cntrl7(c) \/ d \in Cntrl6(c) \/ d \in Cntrl1(c)
  BY DEF CntrlKeys, CntrlKey, CntrlCont
<1>3. CASE k = KEY_START /\ d \in CntrlStart(c)
  <2>1. c.addr % WordSize \in WordsOf16
    BY <1>1, Widths
  <2> DEFINE n == c.addr % WordSize
  <2>2. d = c \/ d = [c EXCEPT !.pc = n, !.init = TRUE, !.halted = FALSE]
    BY <1>3 DEF CntrlStart
  <2> HIDE DEF n
  <2>3. d \in PanelRecord
    BY <1>1, <2>1, <2>2 DEF PanelRecord, n
  <2>4. Walks(d) /\ d.boot = c.boot
    BY <1>1, <2>2 DEF Good, PanelRecord, Walks
  <2> QED BY <1>3, <2>3, <2>4 DEF Good, KEY_START, KEY_BOOT
<1>4. CASE k = KEY_BOOT /\ d \in CntrlBoot(c)
  BY <1>1, <1>4 DEF CntrlBoot, Good, PanelRecord, Walks
<1>5. CASE k = KEY_INIT /\ d \in CntrlInit(c)
  BY <1>1, <1>5 DEF CntrlInit, Good, PanelRecord, Walks
<1>6. CASE d \in Cntrl7(c) \/ d \in Cntrl6(c)
  <2>1. PICK n \in Int : d = [c EXCEPT !.tmp = n % BusSize]
    <3>1. d \in Cntrl7(c) => d = [c EXCEPT !.tmp = (c.addr + c.tmp + 2) % BusSize]
      BY DEF Cntrl7
    <3>2. d \in Cntrl6(c) => d = [c EXCEPT !.tmp = (c.tmp + c.sr) % BusSize]
      BY DEF Cntrl6
    <3>3. c.addr + c.tmp + 2 \in Int /\ c.tmp + c.sr \in Int
      BY <1>1
    <3> QED BY <1>6, <3>1, <3>2, <3>3
  <2> DEFINE x == n % BusSize
  <2>2. x \in Addresses /\ d = [c EXCEPT !.tmp = x]
    BY <2>1, Widths
  <2> HIDE DEF x
  <2> QED BY <1>1, <2>2 DEF Good, PanelRecord, Walks
<1>7. CASE d \in Cntrl1(c)
  BY <1>1, <1>7 DEF Cntrl1, Good, PanelRecord, Walks
<1>8. CASE d \in CntrlHaltSs(c)
  BY <1>8, HaltSsFacts DEF Alike
<1>9. CASE d = [c EXCEPT !.halted = FALSE]
  BY <1>9, HaltedFacts DEF Alike
<1> QED BY <1>2, <1>3, <1>4, <1>5, <1>6, <1>7, <1>8, <1>9

\* console_key: the registers and the walk are kept by every key in every mode;
\* BOOT alone asks for a boot, START and INIT for INIT.
LEMMA KeyFacts ==
  ASSUME NEW c, Good(c), NEW k \in Keys, NEW d \in Key(c, k)
  PROVE  /\ Good(d) /\ (k # KEY_BOOT => d.boot = c.boot)
         /\ k \notin {KEY_START, KEY_INIT} => d.init = c.init
<1> DEFINE r == [c EXCEPT !.cntrl = FALSE]
           t == [c EXCEPT !.cntrl = ~@]
<1>1. Good(r) /\ Alike(r, c) /\ Good(t) /\ Alike(t, c)
  BY DEF Good, PanelRecord, Walks, Alike
<1>2. \/ d = t
      \/ k \in CntrlKeys /\ d \in CntrlKey(r, k)
      \/ d \in MaintKey(r, k) \/ d \in PlainKey(r, k)
  BY DEF Key
<1> HIDE DEF r, t
<1> QED BY <1>1, <1>2, CntrlFacts, MaintFacts, PlainFacts DEF Alike

-----------------------------------------------------------------------------
(* What the main loops make of the keys *)

\* EXAM and CNTRL are keys that ask for nothing.
LEMMA ExamKeyFacts ==
  ASSUME NEW c, Good(c), NEW k \in {KEY_EXAM, KEY_CNTRL}, NEW d \in Key(c, k)
  PROVE  Good(d) /\ Alike(d, c)
<1>1. k \in Keys /\ k \notin {KEY_START, KEY_INIT, KEY_BOOT}
  BY DEF Keys, KEY_EXAM, KEY_CNTRL, KEY_START, KEY_INIT, KEY_BOOT
<1> QED BY <1>1, KeyFacts DEF Alike

\* enter_console_mode.
LEMMA EnterConsoleFacts ==
  ASSUME NEW c, Good(c), NEW d \in EnterConsole(c)
  PROVE  Good(d) /\ Alike(d, c)
<1>1. c.pc \in Addresses
  BY Widths DEF Good, PanelRecord
<1>2. Good(SetAddr(c, c.pc)) /\ Alike(SetAddr(c, c.pc), c)
  BY <1>1, SetAddrFacts
<1>3. Good(d) /\ Alike(d, SetAddr(c, c.pc))
  BY <1>2, ExamKeyFacts DEF EnterConsole
<1> QED BY <1>2, <1>3 DEF Alike

\* console_poll: one press asks for a boot or for INIT, never for both.
LEMMA CliKeyFacts ==
  ASSUME NEW c, Good(c), Calm(c), NEW k \in CliKeys, NEW d \in CliKey(c, k)
  PROVE  Good(d) /\ ~(d.boot /\ d.init)
<1>1. k \in Keys
  BY DEF Keys, CliKeys, KEY_HALT_SS, KEY_CONT, KEY_BOOT, KEY_START, KEY_DEP, KEY_EXAM, KEY_INIT,
         KEY_CLR, KEY_DIS_AD, KEY_LAD
<1> DEFINE pressed == IF k \in {KEY_CONT, KEY_START, KEY_BOOT, KEY_INIT}
                      THEN Then(Key(c, KEY_CNTRL), LAMBDA e : Key(e, k)) ELSE Key(c, k)
<1>2. PICK e \in pressed : d = e \/ d \in EnterConsole(e) \/ d \in Key(e, KEY_EXAM)
  BY DEF CliKey, Then
<1>3. PICK f : Good(f) /\ Calm(f) /\ e \in Key(f, k)
  <2>1. CASE k \in {KEY_CONT, KEY_START, KEY_BOOT, KEY_INIT}
    <3>1. PICK f \in Key(c, KEY_CNTRL) : e \in Key(f, k)
      BY <2>1 DEF Then
    <3>2. Good(f) /\ Alike(f, c)
      BY <3>1, ExamKeyFacts
    <3> QED BY <3>1, <3>2 DEF Alike, Calm
  <2>2. CASE k \notin {KEY_CONT, KEY_START, KEY_BOOT, KEY_INIT}
    BY <2>2
  <2> QED BY <2>1, <2>2
<1>4. Good(e) /\ ~(e.boot /\ e.init)
  <2>1. Good(e) /\ (k # KEY_BOOT => e.boot = f.boot)
    BY <1>1, <1>3, KeyFacts
  <2>2. k \notin {KEY_START, KEY_INIT} => e.init = f.init
    BY <1>1, <1>3, KeyFacts
  <2>3. KEY_BOOT \notin {KEY_START, KEY_INIT}
    BY DEF KEY_START, KEY_INIT, KEY_BOOT
  <2> QED BY <1>3, <2>1, <2>2, <2>3 DEF Calm
<1>5. Good(d) /\ (d = e \/ Alike(d, e))
  <2> HIDE DEF pressed
  <2> QED BY <1>2, <1>4, EnterConsoleFacts, ExamKeyFacts
<1> QED BY <1>4, <1>5 DEF Alike

\* The end of a turn of the main loop leaves no request.
LEMMA CliRequestsFacts ==
  ASSUME NEW c, Good(c), ~(c.boot /\ c.init), NEW d \in CliRequests(c)
  PROVE  Good(d) /\ Calm(d)
<1>1. CASE c.boot
  <2> DEFINE e == [c EXCEPT !.boot = FALSE]
  <2>1. Good(e) /\ Calm(e)
    BY <1>1 DEF Good, PanelRecord, Walks, Calm
  <2>2. d \in PowerOn(e)
    BY <1>1 DEF CliRequests
  <2> HIDE DEF e
  <2> QED BY <2>1, <2>2, PowerOnFacts DEF Calm, Alike
<1>2. CASE ~c.boot
  BY <1>2, InitDoneFacts DEF CliRequests, Calm
<1> QED BY <1>1, <1>2

\* The page's frame leaves none either.
LEMMA WebRequestsFacts ==
  ASSUME NEW c, Good(c), NEW d \in WebRequests(c)
  PROVE  Good(d) /\ Calm(d) /\ (~c.boot => d.halted = c.halted)
<1> DEFINE booted == IF c.boot THEN PowerOn([c EXCEPT !.boot = FALSE]) ELSE {c}
<1>1. PICK e \in booted : d = InitDone(e)
  BY DEF WebRequests, Then
<1>2. Good(e) /\ ~e.boot /\ (~c.boot => e = c)
  <2>1. CASE c.boot
    <3> DEFINE f == [c EXCEPT !.boot = FALSE]
    <3>1. Good(f) /\ ~f.boot
      BY <2>1 DEF Good, PanelRecord, Walks
    <3>2. e \in PowerOn(f)
      BY <1>1, <2>1
    <3> HIDE DEF f
    <3> QED BY <2>1, <3>1, <3>2, PowerOnFacts DEF Alike
  <2>2. CASE ~c.boot
    BY <2>2
  <2> QED BY <2>1, <2>2
<1> HIDE DEF booted
<1> QED BY <1>1, <1>2, InitDoneFacts DEF Calm

\* Every way to start the machine leaves a panel in order and no request.
LEMMA PanelsFacts ==
  /\ \A c \in Panel : Good(c) /\ Calm(c) /\ c.halted
  /\ \A c \in CliPanels : Good(c) /\ Calm(c)
<1>1. ASSUME NEW c \in Panel PROVE Good(c) /\ Calm(c) /\ c.halted
  <2> DEFINE z(a) ==
        [tmp |-> 0, addr |-> 0, exam |-> FALSE, dep |-> FALSE, sr |-> 0, maint |-> FALSE,
         cntrl |-> FALSE, run |-> FALSE, boot |-> FALSE, init |-> FALSE, due |-> DueAt(0),
         strayed |-> FALSE, halted |-> TRUE, mid |-> FALSE, pc |-> a]
  <2>1. PICK a \in Program : c = Cleared(z(a))
    BY DEF Panel
  <2>2. Good(z(a)) /\ z(a).halted
    <3>1. z(a) \in PanelRecord
      BY Widths DEF PanelRecord, DueAt
    <3>2. Walks(z(a))
      BY DEF Walks, Moved, DueAt
    <3> QED BY <3>1, <3>2 DEF Good
  <2> HIDE DEF z
  <2> QED BY <2>1, <2>2, ClearedFacts
<1>2. ASSUME NEW c \in CliPanels PROVE Good(c) /\ Calm(c)
  <2> DEFINE fromStart(e) == {InitDone(d) : d \in Then(Key(SetAddr(e, e.pc), KEY_CNTRL),
                                                       LAMBDA f : Key(f, KEY_START))}
  <2>1. PICK e \in Panel : c \in PowerOn(e) \/ c \in EnterConsole(e) \/ c \in fromStart(e)
    BY DEF CliPanels, Then
  <2>2. Good(e) /\ Calm(e)
    BY <1>1
  <2>3. CASE c \in PowerOn(e)
    BY <2>2, <2>3, PowerOnFacts DEF Alike, Calm
  <2>4. CASE c \in EnterConsole(e)
    BY <2>2, <2>4, EnterConsoleFacts DEF Alike, Calm
  <2>5. CASE c \in fromStart(e)
    <3>1. PICK f, d : f \in Key(SetAddr(e, e.pc), KEY_CNTRL) /\ d \in Key(f, KEY_START)
                      /\ c = InitDone(d)
      BY <2>5 DEF Then
    <3>2. e.pc \in Addresses
      BY <2>2, Widths DEF Good, PanelRecord
    <3>3. Good(SetAddr(e, e.pc)) /\ Alike(SetAddr(e, e.pc), e)
      BY <2>2, <3>2, SetAddrFacts
    <3>4. Good(f) /\ Alike(f, SetAddr(e, e.pc))
      BY <3>1, <3>3, ExamKeyFacts
    <3>5. KEY_START \in Keys /\ KEY_START # KEY_BOOT
      BY DEF Keys, KEY_START, KEY_BOOT
    <3>6. Good(d) /\ d.boot = f.boot
      BY <3>1, <3>4, <3>5, KeyFacts
    <3> QED BY <2>2, <3>1, <3>3, <3>4, <3>6, InitDoneFacts DEF Alike, Calm
  <2> QED BY <2>1, <2>3, <2>4, <2>5
<1> QED BY <1>1, <1>2

-----------------------------------------------------------------------------
(* The invariant *)

\* Where the thread may be, and where a debugger it is in goes back to.
PlaceOK ==
  /\ at \in WebPlaces \cup {"loop", "run", "halt?", "debug?", "probe?", "end", "debug", "step"}
  /\ opener \in {"none", "loop", "probe?", "end"}
  /\ at \in {"debug", "step"} => opener # "none"

TypedOK == stdin \in Seq(Characters) /\ Len(stdin) <= TypedAhead /\ asked \subseteq OperatorKeys

\* Requests are pending nowhere but between frames of the page.
RequestsServed == at # "frame" => Calm(con)

\* A machine that is off is halted and has no boot to come; it is never in a
\* slice.
OffIsHalted == at \in WebPlaces /\ ~powered => at = "frame" /\ con.halted /\ ~con.boot

Told ==
  /\ pending \in BOOLEAN /\ spontaneous \in BOOLEAN /\ missed \in BOOLEAN
  /\ spontaneous => stopped = "halt" \/ missed
  /\ stopped = "halt" => pending /\ spontaneous
  /\ stopped = "none" <=> ~pending

FInv == Good(con) /\ PlaceOK /\ TypedOK /\ RequestsServed /\ OffIsHalted /\ Told

\* The polls of the terminal take characters out of stdin and make requests of
\* operator keys.
LEMMA PollFacts ==
  ASSUME NEW in \in Seq(Characters), NEW pushed, NEW keys \in SUBSET OperatorKeys,
         Len(in) <= TypedAhead, TerminalPoll(in, pushed, keys)
  PROVE  stdin' \in Seq(Characters) /\ Len(stdin') <= TypedAhead /\ asked' \subseteq OperatorKeys
<1>1. in # <<>> => /\ Head(in) \in Characters /\ Tail(in) \in Seq(Characters)
                   /\ Len(Tail(in)) = Len(in) - 1 /\ Len(in) \in Nat /\ TypedAhead \in Nat
  BY TypedAheadAssumption
<1> DEFINE ready == ~rx /\ (pushed \/ in # <<>>)
           ch    == IF pushed THEN "other" ELSE Head(in)
<1>2. stdin' = IF ready /\ ~pushed THEN Tail(in) ELSE in
  BY DEF TerminalPoll
<1>3. asked' = IF ready /\ ch # "other" THEN keys \cup {ch} ELSE keys
  BY DEF TerminalPoll
<1>4. ready /\ ~pushed => in # <<>>
  OBVIOUS
<1>5. ready /\ ch # "other" => ch \in OperatorKeys
  BY <1>1 DEF Characters
<1> HIDE DEF ready, ch
<1>6. asked' \subseteq OperatorKeys
  BY <1>3, <1>5
<1>7. CASE ready /\ ~pushed
  BY <1>1, <1>2, <1>4, <1>6, <1>7
<1>8. CASE ~(ready /\ ~pushed)
  BY <1>2, <1>6, <1>8
<1> QED BY <1>7, <1>8

\* The command line's steps take characters and serve requests, and no others.
LEMMA CliTyped ==
  ASSUME FInv, CliNext
  PROVE  TypedOK'
<1>1. /\ stdin \in Seq(Characters) /\ Len(stdin) <= TypedAhead /\ asked \subseteq OperatorKeys
      /\ stdin # <<>> => /\ Head(stdin) \in Characters /\ Tail(stdin) \in Seq(Characters)
                         /\ Len(Tail(stdin)) <= TypedAhead
  <2>1. stdin \in Seq(Characters) /\ Len(stdin) <= TypedAhead /\ asked \subseteq OperatorKeys
    BY DEF FInv, TypedOK
  <2>2. stdin # <<>> => Len(Tail(stdin)) = Len(stdin) - 1 /\ Len(stdin) \in Nat
    BY <2>1
  <2> QED BY <2>1, <2>2, TypedAheadAssumption
<1>2. CASE HostTick
  <2> DEFINE ch   == Head(stdin)
             keys == IF HostPolls /\ ch # "other" THEN {ch} ELSE asked
             in   == IF HostPolls THEN Tail(stdin) ELSE stdin
             pushed == push \/ (HostPolls /\ ch = "other")
  <2>1. TerminalPoll(in, pushed, keys)
    BY <1>2 DEF HostTick
  <2>2. in \in Seq(Characters) /\ Len(in) <= TypedAhead
    BY <1>1 DEF HostPolls
  <2>3. keys \subseteq OperatorKeys
    BY <1>1 DEF HostPolls, Characters
  <2> HIDE DEF in, pushed, keys
  <2> QED BY <2>1, <2>2, <2>3, PollFacts DEF TypedOK
<1>3. CASE ProgramPolls
  BY <1>1, <1>3, PollFacts DEF ProgramPolls, TypedOK
<1>4. CASE PanelTurn
  <2>1. stdin' = (IF stdin = <<>> THEN stdin ELSE Tail(stdin)) /\ asked' = asked
    BY <1>4 DEF PanelTurn
  <2> QED BY <1>1, <2>1 DEF TypedOK
<1>5. CASE Type
  <2>1. PICK ch \in Characters : stdin' = Append(stdin, ch)
    BY <1>5 DEF Type
  <2>2. Len(stdin) < TypedAhead /\ asked' = asked
    BY <1>5 DEF Type
  <2> QED BY <1>1, <2>1, <2>2, TypedAheadAssumption DEF TypedOK
<1>6. CASE ServeHalt \/ ServeDebug \/ ServeProbe
  BY <1>1, <1>6 DEF ServeHalt, ServeDebug, ServeProbe, Serve, io, TypedOK
<1>7. CASE StartRun \/ MicroStep \/ StopHalt \/ StopBreak \/ StopHost \/ StopBudget \/ SliceEnds
  BY <1>1, <1>7 DEF StartRun, MicroStep, StopHalt, StopBreak, StopHost, StopBudget, SliceEnds, io, TypedOK
<1>8. CASE ProgramReads
  BY <1>1, <1>8 DEF ProgramReads, TypedOK
<1>9. CASE DebugGo \/ DebugQuit \/ DebugLeave \/ DebugStep \/ DebugUstep
  BY <1>1, <1>9 DEF DebugGo, DebugQuit, DebugLeave, DebugStep, DebugUstep, Close, io, TypedOK
<1> QED BY <1>2, <1>3, <1>4, <1>5, <1>6, <1>7, <1>8, <1>9 DEF CliNext, CliThread

\* The command line's thread stays in its places.
LEMMA CliPlace ==
  ASSUME FInv, at \notin WebPlaces, CliNext
  PROVE  PlaceOK' /\ at' \notin WebPlaces
<1>1. /\ at \in {"loop", "run", "halt?", "debug?", "probe?", "end", "debug", "step"}
      /\ opener \in {"none", "loop", "probe?", "end"}
      /\ at \in {"debug", "step"} => opener # "none"
  BY DEF FInv, PlaceOK
<1>2. CASE StartRun \/ MicroStep \/ StopHalt \/ SliceEnds
  BY <1>1, <1>2 DEF StartRun, MicroStep, StopHalt, SliceEnds, PlaceOK, WebPlaces
<1>3. CASE StopBreak \/ StopHost \/ StopBudget
  BY <1>1, <1>3 DEF StopBreak, StopHost, StopBudget, Back, Running, PlaceOK, WebPlaces
<1>4. CASE HostTick \/ ProgramPolls \/ ProgramReads \/ Type
  BY <1>1, <1>4 DEF HostTick, ProgramPolls, ProgramReads, Type, PlaceOK, WebPlaces
<1>5. CASE ServeHalt \/ ServeDebug \/ ServeProbe
  BY <1>1, <1>5 DEF ServeHalt, ServeDebug, ServeProbe, Serve, PlaceOK, WebPlaces
<1>6. CASE DebugGo \/ DebugQuit \/ DebugLeave
  BY <1>1, <1>6 DEF DebugGo, DebugQuit, DebugLeave, Close, PlaceOK, WebPlaces
<1>7. CASE DebugStep \/ DebugUstep
  BY <1>1, <1>7 DEF DebugStep, DebugUstep, PlaceOK, WebPlaces
<1>8. CASE PanelTurn
  BY <1>1, <1>8 DEF PanelTurn, PlaceOK, WebPlaces
<1> QED BY <1>2, <1>3, <1>4, <1>5, <1>6, <1>7, <1>8 DEF CliNext, CliThread

\* Its steps keep the panel in order and leave no request pending.
LEMMA CliPanel ==
  ASSUME FInv, at \notin WebPlaces, CliNext
  PROVE  Good(con') /\ Calm(con')
<1>1. Good(con) /\ Calm(con)
  BY DEF FInv, RequestsServed, WebPlaces
<1>2. \A c : Good(c) /\ Alike(c, con) => Good(c) /\ Calm(c)
  BY <1>1 DEF Alike, Calm
<1>3. \A c \in Ustep(con) : Good(c) /\ Alike(c, con)
  BY <1>1, UstepFacts
<1>4. \A c, h : /\ Good(c) /\ Alike(c, con) /\ h \in BOOLEAN
                => Good([c EXCEPT !.halted = h]) /\ Alike([c EXCEPT !.halted = h], con)
  BY HaltedFacts DEF Alike
<1>5. \A c, d : /\ Good(c) /\ Alike(c, con) /\ d \in EnterConsole(c)
                => Good(d) /\ Alike(d, con)
  BY EnterConsoleFacts DEF Alike
<1>6. Good(con) /\ Alike(con, con)
  BY <1>1 DEF Alike
<1>7. CASE StartRun \/ ProgramPolls \/ ProgramReads \/ SliceEnds \/ Type
  BY <1>1, <1>7 DEF StartRun, ProgramPolls, ProgramReads, SliceEnds, Type
<1>8. CASE MicroStep
  BY <1>2, <1>3, <1>8 DEF MicroStep
<1>9. CASE StopHalt
  BY <1>2, <1>3, <1>5, <1>9 DEF StopHalt
<1>10. CASE StopBreak
  <2>1. PICK c \in Ustep(con) : con' = [c EXCEPT !.halted = TRUE]
                                \/ con' = [[c EXCEPT !.halted = TRUE] EXCEPT !.halted = TRUE]
    BY <1>10 DEF StopBreak, Back
  <2> QED BY <1>2, <1>3, <1>4, <2>1
<1>11. CASE StopHost
  <2>1. PICK c \in Ustep(con) \cup {con} : con' = c \/ con' = [c EXCEPT !.halted = TRUE]
    BY <1>11 DEF StopHost, Back
  <2> QED BY <1>2, <1>3, <1>4, <1>6, <2>1
<1>12. CASE StopBudget
  BY <1>2, <1>4, <1>6, <1>12 DEF StopBudget, Back
<1>13. CASE HostTick
  <2>1. con' = ConsoleTick(con)
    BY <1>13 DEF HostTick
  <2> QED BY <1>1, <1>2, <2>1, TickFacts
<1>14. CASE ServeHalt
  BY <1>2, <1>4, <1>5, <1>6, <1>14 DEF ServeHalt
<1>15. CASE ServeDebug \/ ServeProbe
  BY <1>2, <1>4, <1>6, <1>15 DEF ServeDebug, ServeProbe, Serve
<1>16. CASE DebugGo \/ DebugQuit \/ DebugLeave
  <2>1. PICK c : /\ c = con \/ \E h \in BOOLEAN : c = [con EXCEPT !.halted = h]
                 /\ con' \in EnterConsole(c) \/ con' = c
    <3>1. DebugGo => Close([con EXCEPT !.halted = FALSE])
      BY DEF DebugGo
    <3>2. DebugQuit => Close([con EXCEPT !.halted = ~Resumes])
      BY DEF DebugQuit
    <3>3. DebugLeave => Close(con)
      BY DEF DebugLeave
    <3>4. (~Resumes) \in BOOLEAN
      BY DEF Resumes
    <3> QED BY <1>16, <3>1, <3>2, <3>3, <3>4 DEF Close
  <2> QED BY <1>2, <1>4, <1>5, <1>6, <2>1
<1>17. CASE DebugStep \/ DebugUstep
  BY <1>2, <1>3, <1>4, <1>6, <1>17 DEF DebugStep, DebugUstep
<1>18. CASE PanelTurn
  <2> DEFINE c == ConsoleTick(con)
  <2>1. Good(c) /\ Calm(c)
    BY <1>1, <1>2, TickFacts
  <2>2. \/ con' = c
        \/ con' \in CliRequests(c)
        \/ \E k \in CliKeys : \E d \in CliKey(c, k) : con' \in CliRequests(d)
    BY <1>18 DEF PanelTurn, Then
  <2> HIDE DEF c
  <2>3. CASE con' = c
    BY <2>1, <2>3
  <2>4. CASE con' \in CliRequests(c)
    BY <2>1, <2>4, CliRequestsFacts DEF Calm
  <2>5. CASE \E k \in CliKeys : \E d \in CliKey(c, k) : con' \in CliRequests(d)
    <3>1. PICK k \in CliKeys : \E d \in CliKey(c, k) : con' \in CliRequests(d)
      BY <2>5
    <3> PICK d \in CliKey(c, k) : con' \in CliRequests(d)
      BY <3>1
    <3>2. Good(d) /\ ~(d.boot /\ d.init)
      BY <2>1, CliKeyFacts
    <3> QED BY <3>2, CliRequestsFacts
  <2> QED BY <2>2, <2>3, <2>4, <2>5
<1> QED BY <1>7, <1>8, <1>9, <1>10, <1>11, <1>12, <1>13, <1>14, <1>15, <1>16, <1>17, <1>18
        DEF CliNext, CliThread

\* What the page's calls and frames leave of the panel.  Requests are pending
\* between frames alone, and a machine that is off has none.
LEMMA WebPanel ==
  ASSUME FInv, at \in WebPlaces, WebNext
  PROVE  Good(con') /\ RequestsServed' /\ OffIsHalted' /\ at' \in WebPlaces
<1>1. Good(con) /\ at \in {"frame", "slice"} /\ (at = "slice" => Calm(con) /\ powered)
      /\ (~powered => at = "frame" /\ con.halted /\ ~con.boot)
  BY DEF FInv, RequestsServed, OffIsHalted, WebPlaces
<1>2. \A c \in Ustep(con) : Good(c) /\ Alike(c, con)
  BY <1>1, UstepFacts
<1>3. CASE Frame
  <2>1. PICK c \in WebRequests(ConsoleTick(con)) :
          con' = c /\ at' = IF c.halted THEN "frame" ELSE "slice"
    BY <1>3 DEF Frame
  <2>2. Good(ConsoleTick(con)) /\ Alike(ConsoleTick(con), con) /\ ConsoleTick(con).halted = con.halted
    BY <1>1, TickFacts
  <2>3. Good(c) /\ Calm(c) /\ (~con.boot => c.halted = con.halted)
    BY <2>2, WebRequestsFacts DEF Alike
  <2>4. powered' = powered
    BY <1>3 DEF Frame
  <2> QED BY <1>1, <2>1, <2>3, <2>4 DEF RequestsServed, OffIsHalted, WebPlaces, Calm
<1>4. CASE SliceBudget \/ SliceHalt
  <2>1. at' = "frame" /\ con' \in Ustep(con) /\ powered' = powered /\ powered
    BY <1>1, <1>4 DEF SliceBudget, SliceHalt, webvars
  <2> QED BY <1>2, <2>1 DEF RequestsServed, OffIsHalted, WebPlaces
<1>5. CASE SliceStops
  <2>1. PICK c \in Ustep(con) : con' = [c EXCEPT !.halted = TRUE]
    BY <1>5 DEF SliceStops
  <2>2. Good(con')
    BY <1>2, <2>1, HaltedFacts
  <2>3. at' = "frame" /\ powered' = powered /\ powered
    BY <1>1, <1>5 DEF SliceStops
  <2> QED BY <2>2, <2>3 DEF RequestsServed, OffIsHalted, WebPlaces
<1>6. CASE WebPowerOn
  <2>1. con' \in PowerOn(Cleared(con)) /\ at' = "frame" /\ powered'
    BY <1>6 DEF WebPowerOn, Start, Calls
  <2>2. Good(Cleared(con))
    BY <1>1, ClearedFacts
  <2> QED BY <2>1, <2>2, PowerOnFacts DEF RequestsServed, OffIsHalted, WebPlaces
<1>7. CASE WebReset
  <2>1. con' \in PowerOn(con) /\ at' = "frame" /\ powered'
    BY <1>7 DEF WebReset, Start, Calls
  <2> QED BY <1>1, <2>1, PowerOnFacts DEF RequestsServed, OffIsHalted, WebPlaces
<1>8. CASE WebPowerOff
  <2> DEFINE c == [con EXCEPT !.halted = TRUE]
  <2>1. con' = Cleared(c) /\ at' = "frame"
    BY <1>8 DEF WebPowerOff, Calls
  <2>2. Good(c) /\ c.halted
    BY <1>1, HaltedFacts
  <2> HIDE DEF c
  <2> QED BY <2>1, <2>2, ClearedFacts DEF RequestsServed, OffIsHalted, WebPlaces, Calm
<1>9. CASE WebKey
  <2>1. PICK k \in Keys : con' \in Key(con, k)
    BY <1>9 DEF WebKey, Keys
  <2>2. at' = "frame" /\ powered'
    BY <1>9 DEF WebKey, Calls, webvars
  <2> QED BY <1>1, <2>1, <2>2, KeyFacts DEF RequestsServed, OffIsHalted, WebPlaces
<1>10. CASE WebHalt \/ WebRun
  <2>1. PICK h \in BOOLEAN : con' = [con EXCEPT !.halted = h]
    BY <1>10 DEF WebHalt, WebRun
  <2>2. at' = "frame" /\ powered'
    BY <1>10 DEF WebHalt, WebRun, Calls
  <2> QED BY <1>1, <2>1, <2>2, HaltedFacts DEF RequestsServed, OffIsHalted, WebPlaces
<1>11. CASE WebPoll
  <2>1. con' = con /\ at' = "frame" /\ powered'
    BY <1>11 DEF WebPoll, Calls
  <2> QED BY <1>1, <2>1 DEF RequestsServed, OffIsHalted, WebPlaces
<1> QED BY <1>3, <1>4, <1>5, <1>6, <1>7, <1>8, <1>9, <1>10, <1>11 DEF WebNext

\* The halt flag and its cause are set together and told once.
LEMMA WebTold == Told /\ WebNext => Told'
<1> SUFFICES ASSUME Told, WebNext PROVE Told'
  OBVIOUS
<1>1. CASE Frame \/ SliceBudget \/ WebKey
  BY <1>1 DEF Frame, SliceBudget, WebKey, webvars, Told
<1>2. CASE SliceHalt
  BY <1>2 DEF SliceHalt, Told
<1>3. CASE SliceStops
  BY <1>3 DEF SliceStops, Told
<1>4. CASE WebPowerOn \/ WebReset \/ WebPowerOff \/ WebRun
  <2>1. Unnoticed
    BY <1>4 DEF WebPowerOn, WebReset, WebPowerOff, WebRun, Start
  <2> QED BY <2>1 DEF Unnoticed, Told
<1>5. CASE WebHalt
  BY <1>5 DEF WebHalt, Told
<1>6. CASE WebPoll
  BY <1>6 DEF WebPoll, Told
<1> QED BY <1>1, <1>2, <1>3, <1>4, <1>5, <1>6 DEF WebNext

\* The machine starts with a panel in order, halted or about to run.
LEMMA FInvInitially == FrontInit => FInv
<1> SUFFICES ASSUME FrontInit PROVE FInv
  OBVIOUS
<1>1. PlaceOK
  BY DEF FrontInit, CliInit, WebInit, PlaceOK, WebPlaces
<1>2. TypedOK
  <2>1. <<>> \in Seq(Characters) /\ Len(<<>>) = 0
    OBVIOUS
  <2> QED BY <2>1, TypedAheadAssumption DEF FrontInit, CliInit, TypedOK
<1>3. Told
  BY DEF FrontInit, WebInit, Told
<1>4. Good(con) /\ RequestsServed /\ OffIsHalted
  BY PanelsFacts DEF FrontInit, WebInit, RequestsServed, OffIsHalted, WebPlaces, Calm
<1> QED BY <1>1, <1>2, <1>3, <1>4 DEF FInv

\* Every step of either front end keeps the invariant.
LEMMA FInvInductive == FInv /\ [FrontNext]_frontvars => FInv'
<1> SUFFICES ASSUME FInv, [FrontNext]_frontvars PROVE FInv'
  OBVIOUS
<1>1. CASE at \notin WebPlaces /\ CliNext /\ UNCHANGED webvars
  <2>1. Told'
    BY <1>1 DEF FInv, Told, webvars
  <2>2. Good(con') /\ Calm(con') /\ PlaceOK' /\ at' \notin WebPlaces /\ TypedOK'
    BY <1>1, CliPanel, CliPlace, CliTyped
  <2> QED BY <2>1, <2>2 DEF FInv, RequestsServed, OffIsHalted
<1>2. CASE at \in WebPlaces /\ WebNext /\ UNCHANGED clivars
  <2>1. Told'
    BY <1>2, WebTold DEF FInv
  <2>2. Good(con') /\ RequestsServed' /\ OffIsHalted' /\ at' \in WebPlaces
    BY <1>2, WebPanel
  <2>3. PlaceOK' /\ TypedOK'
    BY <1>2, <2>2 DEF FInv, PlaceOK, TypedOK, clivars, io, WebPlaces
  <2> QED BY <2>1, <2>2, <2>3 DEF FInv
<1>3. CASE UNCHANGED frontvars
  BY <1>3 DEF frontvars, panelvars, clivars, webvars, io, FInv, PlaceOK, TypedOK, RequestsServed,
              OffIsHalted, Told
<1> QED BY <1>1, <1>2, <1>3 DEF FrontNext

\* The invariant holds in every reachable state.
LEMMA FInvAlways == FrontSpec => []FInv
  BY FInvInitially, FInvInductive, PTL DEF FrontSpec

-----------------------------------------------------------------------------
\* The console's registers keep their widths through every key and every step
\* of the CPU, and neither front end loses its place, although the debugger is
\* opened from four of them.
THEOREM TypeCorrect == FrontSpec => []FrontTypeOK
<1>1. FInv => FrontTypeOK
  <2> SUFFICES ASSUME FInv PROVE FrontTypeOK
    OBVIOUS
  <2>1. PanelOK
    BY DEF FInv, Good, PanelRecord, PanelOK, Addresses, WordsOf16
  <2> QED BY <2>1 DEF FInv, PlaceOK, TypedOK, FrontTypeOK
<1> QED BY <1>1, FInvAlways, PTL

\* Outside the range of the registers, and until one of the known departures, the
\* pointer and its flags lead the next EXAM and the next DEP to the words that
\* the manual's own walk owes them, worked out from the words of the keys before:
\* whatever digits, keys, steps, resets and stops came in between.
THEOREM Walk == FrontSpec => []WalksAsPromised
<1>1. FInv => WalksAsPromised
  <2> SUFFICES ASSUME Good(con), ~con.strayed, ~ByOne(con.addr)
               PROVE  con.due = [exam |-> Moved(con, con.exam), dep |-> Moved(con, con.dep)]
    BY DEF FInv, WalksAsPromised
  <2>1. con.exam \in BOOLEAN /\ con.dep \in BOOLEAN
    BY DEF Good, PanelRecord
  <2>2. /\ Moved(con, con.exam) = IF con.exam THEN NextWord(con.addr) ELSE con.addr
        /\ Moved(con, con.dep) = IF con.dep THEN NextWord(con.addr) ELSE con.addr
    BY <2>1, WordFacts
  <2> QED BY <2>2 DEF Good, Walks
<1> QED BY <1>1, FInvAlways, PTL

\* No CPU runs with an INIT or a boot still to be done.
THEOREM InitFirst == FrontSpec => []InitBeforeRun
<1>1. FInv => InitBeforeRun
  BY DEF FInv, RequestsServed, Calm, InitBeforeRun
<1> QED BY <1>1, FInvAlways, PTL

\* Nothing of the console starts a machine that is switched off.
THEOREM Off == FrontSpec => []OffStaysOff
<1>1. FInv => OffStaysOff
  BY DEF FInv, OffIsHalted, OffStaysOff
<1> QED BY <1>1, FInvAlways, PTL

\* The page hears of every stop, of a HALT as one, and of a stop it ordered as
\* that unless a HALT went by that it was not told of.
THEOREM StopsTold == FrontSpec => []HaltsTold
<1>1. FInv => HaltsTold
  BY DEF FInv, Told, HaltsTold, PollReason
<1> QED BY <1>1, FInvAlways, PTL
=============================================================================
