-------------------------------- MODULE Rl11 --------------------------------
(***************************************************************************)
(* The RL11 disk controller (rl11/rl11.c).  A command runs to its end      *)
(* inside the write of RLCS that starts it, and each of its loops ends, so *)
(* a command is one step.  Words have no value: a drive is the length of   *)
(* its image, memory is the addresses that answer, and a write check finds *)
(* its first difference at any word or at none.  Bus addresses count words.*)
(***************************************************************************)
EXTENDS Integers, FiniteSetsExt

CONSTANTS RlWords,      \* RL_NUMWD, words of a sector
          RlSectors,    \* RL_NUMSC, sectors of a track
          RlSmall,      \* RL01_NUMCY
          RlBig,        \* RL02_NUMCY
          RlDiskCodes,  \* the values of RLDA programs write
          RlCounts,     \* 2^16, the modulus of RLMP
          RlWritten,    \* the values of RLMP programs write and drives report
          RlPage,       \* 2^15, the words one value of the MEX bits spans
          RlPages,      \* 4, the values of the MEX bits
          RlMemory,     \* the first bus address that does not answer
          RlDrives,     \* 0..RL_NUMDR-1
          RlLengths,    \* the lengths, in words, of the images attached
          RlNone        \* no drive

RlHeads == 0..1         \* RL_NUMSF

ASSUME RlGeometryAssumption ==
  /\ RlWords \in Nat \ {0} /\ RlSectors \in Nat \ {0}
  /\ RlSmall \in Nat \ {0} /\ RlBig \in Nat \ {0} /\ RlSmall <= RlBig
ASSUME RlWidthAssumption ==
  /\ RlCounts \in Nat \ {0} /\ RlPage \in Nat \ {0} /\ RlPages \in Nat \ {0}
  /\ RlMemory \in 0..(RlPages * RlPage) /\ RlWritten \subseteq 0..(RlCounts - 1)
ASSUME RlDrivesAssumption == 0 \in RlDrives /\ RlLengths \subseteq Nat /\ RlNone \notin Nat
\* 40 sectors of 128 words, and a count of 16 bits.
ASSUME RlTrackAssumption == RlSectors * RlWords < RlCounts
ASSUME RlDiskCodesAssumption ==
  RlDiskCodes \subseteq [cyl : Nat, hd : RlHeads, sect : Nat]

VARIABLES rlcs,     \* RLCS outside a command: drive, ie, mex
          rlerr,    \* the error bits of RLCS
          rlba, rlda, rlmp,
          rldisk,   \* for each drive: image, lock (read_only), big (is_rl02)
          rlarm,    \* for each drive: cyl, and whether stat has errors; the
            \* head it is on is only reported, and left out
          rlirq     \* the interrupt request of vector 160

rlvars == <<rlcs, rlerr, rlba, rlda, rlmp, rldisk, rlarm, rlirq>>

RlErrors == {"INCMP", "CRC", "DLT", "NXM", "DRE"}
RlCs     == [drive : RlDrives, ie : BOOLEAN, mex : 0..(RlPages - 1)]
RlZero   == [cyl |-> 0, hd |-> 0, sect |-> 0]

RlCylinders(d) == IF rldisk[d].big THEN RlBig ELSE RlSmall   \* MAX_CYL
RlTrack == RlSectors * RlWords

\* Detection of an RL02 by the size of the image.
RlMedium(length, lock) ==
  [image |-> length, lock |-> lock, big |-> length > RlSmall * 2 * RlTrack]
RlEmpty == [image |-> RlNone, lock |-> FALSE, big |-> FALSE]
RlMedia == {RlMedium(n, lock) : n \in RlLengths, lock \in BOOLEAN}

RlInit ==
  /\ rlcs = [drive |-> 0, ie |-> FALSE, mex |-> 0]
  /\ rlerr = {} /\ rlba = 0 /\ rlda = RlZero /\ rlmp = 0
  /\ rldisk \in [RlDrives -> RlMedia \cup {RlEmpty}]
  /\ rlarm = [d \in RlDrives |-> [cyl |-> 0, stat |-> rldisk[d] # RlEmpty]]
  /\ rlirq = FALSE

-----------------------------------------------------------------------------
(* A command *)

\* The command ends with the errors e; rl11_set_done.
RlDone(cs, e) == rlcs' = cs /\ rlerr' = e /\ rlirq' = (rlirq \/ cs.ie)

\* No operation.
RlNop(cs) ==
  RlDone(cs, {}) /\ UNCHANGED <<rlba, rlda, rlmp, rldisk, rlarm>>

\* Any other command on a drive that is not there.
RlMissing(cs) ==
  /\ rldisk[cs.drive].image = RlNone
  /\ rlarm' = [rlarm EXCEPT ![cs.drive].stat = TRUE]
  /\ RlDone(cs, {"INCMP", "DRE"}) /\ UNCHANGED <<rlba, rlda, rlmp, rldisk>>

RlPresent(cs) == rldisk[cs.drive].image # RlNone

\* GET STATUS and READ HEADER leave a word about the drive in RLMP; the clear
\* bit of GET STATUS lies in what is here the sector of RLDA.
RlGetStatus(cs) ==
  /\ RlPresent(cs)
  /\ \E stat \in {FALSE, rlarm[cs.drive].stat} : rlarm' = [rlarm EXCEPT ![cs.drive].stat = stat]
  /\ rlmp' \in RlWritten
  /\ RlDone(cs, {}) /\ UNCHANGED <<rlba, rlda, rldisk>>

RlReadHeader(cs) ==
  /\ RlPresent(cs)
  /\ rlmp' \in RlWritten
  /\ RlDone(cs, {}) /\ UNCHANGED <<rlba, rlda, rldisk, rlarm>>

\* Two mutants: without the lower bound, with that of the other drive type.
RlLandsBelow(d, out, diff) ==
  LET to == IF out THEN rlarm[d].cyl + diff ELSE rlarm[d].cyl - diff
  IN  Min({to, RlCylinders(d) - 1})

RlLandsFar(d, out, diff) ==
  LET to == IF out THEN rlarm[d].cyl + diff ELSE rlarm[d].cyl - diff
  IN  Max({0, Min({to, RlBig - 1})})

\* A seek is relative, and stops at the edges of the disk.
RlLands(d, out, diff) ==
  LET to == IF out THEN rlarm[d].cyl + diff ELSE rlarm[d].cyl - diff
  IN  Max({0, Min({to, RlCylinders(d) - 1})})

\* The direction also lies in the sector of RLDA.
RlSeek(cs) ==
  /\ RlPresent(cs)
  /\ \E out \in BOOLEAN : rlarm' = [rlarm EXCEPT ![cs.drive].cyl = RlLands(cs.drive, out, rlda.cyl)]
  /\ RlDone(cs, {}) /\ UNCHANGED <<rlba, rlda, rlmp, rldisk>>

-----------------------------------------------------------------------------
(* Data transfers *)

RlAddressed(d) == rlda.sect < RlSectors /\ rlda.cyl < RlCylinders(d)

RlBadAddress(cs) ==
  /\ RlPresent(cs) /\ ~RlAddressed(cs.drive)
  /\ RlDone(cs, {"INCMP", "DRE"}) /\ UNCHANGED <<rlba, rlda, rlmp, rldisk, rlarm>>

\* A mutant: the lock is not looked at.
RlOpenAny(d) == RlAddressed(d)

RlOpen(d) == RlAddressed(d) /\ ~rldisk[d].lock

RlLocked(cs) ==
  /\ RlPresent(cs) /\ RlAddressed(cs.drive) /\ ~RlOpen(cs.drive)
  /\ rlarm' = [rlarm EXCEPT ![cs.drive].stat = TRUE]
  /\ RlDone(cs, {"DRE"}) /\ UNCHANGED <<rlba, rlda, rlmp, rldisk>>

\* The count is kept within the track.
RlCount == Min({IF rlmp = 0 THEN RlCounts ELSE RlCounts - rlmp, RlTrack - rlda.sect * RlWords})

RlPlace == ((rlda.cyl * 2 + rlda.hd) * RlSectors + rlda.sect) * RlWords   \* chs_to_offset

RlFrom(cs) == cs.mex * RlPage + rlba
RlAnswers(ma) == ma % (RlPages * RlPage) < RlMemory

\* The words that reach the end n of the transfer or meet no memory.
RlReached(cs, n) == Min({i \in 0..n : i = n \/ ~RlAnswers(RlFrom(cs) + i)})

\* A mutant: a cut transfer counts the words of its last sector.
RlCountedWords(moved, n) == moved

\* Words are counted sector by sector: those of the sector where the
\* transfer was cut do not count.
RlCounted(moved, n) == IF moved = n THEN n ELSE (moved \div RlWords) * RlWords

\* A mutant: the MEX bits are not written back.
RlEndInPage(cs, moved, done, e) ==
  /\ rlmp' = (rlmp + done) % RlCounts
  /\ rlba' = (RlFrom(cs) + moved) % RlPage
  /\ rlda' = [rlda EXCEPT !.sect = @ + done \div RlWords]
  /\ rlarm' = [rlarm EXCEPT ![cs.drive].cyl = rlda.cyl]
  /\ RlDone(cs, e \cup IF rlmp' # 0 THEN {"INCMP", "DLT"} ELSE {})

\* RLMP, RLBA and RLDA after a transfer that moved that many words and
\* counted done; a count that is left is a header error.
RlEnd(cs, moved, done, e) ==
  /\ rlmp' = (rlmp + done) % RlCounts
  /\ rlba' = (RlFrom(cs) + moved) % RlPage
  /\ rlda' = [rlda EXCEPT !.sect = @ + done \div RlWords]
  /\ rlarm' = [rlarm EXCEPT ![cs.drive].cyl = rlda.cyl]
  /\ RlDone([cs EXCEPT !.mex = ((RlFrom(cs) + moved) \div RlPage) % RlPages],
            e \cup IF rlmp' # 0 THEN {"INCMP", "DLT"} ELSE {})

\* The words the image still has at the place: fread stops there.
RlAvailable(d) == Max({0, Min({RlCount, rldisk[d].image - RlPlace})})

\* READ, with or without header check.
RlRead(cs) ==
  /\ RlPresent(cs) /\ RlAddressed(cs.drive)
  /\ LET n == RlAvailable(cs.drive)  moved == RlReached(cs, n)
     IN  RlEnd(cs, moved, RlCounted(moved, n), IF moved < n THEN {"NXM"} ELSE {})
  /\ UNCHANGED rldisk

\* WRITE CHECK: a word that differs ends it before its address advances.
RlWriteCheck(cs) ==
  /\ RlPresent(cs) /\ RlAddressed(cs.drive)
  /\ LET n == RlAvailable(cs.drive)  answered == RlReached(cs, n)
     IN  \/ RlEnd(cs, answered, RlCounted(answered, n), IF answered < n THEN {"NXM"} ELSE {})
         \/ \E same \in 0..(answered - 1) : RlEnd(cs, same, RlCounted(same, n), {"CRC"})
  /\ UNCHANGED rldisk

\* WRITE: a sector cut by missing memory is not written.
RlWrite(cs) ==
  /\ RlPresent(cs) /\ RlOpen(cs.drive)
  /\ LET moved == RlReached(cs, RlCount)  done == RlCounted(moved, RlCount)
     IN  /\ RlEnd(cs, moved, done, IF moved < RlCount THEN {"NXM"} ELSE {})
         /\ rldisk' = [rldisk EXCEPT ![cs.drive].image = IF done = 0 THEN @ ELSE Max({@, RlPlace + done})]

-----------------------------------------------------------------------------
(* Registers, reset, grant *)

\* A write of RLCS with CRDY as one changes the drive, the enable and the MEX
\* bits; with CRDY as zero it starts the command, whose errors are its own.
RlWriteCs == rlcs' \in RlCs /\ UNCHANGED <<rlerr, rlba, rlda, rlmp, rldisk, rlarm, rlirq>>

RlGo ==
  \E cs \in RlCs :
    \/ RlNop(cs) \/ RlMissing(cs) \/ RlGetStatus(cs) \/ RlReadHeader(cs) \/ RlSeek(cs)
    \/ RlBadAddress(cs) \/ RlLocked(cs) \/ RlRead(cs) \/ RlWriteCheck(cs) \/ RlWrite(cs)

RlWriteAddress ==
  /\ \/ rlba' \in 0..(RlPage - 1) /\ UNCHANGED <<rlda, rlmp>>
     \/ rlda' \in RlDiskCodes /\ UNCHANGED <<rlba, rlmp>>
     \/ rlmp' \in RlWritten /\ UNCHANGED <<rlba, rlda>>
  /\ UNCHANGED <<rlcs, rlerr, rldisk, rlarm, rlirq>>

\* INIT selects drive 0, whose errors show, and leaves the drives and RLMP.
RlBusInit ==
  /\ rlcs' = [drive |-> 0, ie |-> FALSE, mex |-> 0]
  /\ rlerr' = IF rlarm[0].stat THEN {"DRE"} ELSE {}
  /\ rlba' = 0 /\ rlda' = RlZero
  /\ rlirq' = FALSE
  /\ UNCHANGED <<rlmp, rldisk, rlarm>>

\* The WebAssembly front end attaches an image to a drive, of a machine that
\* may be running; a file that does not open detaches the old one.
RlAttach ==
  \E d \in RlDrives :
    /\ \/ \E medium \in RlMedia : /\ rldisk' = [rldisk EXCEPT ![d] = medium]
                                  /\ rlarm' = [rlarm EXCEPT ![d].stat = TRUE]
       \/ rldisk' = [rldisk EXCEPT ![d] = RlEmpty] /\ UNCHANGED rlarm
    /\ UNCHANGED <<rlcs, rlerr, rlba, rlda, rlmp, rlirq>>

RlGrant == rlirq /\ rlirq' = FALSE /\ UNCHANGED <<rlcs, rlerr, rlba, rlda, rlmp, rldisk, rlarm>>

RlNext ==
  \/ RlWriteCs \/ RlGo \/ RlWriteAddress \/ RlBusInit \/ RlAttach \/ RlGrant
=============================================================================
