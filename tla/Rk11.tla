-------------------------------- MODULE Rk11 --------------------------------
(***************************************************************************)
(* The RK11-D disk controller (rk11/rk11.c).  A command runs to its end    *)
(* inside the register write that starts it; it is cut here into the       *)
(* passes of its transfer loop, each of at most one sector, so that a loop *)
(* that does not end can be seen.  Words have no value: a drive is the     *)
(* length of its image, memory is the addresses that answer, and a write   *)
(* check finds a difference or not.  Bus addresses count words.            *)
(***************************************************************************)
EXTENDS Integers, FiniteSetsExt

CONSTANTS RkWords,      \* RK_NUMWD, words of a sector
          RkSectors,    \* RK_NUMSC, sectors of a surface
          RkSurfaces,   \* RK_NUMSF, surfaces of a cylinder
          RkCylinders,  \* RK_NUMCY
          RkDiskCodes,  \* the values of RKDA programs write
          RkCounts,     \* 2^16, the modulus of RKWC
          RkPage,       \* 2^15, the words one value of the MEX bits spans
          RkPages,      \* 4, the values of the MEX bits
          RkMemory,     \* the first bus address that does not answer
          RkLengths,    \* the lengths, in words, of the images attached
          RkNone        \* no drive

ASSUME RkGeometryAssumption ==
  /\ RkWords \in Nat \ {0} /\ RkSectors \in Nat \ {0}
  /\ RkSurfaces \in Nat \ {0} /\ RkCylinders \in Nat \ {0}
ASSUME RkWidthAssumption ==
  /\ RkCounts \in Nat \ {0} /\ RkPage \in Nat \ {0} /\ RkPages \in Nat \ {0}
  /\ RkMemory \in 0..(RkPages * RkPage)
ASSUME RkLengthsAssumption == RkLengths \subseteq Nat
ASSUME RkDiskCodesAssumption ==
  RkDiskCodes \subseteq [drive : Nat, cyl : Nat, surf : Nat, sect : Nat]
ASSUME RkNoneAssumption == RkNone \notin Nat

VARIABLES rkcs,   \* RKCS: done, ie, mex, err, herr
          rker,   \* RKER: the set of its errors
          rkwc, rkba,
          rkda,   \* RKDA: drive, cyl, surf, sect
          rkimage,  \* for each drive, the length of its image, or RkNone
          rklock,   \* for each drive, read_only
          rkcmd,    \* the transfer under way, with its function
          rkirq     \* the interrupt request of vector 220

rkvars == <<rkcs, rker, rkwc, rkba, rkda, rkimage, rklock, rkcmd, rkirq>>

RkFunctions == {"ctlreset", "write", "read", "wchk", "seek", "rchk", "drvreset", "wlk"}
RkTransfers == {"write", "read", "wchk", "rchk"}
RkHard      == {"NXD", "NXC", "NXS", "NXM"}
RkErrors    == RkHard \cup {"WLO", "OVR", "WCE"}
RkDrives    == {0} \cup {d.drive : d \in RkDiskCodes}

RkReset == [done |-> TRUE, ie |-> FALSE, mex |-> 0, err |-> FALSE, herr |-> FALSE]
RkZero  == [drive |-> 0, cyl |-> 0, surf |-> 0, sect |-> 0]
RkQuiet == [busy |-> FALSE, func |-> "ctlreset", start |-> 0, count |-> 0, moved |-> 0, from |-> 0, ma |-> 0]

RkInit ==
  /\ rkcs = RkReset /\ rker = {} /\ rkwc = 0 /\ rkba = 0 /\ rkda = RkZero
  /\ rkimage \in [RkDrives -> RkLengths \cup {RkNone}]
  /\ rklock \in [RkDrives -> BOOLEAN]
  /\ rkcmd = RkQuiet /\ rkirq = FALSE

RkIdle == ~rkcmd.busy

-----------------------------------------------------------------------------
(* The end of a command *)

\* Two mutants: without rk05_update_err, and without the interrupt.
RkDoneFirst(cs, e) ==
  /\ rker' = e
  /\ rkcs' = [cs EXCEPT !.done = TRUE]
  /\ rkirq' = (rkirq \/ cs.ie)

RkDoneSilent(cs, e) ==
  /\ rker' = e
  /\ rkcs' = [cs EXCEPT !.done = TRUE, !.err = e # {}, !.herr = e \cap RkHard # {}]
  /\ UNCHANGED rkirq

\* rk05_update_err and rk05_set_done: the command ends with the errors e.
RkDone(cs, e) ==
  /\ rker' = e
  /\ rkcs' = [cs EXCEPT !.done = TRUE, !.err = e # {}, !.herr = e \cap RkHard # {}]
  /\ rkirq' = (rkirq \/ cs.ie)

\* da_to_sector
RkSector(da) == (da.cyl * RkSurfaces + da.surf) * RkSectors + da.sect

RkAddress(drive, s) ==
  [drive |-> drive, cyl |-> s \div (RkSurfaces * RkSectors),
   surf |-> (s \div RkSectors) % RkSurfaces, sect |-> s % RkSectors]

\* Two mutants: the MEX bits are not written back, or RKBA keeps all bits.
RkFinishInPage(cs, c, ma, e) ==
  /\ rkwc' = (rkwc + c.count) % RkCounts
  /\ rkba' = ma % RkPage
  /\ rkda' = RkAddress(rkda.drive, c.start + (c.count + RkWords - 1) \div RkWords)
  /\ RkDone(cs, e)

RkFinishWide(cs, c, ma, e) ==
  /\ rkwc' = (rkwc + c.count) % RkCounts
  /\ rkba' = ma
  /\ rkda' = RkAddress(rkda.drive, c.start + (c.count + RkWords - 1) \div RkWords)
  /\ RkDone([cs EXCEPT !.mex = (ma \div RkPage) % RkPages], e)

\* xfer_done: the count is completed and the disk address advanced by the
\* whole word count, whatever was transferred; the bus address is where the
\* transfer stopped.
RkFinish(cs, c, ma, e) ==
  /\ rkwc' = (rkwc + c.count) % RkCounts
  /\ rkba' = ma % RkPage
  /\ rkda' = RkAddress(rkda.drive, c.start + (c.count + RkWords - 1) \div RkWords)
  /\ RkDone([cs EXCEPT !.mex = (ma \div RkPage) % RkPages], e)

-----------------------------------------------------------------------------
(* rk05_go *)

\* A mutant: a WRITE passes the write lock.
RkRefusalUnlocked(func) ==
  IF rkimage[rkda.drive] = RkNone THEN {"NXD"}
  ELSE IF rklock[rkda.drive] /\ func = "wlk" THEN {"WLO"}
  ELSE IF rkda.sect >= RkSectors THEN {"NXS"}
  ELSE IF rkda.cyl >= RkCylinders THEN {"NXC"}
  ELSE {}

\* The checks before any transfer, in their order.
RkRefusal(func) ==
  IF rkimage[rkda.drive] = RkNone THEN {"NXD"}
  ELSE IF rklock[rkda.drive] /\ func \in {"write", "wlk"} THEN {"WLO"}
  ELSE IF rkda.sect >= RkSectors THEN {"NXS"}
  ELSE IF rkda.cyl >= RkCylinders THEN {"NXC"}
  ELSE {}

\* RKWC holds the count negated; 0 stands for the full count.
RkCount == IF rkwc = 0 THEN RkCounts ELSE RkCounts - rkwc

\* A write to RKCS without GO.
RkWriteCs ==
  /\ RkIdle
  /\ \E ie \in BOOLEAN, mex \in 0..(RkPages - 1) : rkcs' = [rkcs EXCEPT !.ie = ie, !.mex = mex]
  /\ UNCHANGED <<rker, rkwc, rkba, rkda, rkimage, rklock, rkcmd, rkirq>>

\* A write to RKCS with GO: DONE, ERR and the old errors go.
RkCleared(ie, mex) == [RkReset EXCEPT !.done = FALSE, !.ie = ie, !.mex = mex]

RkGo == RkIdle /\ rkcs.done /\ UNCHANGED <<rkimage, rklock>>

RkGoReset ==
  /\ RkGo
  /\ rkcs' = RkReset /\ rker' = {} /\ rkwc' = 0 /\ rkba' = 0 /\ rkda' = RkZero
  /\ UNCHANGED <<rkcmd, rkirq>>

RkGoRefused ==
  \E ie \in BOOLEAN, mex \in 0..(RkPages - 1), func \in RkFunctions \ {"ctlreset"} :
    /\ RkGo /\ RkRefusal(func) # {}
    /\ RkDone(RkCleared(ie, mex), RkRefusal(func))
    /\ UNCHANGED <<rkwc, rkba, rkda, rkcmd>>

RkStart(func, mex) ==
  [busy |-> TRUE, func |-> func, start |-> RkSector(rkda), count |-> RkCount, moved |-> 0,
   from |-> mex * RkPage + rkba, ma |-> mex * RkPage + rkba]

\* SEEK, DRIVE RESET and WRITE LOCK move nothing, and end like a transfer.
RkGoSeek ==
  \E ie \in BOOLEAN, mex \in 0..(RkPages - 1), func \in {"seek", "drvreset", "wlk"} :
    /\ RkGo /\ RkRefusal(func) = {}
    /\ RkFinish(RkCleared(ie, mex), RkStart(func, mex), RkStart(func, mex).ma, {})
    /\ UNCHANGED rkcmd

RkGoTransfer ==
  \E ie \in BOOLEAN, mex \in 0..(RkPages - 1), func \in RkTransfers :
    /\ RkGo /\ RkRefusal(func) = {}
    /\ rkcs' = RkCleared(ie, mex) /\ rker' = {}
    /\ rkcmd' = RkStart(func, mex)
    /\ UNCHANGED <<rkwc, rkba, rkda, rkirq>>

-----------------------------------------------------------------------------
(* The transfer loop: one pass, of at most a sector *)

RkLength == rkimage[rkda.drive]
RkPlace  == rkcmd.start * RkWords + rkcmd.moved
RkChunk  == Min({RkWords, rkcmd.count - rkcmd.moved})
RkGot    == Max({0, Min({RkChunk, RkLength - RkPlace})})   \* fread

\* Bus addresses wrap at 18 bits.
RkAnswers(ma) == ma % (RkPages * RkPage) < RkMemory

RkTransferring(funcs) ==
  rkcmd.busy /\ rkcmd.func \in funcs /\ rkcmd.moved < rkcmd.count

\* The words of this pass before the first that meets no memory.
RkReached(n) == Min({i \in 0..n : i = n \/ ~RkAnswers(rkcmd.ma + i)})

RkMoves(n) ==
  /\ rkcmd' = [rkcmd EXCEPT !.moved = @ + n, !.ma = @ + n]
  /\ UNCHANGED <<rkcs, rkwc, rkba, rkda, rklock, rkirq>>

RkStops(ma, e) ==
  /\ rkcmd' = RkQuiet
  /\ RkFinish(rkcs, rkcmd, ma, e)
  /\ UNCHANGED <<rkimage, rklock>>

RkPassRead ==
  /\ RkTransferring({"read"})
  /\ RkGot > 0 /\ RkReached(RkGot) = RkGot
  /\ RkMoves(RkGot) /\ UNCHANGED <<rker, rkimage>>

\* READ CHECK does not touch memory.
RkPassReadCheck ==
  /\ RkTransferring({"rchk"})
  /\ RkGot > 0
  /\ RkMoves(RkGot) /\ UNCHANGED <<rker, rkimage>>

\* The image ends.
RkOverrun ==
  /\ RkTransferring({"read", "rchk"})
  /\ RkGot = 0
  /\ RkStops(rkcmd.ma, rker \cup {"OVR"})

\* The image grows when the place is past its end.
RkPassWrite ==
  /\ RkTransferring({"write"})
  /\ RkReached(RkChunk) = RkChunk
  /\ rkimage' = [rkimage EXCEPT ![rkda.drive] = Max({@, RkPlace + RkChunk})]
  /\ RkMoves(RkChunk) /\ UNCHANGED rker

\* A comparison of n words finds a difference or none.
RkCompared(n) == {rker} \cup {rker \cup {"WCE"} : i \in 1..n}

\* At the end of the image nothing is read, nothing is compared and the loop
\* goes on.
RkPassWriteCheck ==
  /\ RkTransferring({"wchk"})
  /\ RkReached(RkGot) = RkGot
  /\ rker' \in RkCompared(RkGot)
  /\ RkMoves(RkGot) /\ UNCHANGED rkimage

\* A word meets no memory: the rest of the sector is given up.
RkNoMemory ==
  LET n == IF rkcmd.func = "write" THEN RkChunk ELSE RkGot
  IN  /\ RkTransferring({"read", "write", "wchk"})
      /\ RkReached(n) < n
      /\ \E e \in IF rkcmd.func = "wchk" THEN RkCompared(RkReached(n)) ELSE {rker} :
           RkStops(rkcmd.ma + RkReached(n), e \cup {"NXM"})

RkComplete ==
  /\ rkcmd.busy /\ rkcmd.moved >= rkcmd.count
  /\ RkStops(rkcmd.ma, rker)

RkPass ==
  \/ RkPassRead \/ RkPassReadCheck \/ RkPassWrite \/ RkPassWriteCheck
  \/ RkOverrun \/ RkNoMemory \/ RkComplete

-----------------------------------------------------------------------------
\* Writes to RKWC, RKBA and RKDA.
RkWriteAddress ==
  /\ RkIdle
  /\ \/ rkwc' \in 0..(RkCounts - 1) /\ UNCHANGED <<rkba, rkda>>
     \/ rkba' \in 0..(RkPage - 1) /\ UNCHANGED <<rkwc, rkda>>
     \/ rkda' \in RkDiskCodes /\ UNCHANGED <<rkwc, rkba>>
  /\ UNCHANGED <<rkcs, rker, rkimage, rklock, rkcmd, rkirq>>

RkBusInit ==
  /\ RkIdle
  /\ rkcs' = RkReset /\ rker' = {} /\ rkwc' = 0 /\ rkba' = 0 /\ rkda' = RkZero
  /\ rkirq' = FALSE
  /\ UNCHANGED <<rkimage, rklock, rkcmd>>

\* BUT SERVICE grants the request.
RkGrant ==
  /\ RkIdle /\ rkirq
  /\ rkirq' = FALSE
  /\ UNCHANGED <<rkcs, rker, rkwc, rkba, rkda, rkimage, rklock, rkcmd>>

RkNext ==
  \/ RkWriteCs \/ RkGoReset \/ RkGoRefused \/ RkGoSeek \/ RkGoTransfer
  \/ RkPass \/ RkWriteAddress \/ RkBusInit \/ RkGrant
=============================================================================
