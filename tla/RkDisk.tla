------------------------------- MODULE RkDisk -------------------------------
(* What a program may rely on when it drives the RK11-D.                     *)
EXTENDS Rk11

\* rk05_go never waits: while it runs nothing else does, and it goes on.
RkSpec == RkInit /\ [][RkNext]_rkvars /\ WF_rkvars(RkPass)

\* The registers and the transfer keep their widths.
RkTypeOK ==
  /\ rkcs \in [done : BOOLEAN, ie : BOOLEAN, mex : 0..(RkPages - 1),
               err : BOOLEAN, herr : BOOLEAN]
  /\ rker \subseteq RkErrors
  /\ rkwc \in 0..(RkCounts - 1) /\ rkba \in 0..(RkPage - 1)
  /\ rkda \in [drive : RkDrives, cyl : Nat, surf : Nat, sect : Nat]
  /\ rkimage \in [RkDrives -> Nat \cup {RkNone}] /\ rklock \in [RkDrives -> BOOLEAN]
  /\ rkcmd \in [busy : BOOLEAN, func : RkFunctions, start : Nat, count : Nat, moved : Nat, from : Nat, ma : Nat]
  /\ rkirq \in BOOLEAN

\* Outside a command the controller is ready, and the two summary bits a
\* driver tests agree with the error register, through every way a command
\* ends and every reset.
RkSummary ==
  RkIdle => /\ rkcs.done
            /\ rkcs.err <=> rker # {}
            /\ rkcs.herr <=> rker \cap RkHard # {}

\* A transfer under way is one that the checks of rk05_go admitted, with its
\* drive still selected.
RkAdmitted == rkcmd.busy => rkcmd.func \in RkTransfers /\ RkRefusal(rkcmd.func) = {}

\* A transfer that ends without an overrun or missing memory moved its whole
\* count: the bus address (RKBA with MEX) and the disk address continue where
\* it stopped, so that a driver that reloads only RKWC goes on correctly.
RkContinues ==
  [][rkcmd.busy /\ ~rkcmd'.busy /\ rker' \cap {"OVR", "NXM"} = {} =>
       /\ rkcmd.moved = rkcmd.count /\ rkwc' = 0
       /\ rkcs'.mex * RkPage + rkba' = (rkcmd.from + rkcmd.count) % (RkPages * RkPage)
       /\ \E rest \in 0..(RkWords - 1) :
            (RkSector(rkda') - rkcmd.start) * RkWords = rkcmd.count + rest]_rkvars

\* No command and no order of commands changes the image of a write-locked
\* drive, of a drive that is not selected or of one with an address error,
\* and no write makes an image shorter.
RkImageSafe ==
  [][\A d \in RkDrives : rkimage'[d] # rkimage[d] =>
       /\ d = rkda.drive /\ ~rklock[d] /\ rkimage[d] # RkNone
       /\ rkda.sect < RkSectors /\ rkda.cyl < RkCylinders
       /\ rkimage'[d] > rkimage[d]]_rkvars

\* Every transfer but a write check ends, with its interrupt when it was
\* asked for.
RkTransfersEnd ==
  /\ (rkcmd.busy /\ rkcmd.func # "wchk") ~> RkIdle
  /\ (rkcmd.busy /\ rkcmd.func # "wchk" /\ rkcs.ie) ~> (RkIdle /\ rkirq)

\* "Instantaneous DMA" (rk11.c:4, rk11.h:5): every command that starts ends.
RkCommandsEnd == rkcmd.busy ~> RkIdle
=============================================================================
