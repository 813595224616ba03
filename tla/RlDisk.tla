------------------------------- MODULE RlDisk -------------------------------
(* What a program may rely on when it drives the RL11.                       *)
EXTENDS Rl11

RlSpec == RlInit /\ [][RlNext]_rlvars

\* The registers keep their widths, through every command: the count and the
\* bus address wrap, and a transfer ends at the end of its track.
RlTypeOK ==
  /\ rlcs \in RlCs /\ rlerr \subseteq RlErrors
  /\ rlba \in 0..(RlPage - 1) /\ rlmp \in 0..(RlCounts - 1)
  /\ rlda \in [cyl : Nat, hd : RlHeads, sect : Nat]
  /\ rldisk \in [RlDrives -> [image : Nat \cup {RlNone}, lock : BOOLEAN, big : BOOLEAN]]
  /\ rlarm \in [RlDrives -> [cyl : 0..(RlBig - 1), stat : BOOLEAN]]
  /\ rlirq \in BOOLEAN

RlTransfers(cs) == RlRead(cs) \/ RlWriteCheck(cs) \/ RlWrite(cs)

\* What rl11_go leaves for the driver.  The residue of RLMP, the sector of
\* RLDA and the bus address tell of the same words, so that a driver can go
\* on after the end of a track or of the image; only missing memory or a
\* difference puts the bus address ahead of them, by less than a sector.  No
\* error after words were moved means that they were the whole count.
RlResidue ==
  [][<<rlba, rlmp>>' # <<rlba, rlmp>> => \A mex \in 0..(RlPages - 1) :
       LET cs    == [rlcs' EXCEPT !.mex = mex]
           asked == IF rlmp = 0 THEN RlCounts ELSE RlCounts - rlmp
           done  == (rlmp' - rlmp) % RlCounts
           ahead == (RlFrom(rlcs)' - RlFrom(cs) - done) % (RlPages * RlPage)
       IN  RlTransfers(cs) =>
             /\ rlda'.sect = rlda.sect + done \div RlWords /\ rlda'.sect <= RlSectors
             /\ IF rlerr' \cap {"NXM", "CRC"} = {} THEN ahead = 0
                ELSE ahead < RlWords /\ done % RlWords = 0
             /\ rlerr' = {} => done = asked]_rlvars

\* The heads only move to a cylinder of the disk they are on: also when an
\* image of the other drive type was attached under them.
RlHeadsLand ==
  [][\A d \in RlDrives : rlarm'[d].cyl # rlarm[d].cyl =>
       d = rlcs'.drive /\ rlarm'[d].cyl < RlCylinders(d)]_rlvars

\* Only a WRITE changes an image (or attaching another): that of the selected
\* drive, which is not write-locked, and inside the track that RLDA names,
\* whatever the count.
RlImageSafe ==
  [][\A d \in RlDrives : rldisk'[d] # rldisk[d] =>
       \/ RlAttach
       \/ /\ d = rlcs'.drive /\ ~rldisk[d].lock /\ rlda.cyl < RlCylinders(d)
          /\ rldisk'[d] = [rldisk[d] EXCEPT !.image = rldisk'[d].image]
          /\ rldisk'[d].image > rldisk[d].image
          /\ rldisk'[d].image <= (rlda.cyl * 2 + rlda.hd + 1) * RlTrack]_rlvars
=============================================================================
