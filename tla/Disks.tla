-------------------------------- MODULE Disks --------------------------------
(* The two disk controllers on one bus.  A command runs to its end inside a  *)
(* register write, so that commands of the two never overlap and their state *)
(* is disjoint: a program that drives one of them leaves the other alone.    *)
(* For TLC: the RK11-D of MCRkDisk; an RL11 with one drive of two-sector     *)
(* tracks, an RL01 of one cylinder or an RL02 of two.                        *)
EXTENDS MCRkDisk, RlDisk

VARIABLE driven   \* the controller that has the drives

disksvars == <<driven, rkvars, rlvars>>

DisksInit ==
  /\ driven \in {"RK11", "RL11"}
  /\ RkInit /\ (driven = "RL11" => \A d \in RkDrives : rkimage[d] = RkNone /\ ~rklock[d])
  /\ RlInit /\ (driven = "RK11" => \A d \in RlDrives : rldisk[d] = RlEmpty)

DisksNext ==
  /\ UNCHANGED driven
  /\ \/ driven = "RK11" /\ RkNext /\ UNCHANGED rlvars
     \/ driven = "RL11" /\ RlNext /\ UNCHANGED rkvars

DisksSpec == DisksInit /\ [][DisksNext]_disksvars /\ WF_rkvars(RkPass)

-----------------------------------------------------------------------------
DisksTypeOK == RkTypeOK /\ RlTypeOK

\* On the second cylinder, which an RL01 does not have.
MCRlDiskCodes == {[cyl |-> 1, hd |-> 0, sect |-> 0]}
=============================================================================
