------------------------------- MODULE MCRkDisk ----------------------------
(* Two drives of one cylinder of two surfaces, two words each, whose images  *)
(* end inside the second until a write makes them longer.                    *)
EXTENDS RkDisk

MCLengths == {3}

\* The last sector, a sector that does not exist, and the other drive.
MCDiskCodes ==
  {[drive |-> 0, cyl |-> 0, surf |-> 1, sect |-> 0],
   [drive |-> 0, cyl |-> 0, surf |-> 0, sect |-> 1],
   [drive |-> 1, cyl |-> 0, surf |-> 0, sect |-> 0]}
=============================================================================
