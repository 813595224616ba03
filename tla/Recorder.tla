------------------------------ MODULE Recorder ------------------------------
(***************************************************************************)
(* What the logic analyzer promises: a tape that keeps the newest Size     *)
(* samples, on which the sample at the trigger is marked, and that stops a *)
(* given number of samples after it.  A recorder that has kept Width       *)
(* samples begins again with an empty tape.                                *)
(***************************************************************************)
EXTENDS Integers, Sequences

CONSTANTS Samples,     \* what a micro-step shows
          Sizes,       \* the lengths of the tape
          Width        \* the samples that can be counted

VARIABLES mode,        \* "idle", "armed", "capturing" or "done"
          size, tape,
          kept,        \* the samples kept since it was armed, modulo Width
          mark,        \* the place of the trigger's sample on the tape, or 0
          first,       \* the next sample is the trigger's: the tape was empty
          before,      \* the samples to keep before a trigger is heeded
          quota        \* the samples still to keep

recorder == <<mode, size, tape, kept, mark, first, before, quota>>

\* The newest n elements of a tape.
Newest(t, n) == SubSeq(t, 1 + (IF Len(t) > n THEN Len(t) - n ELSE 0), Len(t))

Init ==
  /\ mode = "idle" /\ size \in Sizes /\ tape = <<>> /\ kept = 0
  /\ mark = 0 /\ first = FALSE /\ before = 0 /\ quota = 0

\* Armed, or capturing at once if there is no trigger to wait for.
Arm ==
  /\ tape' = <<>> /\ kept' = 0 /\ mark' = 0 /\ first' = FALSE /\ before' \in 0..size
  /\ \/ mode' = "armed" /\ quota' = 0
     \/ mode' = "capturing" /\ quota' = size
  /\ UNCHANGED size

Disarm == mode' = "idle" /\ first' = FALSE /\ UNCHANGED <<size, tape, kept, mark, before, quota>>

\* Another tape.
Resize ==
  /\ size' \in Sizes \ {size} /\ mode' = "idle" /\ tape' = <<>> /\ kept' = 0
  /\ mark' = 0 /\ first' = FALSE /\ quota' = 0 /\ UNCHANGED before

\* Resize, and Arm.
Restart ==
  /\ size' \in Sizes /\ before' \in 0..size'
  /\ tape' = <<>> /\ kept' = 0 /\ mark' = 0 /\ first' = FALSE
  /\ \/ mode' = "armed" /\ quota' = 0
     \/ mode' = "capturing" /\ quota' = size'

\* The tape and the mark after a sample, or after none.
Keep ==
  /\ kept' = (kept + 1) % Width
  /\ \E s \in Samples :
       tape' = IF kept' = 0 THEN <<>> ELSE Newest(Append(tape, s), size)
Moved ==
  IF kept' = 0 THEN 0
  ELSE IF first THEN 1
  ELSE IF mark > 0 /\ Len(tape) = size THEN mark - 1
  ELSE mark
Skip == UNCHANGED <<kept, tape>>

Listen ==
  /\ mode = "armed" /\ (Keep \/ Skip)
  /\ UNCHANGED <<mode, size, mark, first, before, quota>>

\* The trigger marks the newest sample, or the one to come.  A sample kept with
\* it counts as one after it.
Trigger ==
  /\ mode = "armed" /\ (Keep \/ Skip)
  /\ kept' >= before
  /\ mark' = Len(tape')
  /\ quota' = LET after == size - before
              IN  IF kept' # kept /\ after > 0 THEN after - 1 ELSE after
  /\ mode' = IF quota' = 0 THEN "done" ELSE "capturing"
  /\ first' = (tape' = <<>> /\ mode' = "capturing")
  /\ UNCHANGED <<size, before>>

Capture ==
  /\ mode = "capturing"
  /\ \/ Keep /\ mark' = Moved /\ first' = FALSE /\ quota' = quota - 1
     \/ Skip /\ UNCHANGED <<mark, first, quota>>
  /\ mode' = IF quota' = 0 THEN "done" ELSE "capturing"
  /\ UNCHANGED <<size, before>>

Next == Arm \/ Disarm \/ Resize \/ Restart \/ Listen \/ Trigger \/ Capture

Spec == Init /\ [][Next]_recorder
=============================================================================
