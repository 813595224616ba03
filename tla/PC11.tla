-------------------------------- MODULE PC11 --------------------------------
(***************************************************************************)
(* The PC11 paper tape reader and punch (pc11/pc11.c).  `tape' and `holes' *)
(* say whether a reader file and a punch file are attached.                *)
(***************************************************************************)
EXTENDS Backplane

PCPowerOn(tape, holes) ==
  [tape |-> tape, holes |-> holes,
   rie |-> FALSE, rbusy |-> FALSE, rdone |-> FALSE, rerr |-> FALSE, read |-> "none",
   pie |-> FALSE, pdone |-> TRUE, perr |-> FALSE, punch |-> "none"]

PCStates ==
  [tape : BOOLEAN, holes : BOOLEAN,
   rie : BOOLEAN, rbusy : BOOLEAN, rdone : BOOLEAN, rerr : BOOLEAN, read : Deadlines,
   pie : BOOLEAN, pdone : BOOLEAN, perr : BOOLEAN, punch : Deadlines]

\* Mutant of PCReaderEnd: no request at the end of the tape.
PCReaderEndSilentEof(p, q, eof) ==
  IF p.rbusy /\ p.read = "due"
  THEN After([p EXCEPT !.rbusy = FALSE, !.rdone = TRUE, !.read = "none",
                       !.rerr = eof \/ ~p.tape],
             RequestIf(p.rie /\ ~eof, q, "ptr"))
  ELSE After(p, q)

\* The reader's character time is over: a byte, or an error at the end of
\* the tape.
PCReaderEnd(p, q, eof) ==
  IF p.rbusy /\ p.read = "due"
  THEN After([p EXCEPT !.rbusy = FALSE, !.rdone = TRUE, !.read = "none",
                       !.rerr = eof \/ ~p.tape],
             RequestIf(p.rie, q, "ptr"))
  ELSE After(p, q)

\* The punch's character time is over; putc may fail.
PCPunchEnd(p, q, fails) ==
  IF ~p.pdone /\ p.punch = "due"
  THEN After([p EXCEPT !.pdone = TRUE, !.punch = "none", !.perr = fails \/ ~p.holes],
             RequestIf(p.pie, q, "ptp"))
  ELSE After(p, q)

PCTick(p, q, eof, fails) ==
  LET r == PCReaderEnd(p, q, eof) IN PCPunchEnd(r.dev, r.q, fails)

\* Mutant of PCReadPrb: the byte is taken and its request stays.
PCReadPrbQuiet(p, q) == After([p EXCEPT !.rdone = FALSE], q)

PCReadPrb(p, q) == After([p EXCEPT !.rdone = FALSE], Cancel(q, "ptr"))

PCEnableReader(p, q, ie) ==
  After([p EXCEPT !.rie = ie],
        CancelIf(p.rie /\ ~ie, RequestIf(ie /\ ~p.rie /\ (p.rdone \/ p.rerr), q, "ptr"), "ptr"))

\* Mutant of PCGo: GO starts the character time again while a read is under way.
PCGoAlways(p, q) ==
  LET started == [p EXCEPT !.rdone = FALSE, !.rerr = FALSE, !.rbusy = TRUE, !.read = "ahead"]
      refused == [p EXCEPT !.rdone = TRUE, !.rerr = TRUE]
  IN  IF p.tape THEN After(started, Cancel(q, "ptr"))
      ELSE After(refused, RequestIf(p.rie, Cancel(q, "ptr"), "ptr"))

\* GO starts a read unless one is under way; without a tape it fails at once.
PCGo(p, q) ==
  LET started == [p EXCEPT !.rdone = FALSE, !.rerr = FALSE, !.rbusy = TRUE, !.read = "ahead"]
      refused == [p EXCEPT !.rdone = TRUE, !.rerr = TRUE]
  IN  IF p.rbusy THEN After(p, q)
      ELSE IF p.tape THEN After(started, Cancel(q, "ptr"))
      ELSE After(refused, RequestIf(p.rie, Cancel(q, "ptr"), "ptr"))

PCWritePrs(p, q, ie, go) ==
  LET e == PCEnableReader(p, q, ie)
  IN  IF go THEN PCGo(e.dev, e.q) ELSE e

PCWritePps(p, q, ie) ==
  After([p EXCEPT !.pie = ie],
        CancelIf(p.pie /\ ~ie, RequestIf(ie /\ ~p.pie /\ (p.pdone \/ p.perr), q, "ptp"), "ptp"))

\* Writing PPB restarts the punch time even when the previous byte is still
\* to be punched; with no punch attached it fails at once.
PCWritePpb(p, q) ==
  IF p.holes
  THEN After([p EXCEPT !.pdone = FALSE, !.punch = "ahead"], Cancel(q, "ptp"))
  ELSE After([p EXCEPT !.pdone = TRUE, !.perr = TRUE],
             RequestIf(p.pie, Cancel(q, "ptp"), "ptp"))

\* Mutant of PCBusInit: INIT stops the tape and leaves BUSY set.
PCInitKeepsBusy(p, q) ==
  After([PCPowerOn(p.tape, p.holes) EXCEPT !.rerr = p.rerr, !.perr = p.perr, !.rbusy = p.rbusy],
        Cancel(Cancel(q, "ptr"), "ptp"))

PCBusInit(p, q) ==
  After([PCPowerOn(p.tape, p.holes) EXCEPT !.rerr = p.rerr, !.perr = p.perr],
        Cancel(Cancel(q, "ptr"), "ptp"))
=============================================================================
