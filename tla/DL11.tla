-------------------------------- MODULE DL11 --------------------------------
(***************************************************************************)
(* The DL11 console terminal interface (dl11/dl11.c).  Characters have no  *)
(* value here: `host' says whether the host terminal has one waiting.      *)
(***************************************************************************)
EXTENDS Backplane

\* The registers after bus INIT and at power-on: XMIT RDY alone.  The
\* deadline is tx_done_at_ns.
DLCleared ==
  [rdone |-> FALSE, rie |-> FALSE, rdy |-> TRUE, tie |-> FALSE, tx |-> "none"]

DLStates == [rdone : BOOLEAN, rie : BOOLEAN, rdy : BOOLEAN, tie : BOOLEAN, tx : Deadlines]

\* Mutant of DLTransmitEnd: XMIT RDY rises without a request.
DLTransmitSilent(d, q) ==
  IF ~d.rdy /\ d.tx = "due"
  THEN After([d EXCEPT !.rdy = TRUE, !.tx = "none"], q)
  ELSE After(d, q)

\* End of the character being sent, noticed by a tick or by reading XCSR.
DLTransmitEnd(d, q) ==
  IF ~d.rdy /\ d.tx = "due"
  THEN After([d EXCEPT !.rdy = TRUE, !.tx = "none"], RequestIf(d.tie, q, "tx"))
  ELSE After(d, q)

\* Mutant of DLTakes: the receiver is looked at only with its interrupt enabled.
DLTakesEnabled(d, host) == host /\ ~d.rdone /\ d.rie

\* The receiver takes a character from the host only when DONE is clear.
DLTakes(d, host) == host /\ ~d.rdone

\* Mutant of DLTick: the receiver is served and the transmitter is not.
DLTickReceives(d, q, host) ==
  IF DLTakes(d, host)
  THEN After([d EXCEPT !.rdone = TRUE], RequestIf(d.rie, q, "rx"))
  ELSE After(d, q)

DLTick(d, q, host) ==
  LET t == DLTransmitEnd(d, q)
  IN  IF DLTakes(d, host)
      THEN After([t.dev EXCEPT !.rdone = TRUE], RequestIf(d.rie, t.q, "rx"))
      ELSE t

\* Reading RCSR polls the host like a tick, and requests no interrupt.
DLReadRcsr(d, q, host) ==
  After([d EXCEPT !.rdone = d.rdone \/ DLTakes(d, host)], q)

DLReadRbuf(d, q) == After([d EXCEPT !.rdone = FALSE], q)

\* Mutant of DLWriteRcsr: clearing RCVR INT ENB leaves the request pending.
DLWriteRcsrKeeps(d, q, ie) ==
  After([d EXCEPT !.rie = ie], RequestIf(ie /\ ~d.rie /\ d.rdone, q, "rx"))

DLWriteRcsr(d, q, ie) ==
  After([d EXCEPT !.rie = ie],
        CancelIf(d.rie /\ ~ie, RequestIf(ie /\ ~d.rie /\ d.rdone, q, "rx"), "rx"))

DLWriteXcsr(d, q, ie) ==
  After([d EXCEPT !.tie = ie],
        CancelIf(d.tie /\ ~ie, RequestIf(ie /\ ~d.tie /\ d.rdy, q, "tx"), "tx"))

\* Writing XBUF sends the character and restarts the character time, even
\* when the previous one is still being sent.
DLWriteXbuf(d, q) == After([d EXCEPT !.rdy = FALSE, !.tx = "ahead"], q)

\* Mutant of DLBusInit: INIT stops the character and leaves XMIT RDY alone.
DLInitKeepsReady(d, q) ==
  After([DLCleared EXCEPT !.rdy = d.rdy], Cancel(Cancel(q, "rx"), "tx"))

DLBusInit(d, q) == After(DLCleared, Cancel(Cancel(q, "rx"), "tx"))
=============================================================================
