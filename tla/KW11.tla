-------------------------------- MODULE KW11 --------------------------------
(***************************************************************************)
(* The KW11-L line clock (kw11/kw11.c).  `edge' is next_tick_ns: unset     *)
(* (0) until the first tick, then the next line clock edge.  CLOCK MONITOR, *)
(* which only programs read, is left out.                                   *)
(***************************************************************************)
EXTENDS Backplane

KWPowerOn == [ie |-> FALSE, edge |-> "none"]

KWStates == [ie : BOOLEAN, edge : Deadlines]

\* A tick arms the first deadline, or takes an edge that is due: the
\* next one is a period away (edges missed meanwhile are skipped), and an
\* interrupt is requested if it is enabled.
KWTick(k, q) ==
  IF k.edge = "none"
  THEN After([k EXCEPT !.edge = "ahead"], q)
  ELSE IF k.edge = "due"
  THEN After([k EXCEPT !.edge = "ahead"], RequestIf(k.ie, q, "clk"))
  ELSE After(k, q)

\* Writing LKS; with INT ENB low the request flip-flop is held clear.
KWWrite(k, q, ie) ==
  After([k EXCEPT !.ie = ie], CancelIf(~ie, q, "clk"))

\* INIT does not touch the line clock's edges.
KWBusInit(k, q) == After([k EXCEPT !.ie = FALSE], Cancel(q, "clk"))

\* machine_set_rtc_hz restarts the period.
KWSetHz(k) == [k EXCEPT !.edge = "ahead"]
=============================================================================
