----------------------------- MODULE FrontEnds -----------------------------
(* The programmer console under its two front ends, and what an operator may *)
(* expect of them.  A program has one of them: at tells which.               *)
EXTENDS CliMain, WebMain

frontvars == <<panelvars, clivars, webvars>>

WebPlaces == {"frame", "slice"}

FrontInit ==
  /\ CliInit /\ WebInit
  /\ \/ at = "loop" /\ con \in CliPanels
     \/ at = "frame" /\ con \in Panel

FrontNext ==
  \/ at \notin WebPlaces /\ CliNext /\ UNCHANGED webvars
  \/ at \in WebPlaces /\ WebNext /\ UNCHANGED clivars

FrontSpec == FrontInit /\ [][FrontNext]_frontvars
FrontFairSpec == FrontSpec /\ CliFairness

-----------------------------------------------------------------------------
FrontTypeOK ==
  /\ PanelOK
  /\ at \in WebPlaces \cup {"loop", "run", "halt?", "debug?", "probe?", "end", "debug", "step"}
  /\ stdin \in Seq(Characters) /\ Len(stdin) <= TypedAhead /\ asked \subseteq OperatorKeys

\* KY11-LB manual 2.2 and 5.2.1: EXAM after EXAM and DEP after DEP take the next
\* word, two bytes on; EXAM after DEP, DEP after EXAM, and whichever comes after
\* an address was loaded or displayed take the word pointed to: the pointer and
\* the flags of the code send them where the manual has them go, whatever
\* other keys, steps, runs and boots come in between.  Not claimed, because the
\* code departs from the manual there: the step from a register's address, and
\* the walk after one, after CLR, or after the main loop named the address of a
\* stop while a flag was set, until an address is loaded or displayed again.
WalksAsPromised ==
  ~con.strayed /\ ~ByOne(con.addr) =>
    con.due = [exam |-> Moved(con, con.exam), dep |-> Moved(con, con.dep)]

\* START leaves BUS INIT, and BOOT everything, to the main loop: it has done
\* so before the CPU it started runs.
InitBeforeRun == at \in {"run", "step", "slice"} => ~con.init /\ ~con.boot

\* A machine switched off stays off: no request of the console outlives it.
OffStaysOff == at \in WebPlaces /\ ~powered => con.halted

\* Whenever the page asks, it is told of every stop, and of a HALT as one,
\* whatever it ordered and the console did since the last time; and of a stop
\* that the debugger ordered as that, unless it never asked about an earlier
\* HALT (see OrderTold).
HaltsTold ==
  /\ stopped = "halt" => PollReason = 2
  /\ stopped = "order" /\ ~missed => PollReason = 1
  /\ stopped = "none" <=> PollReason = 0

\* main_wasm.c:137, 338: a poll answers 1 for a stop that the debugger ordered.
OrderTold == stopped = "order" => PollReason = 1

\* A request for the programmer console stops the CPU, whatever the program
\* does and whatever other stop comes first.
RequestHalts == "HALT" \in asked ~> con.halted

\* main.c:1462, README:57: Ctrl-P is heard whatever the DL11 does.
OperatorHeard == (\E i \in DOMAIN stdin : stdin[i] = "HALT") ~> con.halted
=============================================================================
