------------------------------ MODULE WebMain ------------------------------
(***************************************************************************)
(* The WebAssembly front end (frontends/wasm/main_wasm.c): a frame of the  *)
(* browser runs the machine for a budget, and between frames the page      *)
(* calls the functions it exports.  They never run inside a frame.         *)
(***************************************************************************)
EXTENDS KY11

VARIABLES pending,      \* halt_pending
          spontaneous,  \* halt_spontaneous
          stepping,     \* step_instr or step_usteps of the machine is set
          powered       \* the page's power switch, which gates its buttons

\* History: why the CPU last stopped, until the page is told or orders
\* something else; and whether a HALT has gone by without the page being told.
VARIABLES stopped, missed

webvars == <<pending, spontaneous, stepping, powered, stopped, missed>>

WebInit ==
  /\ pending = FALSE /\ spontaneous = FALSE /\ stepping = FALSE /\ powered = FALSE
  /\ stopped = "none" /\ missed = FALSE

-----------------------------------------------------------------------------
(* A frame: wasm_loop *)

WebRequests(c) ==
  Then(IF c.boot THEN PowerOn([c EXCEPT !.boot = FALSE]) ELSE {c}, LAMBDA d : {InitDone(d)})

Frame ==
  /\ at = "frame"
  /\ \E c \in WebRequests(ConsoleTick(con)) : con' = c /\ at' = IF c.halted THEN "frame" ELSE "slice"
  /\ stepping' = (stepping /\ ~con.boot)
  /\ UNCHANGED <<pending, spontaneous, powered, stopped, missed>>

\* machine_run, to one of its ends.
SliceBudget ==
  /\ at = "slice" /\ at' = "frame"
  /\ \E c \in Ustep(con) : ~c.halted /\ con' = c
  /\ UNCHANGED webvars

SliceHaltQuiet ==
  /\ at = "slice" /\ at' = "frame"
  /\ \E c \in Ustep(con) : c.halted /\ con' = c
  /\ pending' = TRUE /\ stepping' = FALSE /\ stopped' = "halt"
  /\ UNCHANGED <<spontaneous, powered, missed>>
SliceHalt ==
  /\ at = "slice" /\ at' = "frame"
  /\ \E c \in Ustep(con) : c.halted /\ con' = c
  /\ pending' = TRUE /\ spontaneous' = TRUE /\ stepping' = FALSE /\ stopped' = "halt"
  /\ UNCHANGED <<powered, missed>>

\* A breakpoint, or the last instruction or micro-step of a step.
SliceStops ==
  /\ at = "slice" /\ at' = "frame"
  /\ \E c \in Ustep(con) : ~c.halted /\ (~c.mid \/ stepping) /\ con' = [c EXCEPT !.halted = TRUE]
  /\ pending' = TRUE /\ stepping' = FALSE /\ stopped' = "order"
  /\ missed' = (missed \/ stopped = "halt")
  /\ UNCHANGED <<spontaneous, powered>>

-----------------------------------------------------------------------------
(* Between frames: the power switch, the demo menu and the buttons *)

Calls == at = "frame" /\ at' = at

\* The notice of a stop is taken back; the reason of the stop is not.
Unnoticed ==
  /\ pending' = FALSE /\ stopped' = "none" /\ missed' = (missed \/ stopped = "halt")
  /\ UNCHANGED spontaneous

\* wasm_power_on, and wasm_reset, which a demo chosen on a running machine calls.
Start(c) ==
  /\ con' \in PowerOn(c) /\ stepping' = FALSE /\ Unnoticed

WebPowerOn  == Calls /\ ~powered /\ powered' = TRUE /\ Start(Cleared(con))
WebReset    == Calls /\ powered' = TRUE /\ Start(con)
WebPowerOff ==
  /\ Calls /\ powered /\ powered' = FALSE
  /\ con' = Cleared([con EXCEPT !.halted = TRUE]) /\ Unnoticed
  /\ UNCHANGED stepping

WebKey ==
  /\ Calls /\ powered
  /\ \E k \in Digits \cup 8..19 : con' \in Key(con, k)
  /\ UNCHANGED webvars

\* machine_halt, machine_resume and machine_step or machine_ustep.
WebHalt ==
  /\ Calls /\ powered /\ con' = [con EXCEPT !.halted = TRUE]
  /\ pending' = TRUE /\ stepping' = FALSE /\ stopped' = IF stopped = "halt" THEN stopped ELSE "order"
  /\ UNCHANGED <<spontaneous, powered, missed>>

WebRun ==
  /\ Calls /\ powered /\ con' = [con EXCEPT !.halted = FALSE]
  /\ stepping' \in BOOLEAN /\ Unnoticed
  /\ UNCHANGED powered

\* wasm_poll_halt, on every animation frame: it answers PollReason.
PollReason == IF ~pending THEN 0 ELSE IF spontaneous THEN 2 ELSE 1
WebPoll ==
  /\ Calls /\ powered
  /\ pending' = FALSE /\ spontaneous' = (spontaneous /\ ~pending)
  /\ stopped' = "none" /\ missed' = (missed /\ ~pending)
  /\ UNCHANGED <<con, stepping, powered>>

WebNext ==
  \/ Frame \/ SliceBudget \/ SliceHalt \/ SliceStops
  \/ WebPowerOn \/ WebReset \/ WebPowerOff \/ WebKey \/ WebHalt \/ WebRun \/ WebPoll
=============================================================================
