--------------------------- MODULE MachineRunWatch --------------------------
(***************************************************************************)
(* What an operator may expect of the run loop, stated with history        *)
(* variables that count, independently of the machine's own counters, what *)
(* has happened since the host asked to stop and since a step was ordered. *)
(***************************************************************************)
EXTENDS MachineRun

VARIABLES asking,   \* 0, or 1 + the micro-steps since the host asked to stop
          order,    \* what machine_step or machine_ustep was asked for, 0 if nothing
          unit,     \* "instruction" or "micro-step", what is ordered
          ended     \* the instructions that ended since, or the micro-steps made

watch == <<asking, order, unit, ended>>
wvars == <<loopvars, watch>>

WInit == LoopInit /\ asking = 0 /\ order = 0 /\ unit = "instruction" /\ ended = 0

\* A bounded count.
Up(n, bound) == IF n < bound THEN n + 1 ELSE n

Asks == ~hostStop /\ hostStop'
Counted == order > 0 /\ (unit = "micro-step" \/ phase' = "boundary")

\* A micro-step, of a run that stops with it or goes on.
WMicroStep ==
  /\ MicroStep
  /\ asking' = IF Asks THEN 1
               ELSE IF asking = 0 \/ halted' \/ ~hostStop' THEN 0 ELSE Up(asking, StopLimit + 1)
  /\ ended' = IF Counted THEN Up(ended, MaxCount + 1) ELSE ended
  /\ order' = IF halted' THEN 0 ELSE order
  /\ UNCHANGED unit

Order(n, what) == asking' = 0 /\ order' = n /\ unit' = what /\ ended' = 0
\* Forget the step that was ordered and the stop that was asked for.
Forget == Order(0, "instruction")

\* A step that was ordered stands when the console's keys halt the CPU and
\* let it go on: they say nothing of it to the machine.
WNext ==
  \/ WMicroStep
  \/ HaltsItself /\ Forget
  \/ (BudgetUsed \/ Run \/ Breakpoints \/ KeyCont \/ KeySingleStep) /\ UNCHANGED watch
  \/ KeyHalt /\ asking' = 0 /\ UNCHANGED <<order, unit, ended>>
  \/ (Halt \/ Resume \/ Boot) /\ Forget
  \/ \E n \in Counts : Step(n) /\ Order(n, "instruction")
  \/ \E n \in Counts : UStep(n) /\ Order(n, "micro-step")

WSpec == WInit /\ [][WNext]_wvars

\* A run has a positive budget, so that it makes a micro-step before it
\* returns; the main loop runs a machine that is not halted again.
WFairSpec == WSpec /\ SF_wvars(WMicroStep) /\ WF_wvars(Run /\ UNCHANGED watch)

-----------------------------------------------------------------------------
LoopTypeOK ==
  /\ halted \in BOOLEAN /\ phase \in Phases /\ pc \in Addresses
  /\ bp \in [Slots -> Addresses \cup {Free}]
  /\ stepInstr \in 0..MaxCount /\ stepUsteps \in 0..MaxCount
  /\ tickCounter \in 0..(TickUsteps - 1)
  /\ hostStop \in BOOLEAN /\ hostStopUsteps \in 0..StopLimit
  /\ stop \in Stops \cup {"running"}

\* machine_bp_set never gives one address two slots, so that deleting the
\* slot machine_bp_find returns removes the breakpoint.
BreakpointsDistinct ==
  \A s, t \in Slots : bp[s] = bp[t] /\ bp[s] # Free => s = t

\* A run stops for a step only if one was ordered: machine_step(n) after the
\* n-th instruction and not after another, machine_ustep(n) after no fewer than n
\* micro-steps (the one that ends with a host stop is not counted).  So it is
\* across the budget slices, the host stops and the console's HALT, CONT and
\* single-step keys that interrupt the order on the way, and after any halt,
\* resume or boot that cancels it.
StepsExactly ==
  [][Running => /\ order > 0 /\ unit = "instruction" => ended' <= order
                /\ stop' = "STEP" => /\ order > 0
                                     /\ unit = "instruction" => ended' = order
                                     /\ unit = "micro-step" => ended' >= order]_wvars

HostStops == Running /\ stop' = "HOST"

\* The host's request stops a run in the middle of an instruction only when
\* none ended for StopLimit micro-steps since it was made (machine_run).
StopsAtInstructionEnd ==
  [][HostStops /\ asking > 0 /\ phase' = "instruction" => asking >= StopLimit]_wvars

\* Once the host has asked to stop, the run stops, in a WAIT too.
HostStopHonoured == (hostStop /\ ~halted) ~> (~hostStop \/ halted)

\* machine.h:56-58: host_tick's answer stops the run it was given in.  So a run
\* is not stopped for the host unless the host asked since the machine was set
\* running.
HostStopsThisRun == [][HostStops => asking > 0]_wvars
=============================================================================
