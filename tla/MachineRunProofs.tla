-------------------------- MODULE MachineRunProofs --------------------------
(***************************************************************************)
(* Proofs about the run loop, for any step counts, tick interval, wait for *)
(* an instruction boundary and breakpoint table.                           *)
(***************************************************************************)
EXTENDS MachineRunWatch, TLAPS

-----------------------------------------------------------------------------
\* The history variables' types; an ordered step counts down what is left of
\* it, in the counter of its unit alone, and no counter runs without an order;
\* and the wait for a stop that the host asked for is the loop's own, which has
\* not run out.
WatchTypeOK ==
  /\ asking \in Nat /\ order \in 0..MaxCount /\ ended \in 0..(MaxCount + 1)
  /\ unit \in {"instruction", "micro-step"}

OrderCounted ==
  /\ order = 0 => stepInstr = 0 /\ stepUsteps = 0
  /\ order > 0 /\ unit = "instruction" =>
       stepUsteps = 0 /\ ended < order /\ stepInstr = order - ended
  /\ order > 0 /\ unit = "micro-step" =>
       stepInstr = 0 /\ stepUsteps > 0 /\ order <= ended + stepUsteps

WaitCounted ==
  /\ asking > 0 => hostStop /\ asking = hostStopUsteps + 1
  /\ hostStop => hostStopUsteps < StopLimit

LoopInv == LoopTypeOK /\ WatchTypeOK /\ OrderCounted /\ WaitCounted

\* Every way a micro-step of a run leaves the counters.
LEMMA MicroStepType ==
  ASSUME LoopInv, WMicroStep PROVE LoopTypeOK'
<1> USE CountAssumption, LimitsAssumption
        DEF LoopInv, LoopTypeOK, EndsInstruction, GoesOn, RunsOn, WMicroStep, MicroStep,
            ReachesBreakpoint, LastInstruction, StopsForHost, StopsOverdue, LastUstep, Ustep,
            UstepAndTick
<1>1. (phase \in Phases /\ pc \in Addresses)'
  BY DEF Phases
<1>2. (bp \in [Slots -> Addresses \cup {Free}])'
  OBVIOUS
<1>3. (halted \in BOOLEAN /\ hostStop \in BOOLEAN)'
  BY DEF StopHalted
<1>4. (stepInstr \in 0..MaxCount /\ stepUsteps \in 0..MaxCount)'
  BY DEF StopHalted, CountsSteps, Down
<1>5. (tickCounter \in 0..(TickUsteps - 1))'
  OBVIOUS
<1>6. ASSUME hostStop, ~Overdue PROVE Waited \in 0..StopLimit
  BY <1>6 DEF Waited, Overdue
<1>7. ASSUME ~hostStop PROVE Waited \in 0..StopLimit
  BY <1>7 DEF Waited
<1>8. (hostStopUsteps \in 0..StopLimit)'
  BY <1>6, <1>7 DEF WaitCounted, Overdue
<1>9. (stop \in Stops \cup {"running"})'
  BY DEF Return, Stops
<1> QED BY <1>1, <1>2, <1>3, <1>4, <1>5, <1>8, <1>9

\* A micro-step keeps an ordered step's count in agreement with stepInstr.
LEMMA MicroStepOrder ==
  ASSUME LoopInv, WMicroStep
  PROVE  OrderCounted' /\ (order \in 0..MaxCount /\ ended \in 0..(MaxCount + 1))'
<1> USE CountAssumption, LimitsAssumption
        DEF LoopInv, LoopTypeOK, WatchTypeOK, WMicroStep, Up
<1>1. order' \in 0..MaxCount /\ ended' \in 0..(MaxCount + 1)
  OBVIOUS
<1>2. CASE halted'
  <2>1. StopHalted
    BY <1>2 DEF MicroStep, ReachesBreakpoint, LastInstruction, StopsForHost, StopsOverdue, LastUstep,
                Ustep, UstepAndTick, RunsOn
  <2> QED BY <1>1, <1>2, <2>1 DEF OrderCounted, StopHalted
<1>3. CASE ~halted' /\ order > 0
  <2> USE DEF OrderCounted, Counted, EndsInstruction, GoesOn, StopHalted, Down
  <2>1. CASE StopsForHost
    BY <1>3, <2>1 DEF StopsForHost
  <2>2. CASE StopsOverdue
    BY <1>3, <2>2 DEF StopsOverdue
  <2>3. CASE Ustep \/ UstepAndTick
    BY <1>3, <2>3 DEF Ustep, UstepAndTick, CountsSteps, RunsOn
  <2> QED BY <1>3, <2>1, <2>2, <2>3 DEF MicroStep, ReachesBreakpoint, LastInstruction, LastUstep
<1>4. CASE ~halted' /\ order = 0
  <2>1. stepInstr' = 0 /\ stepUsteps' = 0
    BY <1>4 DEF OrderCounted, MicroStep, ReachesBreakpoint, LastInstruction, StopsForHost, StopsOverdue,
                LastUstep, Ustep, UstepAndTick, StopHalted, CountsSteps, Down
  <2> QED BY <1>4, <2>1 DEF OrderCounted
<1> QED BY <1>1, <1>2, <1>3, <1>4

\* A micro-step that does not stop leaves the wait below its limit.
LEMMA MicroStepWait ==
  ASSUME LoopInv, WMicroStep PROVE WaitCounted' /\ asking' \in Nat
<1> USE CountAssumption, LimitsAssumption
        DEF LoopInv, LoopTypeOK, WatchTypeOK, WMicroStep, Up, Asks, WaitCounted
<1>1. CASE ReachesBreakpoint \/ LastInstruction
  BY <1>1 DEF ReachesBreakpoint, LastInstruction, StopHalted
<1>2. CASE StopsForHost \/ StopsOverdue
  BY <1>2 DEF StopsForHost, StopsOverdue
<1>3. ASSUME RunsOn, hostStop PROVE Waited = hostStopUsteps + 1 /\ Waited < StopLimit
  BY <1>3 DEF RunsOn, Overdue, Waited
<1>4. CASE LastUstep
  BY <1>3, <1>4 DEF LastUstep, StopHalted
<1>5. CASE Ustep
  BY <1>3, <1>5 DEF Ustep
<1>6. CASE UstepAndTick
  BY <1>3, <1>6 DEF UstepAndTick
<1> QED BY <1>1, <1>2, <1>4, <1>5, <1>6 DEF MicroStep

-----------------------------------------------------------------------------
\* At power-on nothing is ordered and nothing has been asked.
LEMMA LoopInitInv == WInit => LoopInv
<1> SUFFICES ASSUME WInit PROVE LoopInv
  OBVIOUS
<1> USE CountAssumption, LimitsAssumption DEF WInit, LoopInit, LoopTypeOK, WatchTypeOK
<1>1. stepInstr \in 0..MaxCount /\ stepUsteps \in 0..MaxCount /\ tickCounter \in 0..(TickUsteps - 1)
      /\ hostStopUsteps \in 0..StopLimit
  OBVIOUS
<1>2. LoopTypeOK
  BY <1>1, Zenon DEF Phases, Stops
<1>3. WatchTypeOK
  OBVIOUS
<1>4. OrderCounted /\ WaitCounted
  BY DEF OrderCounted, WaitCounted
<1> QED BY <1>2, <1>3, <1>4 DEF LoopInv

\* Outside the run loop's micro-steps a counter is set, cleared or left alone.
LEMMA CommandType ==
  ASSUME LoopInv, [WNext]_wvars, ~WMicroStep PROVE LoopTypeOK' /\ WatchTypeOK'
<1> USE CountAssumption, LimitsAssumption
        DEF LoopInv, LoopTypeOK, WatchTypeOK, WNext, HaltsItself, BudgetUsed, Run, Breakpoints,
            KeyCont, KeySingleStep, Halt, Resume, KeyHalt, Boot, Step, UStep, Command,
            EndsInstruction, GoesOn, control, wvars, loopvars, watch, Forget, Order, Counts
<1>1. (phase \in Phases /\ pc \in Addresses)'
  BY DEF Phases
<1>2. (bp \in [Slots -> Addresses \cup {Free}])'
  BY DEF BpSet, BpDel, BpClear
<1>3. (halted \in BOOLEAN /\ hostStop \in BOOLEAN)'
  BY DEF StopHalted
<1>4. (stepInstr \in 0..MaxCount /\ stepUsteps \in 0..MaxCount)'
  BY DEF StopHalted
<1>5. (tickCounter \in 0..(TickUsteps - 1) /\ hostStopUsteps \in 0..StopLimit)'
  OBVIOUS
<1>6. (stop \in Stops \cup {"running"})'
  BY DEF Return, Stops
<1>7. WatchTypeOK'
  OBVIOUS
<1> QED BY <1>1, <1>2, <1>3, <1>4, <1>5, <1>6, <1>7

\* Every step of the run loop, and every command between its calls.
LEMMA LoopStepInv == LoopInv /\ [WNext]_wvars => LoopInv'
<1> SUFFICES ASSUME LoopInv, [WNext]_wvars PROVE LoopInv'
  OBVIOUS
<1>1. CASE WMicroStep
  <2>1. LoopTypeOK' /\ OrderCounted' /\ WaitCounted'
    BY <1>1, MicroStepType, MicroStepOrder, MicroStepWait
  <2>2. WatchTypeOK'
    BY <1>1, MicroStepOrder, MicroStepWait DEF WatchTypeOK, LoopInv, WMicroStep
  <2> QED BY <2>1, <2>2 DEF LoopInv
<1>2. CASE ~WMicroStep
  <2> USE <1>2, CountAssumption, LimitsAssumption
          DEF LoopInv, LoopTypeOK, WatchTypeOK, WNext, HaltsItself, BudgetUsed, Run, Breakpoints,
              KeyCont, KeySingleStep, Halt, Resume, KeyHalt, Boot, Step, UStep, Command,
              StopHalted, control, wvars, loopvars, watch, Forget, Order, Counts
  <2>1. LoopTypeOK' /\ WatchTypeOK'
    BY CommandType
  <2>2. OrderCounted'
    BY DEF OrderCounted
  <2>3. WaitCounted'
    BY DEF WaitCounted
  <2> QED BY <2>1, <2>2, <2>3
<1> QED BY <1>1, <1>2

\* The invariant holds in every reachable state.
LEMMA LoopInvAlways == WSpec => []LoopInv
  BY LoopInitInv, LoopStepInv, PTL DEF WSpec

\* The run loop's counters stay in their ranges: none is counted down below
\* zero, no tick is late, and no host stop waits longer than the limit.
THEOREM LoopTypeCorrect == WSpec => []LoopTypeOK
<1>1. LoopInv => LoopTypeOK
  BY DEF LoopInv
<1> QED BY <1>1, LoopInvAlways, PTL

\* machine_bp_set, machine_bp_del and machine_bp_clear, in any order, leave no
\* address in two slots.
THEOREM Distinct == WSpec => []BreakpointsDistinct
<1>1. WInit => BreakpointsDistinct
  BY DEF WInit, LoopInit, BreakpointsDistinct
<1>2. LoopInv /\ BreakpointsDistinct /\ [WNext]_wvars => BreakpointsDistinct'
  <2> SUFFICES ASSUME LoopInv, BreakpointsDistinct, [WNext]_wvars PROVE BreakpointsDistinct'
    OBVIOUS
  <2>1. bp \in [Slots -> Addresses \cup {Free}]
    BY DEF LoopInv, LoopTypeOK
  <2>2. ASSUME NEW a \in Addresses, BpSet(a) PROVE BreakpointsDistinct'
    BY <2>1, <2>2, FreeAssumption DEF BpSet, BpFind, BreakpointsDistinct
  <2>3. ASSUME NEW s \in Slots, BpDel(s) PROVE BreakpointsDistinct'
    BY <2>1, <2>3 DEF BpDel, BreakpointsDistinct
  <2>4. CASE BpClear
    BY <2>4 DEF BpClear, BreakpointsDistinct
  <2>5. CASE UNCHANGED bp
    BY <2>5 DEF BreakpointsDistinct
  <2>6. CASE WMicroStep
    BY <2>5, <2>6 DEF WMicroStep, MicroStep, ReachesBreakpoint, LastInstruction, StopsForHost,
                      StopsOverdue, LastUstep, Ustep, UstepAndTick
  <2> QED BY <2>2, <2>3, <2>4, <2>5, <2>6
          DEF WNext, HaltsItself, BudgetUsed, Run, Breakpoints, KeyCont, KeySingleStep, Halt, Resume,
              KeyHalt, Boot, Step, UStep, Command, control, wvars, loopvars
<1> QED BY <1>1, <1>2, LoopInvAlways, PTL DEF WSpec

\* A run stops for a step only when one was ordered and is done: a step of n
\* instructions after the n-th, however often the budget, the host or the
\* console's keys interrupt it.
THEOREM StepsCounted == WSpec => StepsExactly
<1> DEFINE Exact == /\ order > 0 /\ unit = "instruction" => ended' <= order
                    /\ stop' = "STEP" => /\ order > 0
                                         /\ unit = "instruction" => ended' = order
                                         /\ unit = "micro-step" => ended' >= order
<1>1. LoopInv /\ [WNext]_wvars => [Running => Exact]_wvars
  <2> SUFFICES ASSUME LoopInv, WNext, Running PROVE Exact
    OBVIOUS
  <2> USE CountAssumption, LimitsAssumption
          DEF LoopInv, LoopTypeOK, WatchTypeOK, OrderCounted, Running, Idle
  <2>1. CASE WMicroStep
    <3> USE <2>1 DEF WMicroStep, Up, Counted
    <3>1. CASE LastInstruction
      BY <3>1 DEF LastInstruction, EndsInstruction
    <3>2. CASE ReachesBreakpoint \/ StopsForHost \/ StopsOverdue
      BY <3>2 DEF ReachesBreakpoint, StopsForHost, StopsOverdue, Return, EndsInstruction, GoesOn
    <3>3. CASE Ustep \/ UstepAndTick
      BY <3>3 DEF Ustep, UstepAndTick
    <3>4. CASE LastUstep
      BY <3>4 DEF LastUstep, Return
    <3> QED BY <3>1, <3>2, <3>3, <3>4 DEF MicroStep
  <2>2. CASE HaltsItself /\ Forget
    BY <2>2 DEF HaltsItself, Forget, Order, Return
  <2>3. CASE BudgetUsed /\ UNCHANGED watch
    BY <2>3 DEF BudgetUsed, Return, watch
  <2> QED BY <2>1, <2>2, <2>3
          DEF WNext, Run, Breakpoints, KeyCont, KeySingleStep, Halt, Resume, KeyHalt, Boot, Step, UStep,
              Command
<1> QED BY <1>1, LoopInvAlways, PTL DEF WSpec, StepsExactly

\* A host stop cuts an instruction short only when none has ended for the whole
\* wait.
THEOREM StopsLate == WSpec => StopsAtInstructionEnd
<1>1. LoopInv /\ [WNext]_wvars
      => [HostStops /\ asking > 0 /\ phase' = "instruction" => asking >= StopLimit]_wvars
  <2> SUFFICES ASSUME LoopInv, WNext, HostStops, asking > 0, phase' = "instruction"
               PROVE  asking >= StopLimit
    OBVIOUS
  <2> USE CountAssumption, LimitsAssumption
          DEF LoopInv, LoopTypeOK, WatchTypeOK, WaitCounted, HostStops, Running, Idle
  <2>1. CASE StopsOverdue
    BY <2>1 DEF StopsOverdue, Overdue
  <2>2. CASE StopsForHost
    BY <2>2 DEF StopsForHost, EndsInstruction
  <2> QED BY <2>1, <2>2
          DEF WNext, WMicroStep, MicroStep, ReachesBreakpoint, LastInstruction, LastUstep, Ustep,
              UstepAndTick, HaltsItself, BudgetUsed, Return, Run, Breakpoints, KeyCont,
              KeySingleStep, Halt, Resume, KeyHalt, Boot, Step, UStep, Command
<1> QED BY <1>1, LoopInvAlways, PTL DEF WSpec, StopsAtInstructionEnd
=============================================================================
