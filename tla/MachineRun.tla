----------------------------- MODULE MachineRun -----------------------------
(***************************************************************************)
(* The run loop of the machine (machine.c): one iteration of machine_run   *)
(* is one micro-step and the checks that follow it, in the code's order:   *)
(* halt, breakpoint, instruction count, host stop, overdue host stop,      *)
(* micro-step count, device tick.  What the CPU computes is left open; the *)
(* loop only sees whether it halted and whether it is between two          *)
(* instructions (MPC 000 before the fetch).  The front end calls the       *)
(* machine between two runs, and so do the keys of the programmer console. *)
(***************************************************************************)
EXTENDS Integers, FiniteSets

CONSTANTS Addresses,   \* PC values
          Slots,       \* breakpoint slots, MACHINE_MAX_BP of them
          Free,        \* an unused slot
          MaxCount,    \* the front end asks for steps of 1 to MaxCount
          TickUsteps,  \* MACHINE_TICK_USTEPS
          StopLimit    \* micro-steps a host stop waits for a boundary (100000)

ASSUME SlotsAssumption  == IsFiniteSet(Slots) /\ Slots \subseteq Nat
ASSUME FreeAssumption   == Free \notin Addresses
ASSUME CountAssumption  == MaxCount \in Nat \ {0}
ASSUME LimitsAssumption == TickUsteps \in Nat \ {0} /\ StopLimit \in Nat \ {0}

VARIABLES halted,      \* cpu.halted
          phase,       \* "boundary" (MPC 000, IR not valid) or "instruction"
          pc,          \* at a boundary, the address of the next instruction
          bp,          \* bp_addr where bp_used, else Free
          stepInstr, stepUsteps, tickCounter, hostStop, hostStopUsteps,
          stop         \* "running" inside machine_run, else what it last returned

control == <<stepInstr, stepUsteps, tickCounter, hostStop, hostStopUsteps>>
loopvars    == <<halted, phase, pc, bp, control, stop>>

Counts == 1..MaxCount
Phases == {"boundary", "instruction"}
Stops  == {"BUDGET", "HALT", "BREAKPOINT", "STEP", "HOST"}

LoopInit ==
  /\ halted = FALSE /\ phase = "boundary" /\ pc \in Addresses
  /\ bp = [s \in Slots |-> Free]
  /\ stepInstr = 0 /\ stepUsteps = 0 /\ tickCounter = 0
  /\ hostStop = FALSE /\ hostStopUsteps = 0
  /\ stop = "BUDGET"

\* Mutant of Down: a counter that is not running counts too.
DownAlways(n) == n - 1

Down(n) == IF n > 0 THEN n - 1 ELSE 0

\* stop_halted
StopHalted == halted' = TRUE /\ stepInstr' = 0 /\ stepUsteps' = 0
Return(why) == stop' = why

-----------------------------------------------------------------------------
(* machine_run *)

Running == stop = "running"

\* A micro-step that ends an instruction, or one that does not.
EndsInstruction == phase = "instruction" /\ phase' = "boundary" /\ pc' \in Addresses
GoesOn          == phase' = "instruction" /\ UNCHANGED pc
AtBreakpoint    == \E s \in Slots : bp[s] = pc'

\* The CPU halts by itself: HALT, a double bus error.
HaltsItself ==
  /\ Running /\ ~halted /\ (EndsInstruction \/ GoesOn)
  /\ StopHalted /\ Return("HALT")
  /\ UNCHANGED <<bp, tickCounter, hostStop, hostStopUsteps>>

ReachesBreakpoint ==
  /\ Running /\ ~halted /\ EndsInstruction /\ AtBreakpoint
  /\ StopHalted /\ Return("BREAKPOINT")
  /\ UNCHANGED <<bp, tickCounter, hostStop, hostStopUsteps>>

LastInstruction ==
  /\ Running /\ ~halted /\ EndsInstruction /\ ~AtBreakpoint
  /\ stepInstr = 1
  /\ StopHalted /\ Return("STEP")
  /\ UNCHANGED <<bp, tickCounter, hostStop, hostStopUsteps>>

\* Mutant of StopsForHost: the instruction that just ended is not counted.
StopsForHostUncounted ==
  /\ Running /\ ~halted /\ EndsInstruction /\ ~AtBreakpoint
  /\ stepInstr # 1 /\ hostStop
  /\ hostStop' = FALSE
  /\ Return("HOST")
  /\ UNCHANGED <<halted, bp, stepInstr, stepUsteps, tickCounter, hostStopUsteps>>

\* The host asked to stop: the run ends with the instruction ...
StopsForHost ==
  /\ Running /\ ~halted /\ EndsInstruction /\ ~AtBreakpoint
  /\ stepInstr # 1 /\ hostStop
  /\ hostStop' = FALSE /\ stepInstr' = Down(stepInstr)
  /\ Return("HOST")
  /\ UNCHANGED <<halted, bp, stepUsteps, tickCounter, hostStopUsteps>>

Overdue == hostStop /\ hostStopUsteps + 1 >= StopLimit

\* ... or, when none ends (WAIT), after StopLimit micro-steps.
StopsOverdue ==
  /\ Running /\ ~halted /\ GoesOn /\ Overdue
  /\ hostStop' = FALSE /\ hostStopUsteps' = hostStopUsteps + 1
  /\ Return("HOST")
  /\ UNCHANGED <<halted, bp, stepInstr, stepUsteps, tickCounter>>

\* No check before the micro-step count stopped the run.
RunsOn ==
  /\ Running /\ ~halted
  /\ \/ EndsInstruction /\ ~AtBreakpoint /\ stepInstr # 1 /\ ~hostStop
     \/ GoesOn /\ ~Overdue

Waited == IF hostStop THEN hostStopUsteps + 1 ELSE hostStopUsteps

LastUstep ==
  /\ RunsOn /\ stepUsteps = 1
  /\ StopHalted /\ Return("STEP")
  /\ hostStopUsteps' = Waited
  /\ UNCHANGED <<bp, tickCounter, hostStop>>

CountsSteps ==
  /\ stepInstr' = IF phase' = "boundary" THEN Down(stepInstr) ELSE stepInstr
  /\ stepUsteps' = Down(stepUsteps)

Ustep ==
  /\ RunsOn /\ stepUsteps # 1
  /\ CountsSteps
  /\ tickCounter + 1 < TickUsteps
  /\ tickCounter' = tickCounter + 1
  /\ hostStopUsteps' = Waited
  /\ UNCHANGED <<halted, bp, hostStop, stop>>

\* Mutants of UstepAndTick: every poll that asks to stop starts the wait again;
\* none does.
UstepAndTickReasks ==
  /\ RunsOn /\ stepUsteps # 1
  /\ CountsSteps
  /\ tickCounter + 1 >= TickUsteps
  /\ tickCounter' = 0
  /\ \/ UNCHANGED hostStop /\ hostStopUsteps' = Waited
     \/ hostStop' = TRUE /\ hostStopUsteps' = 0
  /\ UNCHANGED <<halted, bp, stop>>

UstepAndTickKeepsWait ==
  /\ RunsOn /\ stepUsteps # 1
  /\ CountsSteps
  /\ tickCounter + 1 >= TickUsteps
  /\ tickCounter' = 0
  /\ \/ UNCHANGED hostStop /\ hostStopUsteps' = Waited
     \/ ~hostStop /\ hostStop' = TRUE /\ UNCHANGED hostStopUsteps
  /\ UNCHANGED <<halted, bp, stop>>

\* The devices are ticked, and the host's I/O is polled: it may ask to stop.
UstepAndTick ==
  /\ RunsOn /\ stepUsteps # 1
  /\ CountsSteps
  /\ tickCounter + 1 >= TickUsteps
  /\ tickCounter' = 0
  /\ \/ UNCHANGED hostStop /\ hostStopUsteps' = Waited
     \/ ~hostStop /\ hostStop' = TRUE /\ hostStopUsteps' = 0
  /\ UNCHANGED <<halted, bp, stop>>

\* The budget of simulated time is used up.
BudgetUsed == Running /\ Return("BUDGET") /\ UNCHANGED <<halted, phase, pc, bp, control>>

MicroStep ==
  \/ ReachesBreakpoint \/ LastInstruction \/ StopsForHost \/ StopsOverdue
  \/ LastUstep \/ Ustep \/ UstepAndTick

-----------------------------------------------------------------------------
(* Between two runs *)

Idle == ~Running

\* The front end's main loop runs the machine unless it is halted.
Run == Idle /\ ~halted /\ Return("running") /\ UNCHANGED <<halted, phase, pc, bp, control>>

\* Mutant of Halt: the counters of a step under way are left running.
HaltKeepsSteps == Idle /\ halted' = TRUE
        /\ UNCHANGED <<phase, pc, bp, control, stop>>

Halt == Idle /\ StopHalted
        /\ UNCHANGED <<phase, pc, bp, tickCounter, hostStop, hostStopUsteps, stop>>

\* machine_resume, machine_step, machine_ustep
Command(instrs, usteps) ==
  /\ Idle
  /\ halted' = FALSE /\ stepInstr' = instrs /\ stepUsteps' = usteps
  /\ UNCHANGED <<phase, pc, bp, tickCounter, hostStop, hostStopUsteps, stop>>

Resume  == Command(0, 0)
Step(n) == Command(n, 0)
UStep(n) == Command(0, n)

\* machine_cpu_reset, and machine_power_on: the boot ROM's PC
Boot ==
  /\ Idle
  /\ halted' = FALSE /\ phase' = "boundary" /\ pc' \in Addresses
  /\ stepInstr' = 0 /\ stepUsteps' = 0
  /\ UNCHANGED <<bp, tickCounter, hostStop, hostStopUsteps, stop>>

\* The console's CNTRL HALT and CONT keys, and the debugger's g, set
\* cpu.halted themselves.
KeyHalt == Idle /\ ~halted /\ halted' = TRUE /\ UNCHANGED <<phase, pc, bp, control, stop>>
KeyCont == Idle /\ halted /\ halted' = FALSE /\ UNCHANGED <<phase, pc, bp, control, stop>>

\* HALT/SS while halted: micro-steps to the next boundary, outside machine_run.
KeySingleStep ==
  /\ Idle /\ halted
  /\ phase' \in Phases /\ pc' \in Addresses
  /\ UNCHANGED <<halted, bp, control, stop>>

BpFind(a) == {s \in Slots : bp[s] = a}

\* Mutant of BpSet: the address is not looked for first.
BpSetTwice(a) ==
  \E s \in BpFind(Free) : (\A t \in BpFind(Free) : s <= t) /\ bp' = [bp EXCEPT ![s] = a]

\* machine_bp_set: nothing changes if the address is set or no slot is free.
BpSet(a) ==
  /\ BpFind(a) = {}
  /\ \E s \in BpFind(Free) : (\A t \in BpFind(Free) : s <= t) /\ bp' = [bp EXCEPT ![s] = a]

BpDel(s) == bp[s] # Free /\ bp' = [bp EXCEPT ![s] = Free]
BpClear  == bp' = [s \in Slots |-> Free]

Breakpoints ==
  /\ Idle
  /\ (\E a \in Addresses : BpSet(a)) \/ (\E s \in Slots : BpDel(s)) \/ BpClear
  /\ UNCHANGED <<halted, phase, pc, control, stop>>

LoopNext ==
  \/ MicroStep \/ HaltsItself \/ BudgetUsed
  \/ Run \/ Halt \/ Resume \/ (\E n \in Counts : Step(n) \/ UStep(n)) \/ Boot
  \/ KeyHalt \/ KeyCont \/ KeySingleStep \/ Breakpoints

LoopSpec == LoopInit /\ [][LoopNext]_loopvars
=============================================================================
