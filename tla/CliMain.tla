------------------------------ MODULE CliMain ------------------------------
(***************************************************************************)
(* The command line front end (frontends/cli/main.c): one thread that runs *)
(* the machine in slices, polls the operator's keys from the tick of the   *)
(* run loop, and serves the programmer console, the debugger and the logic *)
(* analyzer's console when the CPU is halted.  The terminal is the one     *)
(* ll-34 runs in (--tty stdio).  A character of stdin is one of the three  *)
(* operator keys, or any other.                                            *)
(***************************************************************************)
EXTENDS KY11, Sequences

CONSTANT TypedAhead   \* the characters that may wait in stdin

ASSUME TypedAheadAssumption == TypedAhead \in Nat

OperatorKeys == {"HALT", "DEBUG", "PROBE"}   \* Ctrl-P, Ctrl-E, Ctrl-L
Characters   == OperatorKeys \cup {"other"}

VARIABLES opener,  \* who opened the debugger: the console, or a served request
          stdin,   \* typed and not read
          push,    \* stdin_pushback holds a character (never an operator key)
          rx,      \* RCVR DONE of the DL11: the program has a character to read
          asked,   \* halt_requested, debug_requested, probe_requested
          hstop    \* host_stop of the machine

io      == <<stdin, push, rx>>
clivars == <<opener, stdin, push, rx, asked, hstop>>

\* enter_console_mode
EnterConsole(c) == Key(SetAddr(c, c.pc), KEY_EXAM)

CliInit ==
  /\ opener = "none"
  /\ stdin = <<>> /\ push = FALSE /\ rx = FALSE /\ asked = {} /\ hstop = FALSE

\* How the machine is started: from the boot ROM or a loaded program, with the
\* CPU halted (--lst), or as LAD and CNTRL-START would (--start).
CliPanels ==
  LET fromStart(c) == {InitDone(d) : d \in Then(Key(SetAddr(c, c.pc), KEY_CNTRL),
                                                 LAMBDA e : Key(e, KEY_START))}
  IN  Then(Panel, PowerOn) \cup Then(Panel, EnterConsole) \cup Then(Panel, fromStart)

-----------------------------------------------------------------------------
(* Running *)

Running == at \in {"run", "step"}

StartRun == at = "loop" /\ ~con.halted /\ at' = "run" /\ UNCHANGED <<con, opener, io, asked, hstop>>

\* machine_run comes back: in a run the stop is reported and served, in a
\* debugger step the CPU is halted in any case.
BackToLoop(c, where) ==
  IF at = "step" THEN con' = [c EXCEPT !.halted = TRUE] /\ at' = "debug" /\ UNCHANGED opener
  ELSE con' = c /\ at' = "loop" /\ UNCHANGED opener
Back(c, where) ==
  IF at = "step" THEN con' = [c EXCEPT !.halted = TRUE] /\ at' = "debug" /\ UNCHANGED opener
  ELSE con' = c /\ at' = where /\ opener' = IF where = "debug" THEN "loop" ELSE opener

\* A micro-step that no check of machine_run stops.
MicroStep ==
  /\ Running
  /\ \E c \in Ustep(con) :
       /\ ~c.halted /\ (c.mid \/ (at = "run" /\ ~hstop))
       /\ con' = c
  /\ UNCHANGED <<at, opener, io, asked, hstop>>

\* The instruction was a HALT.
StopHalt ==
  /\ at = "run" /\ at' = "loop"
  /\ \E c \in Ustep(con) : c.halted /\ con' \in EnterConsole(c)
  /\ UNCHANGED <<opener, io, asked, hstop>>

\* A breakpoint, or the end of a debugger's step.
StopBreak ==
  /\ Running
  /\ \E c \in Ustep(con) : (c.halted => at = "step") /\ ~c.mid /\ Back([c EXCEPT !.halted = TRUE], "debug")
  /\ UNCHANGED <<io, asked, hstop>>

\* The host stop, at the end of an instruction or when none has ended for long.
StopHost ==
  /\ Running /\ hstop /\ hstop' = FALSE
  /\ \/ at = "run" /\ \E c \in Ustep(con) : ~c.halted /\ ~c.mid /\ Back(c, "halt?")
     \/ con.mid /\ Back(con, "halt?")
  /\ UNCHANGED <<io, asked>>

StopBudget == Running /\ Back(con, "halt?") /\ UNCHANGED <<io, asked, hstop>>

\* The DL11 polls its terminal: the character pushed back, then stdin.  An
\* operator key sets its request and gives the DL11 nothing.
TerminalPoll(in, pushed, keys) ==
  LET ready == ~rx /\ (pushed \/ in # <<>>)
      ch    == IF pushed THEN "other" ELSE Head(in)
  IN  /\ rx'    = (rx \/ (ready /\ ch = "other"))
      /\ push'  = (pushed /\ ~ready)
      /\ stdin' = IF ready /\ ~pushed THEN Tail(in) ELSE in
      /\ asked' = IF ready /\ ch # "other" THEN keys \cup {ch} ELSE keys

\* The tick of machine_run: cli_host_tick, then the DL11.
HostPolls == asked = {} /\ ~push /\ stdin # <<>>
HostTick ==
  /\ Running
  /\ LET ch   == Head(stdin)
         keys == IF HostPolls /\ ch # "other" THEN {ch} ELSE asked
     IN  /\ TerminalPoll(IF HostPolls THEN Tail(stdin) ELSE stdin,
                         push \/ (HostPolls /\ ch = "other"), keys)
         /\ hstop' = (hstop \/ keys # {})
  /\ con' = ConsoleTick(con)
  /\ UNCHANGED <<at, opener>>

\* The program reads RCSR, which polls too, or takes the character.
ProgramPolls == Running /\ TerminalPoll(stdin, push, asked) /\ UNCHANGED <<con, at, opener, hstop>>
ProgramReads == Running /\ rx /\ rx' = FALSE /\ UNCHANGED <<con, at, opener, stdin, push, asked, hstop>>

-----------------------------------------------------------------------------
(* After a slice: the requests, unless the machine has still to stop *)

ServeHalt ==
  /\ at = "halt?" /\ at' = "debug?"
  /\ IF "HALT" \in asked /\ ~hstop
     THEN con' \in EnterConsole([con EXCEPT !.halted = TRUE]) /\ asked' = asked \ {"HALT"}
     ELSE UNCHANGED <<con, asked>>
  /\ UNCHANGED <<opener, io, hstop>>

Serve(key, here, next) ==
  /\ at = here
  /\ IF key \in asked /\ ~hstop
     THEN /\ con' = [con EXCEPT !.halted = TRUE] /\ asked' = asked \ {key}
          /\ at' = "debug" /\ opener' = next
     ELSE at' = next /\ UNCHANGED <<con, asked, opener>>
  /\ UNCHANGED <<io, hstop>>

ServeDebug == Serve("DEBUG", "debug?", "probe?")
ServeProbe == Serve("PROBE", "probe?", "end")
SliceEnds  == at = "end" /\ at' = "loop" /\ UNCHANGED <<con, opener, io, asked, hstop>>

-----------------------------------------------------------------------------
(* The debugger, and the analyzer's console, which has none of its commands. *)
(* What is typed there is lines of its own, and not in stdin.                *)

Resumes == opener \in {"probe?", "end"}   \* opened from a running program

\* open_consoles returns: to the programmer console, if the CPU is halted.
Close(c) ==
  /\ at = "debug" /\ at' = opener /\ opener' = "none"
  /\ IF c.halted THEN con' \in EnterConsole(c) ELSE con' = c
  /\ UNCHANGED <<io, asked, hstop>>

DebugGo     == Close([con EXCEPT !.halted = FALSE])
DebugQuit   == Close([con EXCEPT !.halted = ~Resumes])
DebugLeave  == Close(con)                              \* Ctrl-P
DebugStep   == /\ at = "debug" /\ at' = "step" /\ con' = [con EXCEPT !.halted = FALSE]
               /\ UNCHANGED <<opener, io, asked, hstop>>
DebugUstep  == /\ at = "debug" /\ \E c \in Ustep(con) : con' = [c EXCEPT !.halted = TRUE]
               /\ UNCHANGED <<at, opener, io, asked, hstop>>

-----------------------------------------------------------------------------
(* Halted: one turn of the main loop with the programmer console *)

CliKeys == Digits \cup {KEY_EXAM, KEY_DEP, KEY_LAD, KEY_START, KEY_CONT, KEY_HALT_SS, KEY_BOOT,
                        KEY_INIT, KEY_DIS_AD, KEY_CLR}

\* console_poll: CNTRL is prefixed, and an EXAM follows some keys.
CliKey(c, k) ==
  LET pressed == IF k \in {KEY_CONT, KEY_START, KEY_BOOT, KEY_INIT}
                 THEN Then(Key(c, KEY_CNTRL), LAMBDA d : Key(d, k)) ELSE Key(c, k)
      shown(d) == CASE ~d.halted              -> {d}
                    [] k = KEY_HALT_SS        -> EnterConsole(d)
                    [] k \in {KEY_LAD, KEY_DEP} -> Key(d, KEY_EXAM)
                    [] OTHER                  -> {d}
  IN  Then(pressed, shown)

\* The console's requests, at the end of the turn.
CliRequestsHalted(c) ==
  IF c.boot THEN PowerOn([c EXCEPT !.boot = FALSE]) ELSE {IF c.halted THEN InitDone(c) ELSE c}
CliRequests(c) ==
  IF c.boot THEN PowerOn([c EXCEPT !.boot = FALSE]) ELSE {InitDone(c)}

Typed == IF stdin = <<>> THEN "nothing" ELSE Head(stdin)

PanelTurn ==
  /\ at = "loop" /\ con.halted
  /\ LET c == ConsoleTick(con) IN
       \/ /\ Typed \in {"nothing", "HALT", "other"}   \* nothing, or no key of the panel
          /\ con' \in CliRequests(c) /\ UNCHANGED <<at, opener>>
       \/ /\ Typed = "other"
          /\ \E k \in CliKeys : con' \in Then(CliKey(c, k), CliRequests)
          /\ UNCHANGED <<at, opener>>
       \/ /\ Typed \in {"DEBUG", "PROBE"}
          /\ con' = c /\ at' = "debug" /\ opener' = "loop"
  /\ stdin' = IF stdin = <<>> THEN stdin ELSE Tail(stdin)
  /\ UNCHANGED <<push, rx, asked, hstop>>

CliThread ==
  \/ StartRun \/ MicroStep \/ StopHalt \/ StopBreak \/ StopHost \/ StopBudget
  \/ HostTick \/ ProgramPolls \/ ProgramReads
  \/ ServeHalt \/ ServeDebug \/ ServeProbe \/ SliceEnds
  \/ DebugGo \/ DebugQuit \/ DebugLeave \/ DebugStep \/ DebugUstep
  \/ PanelTurn

\* Someone types.
Type ==
  /\ Len(stdin) < TypedAhead /\ at # "debug"
  /\ \E ch \in Characters : stdin' = Append(stdin, ch)
  /\ UNCHANGED <<con, at, opener, push, rx, asked, hstop>>

CliNext == CliThread \/ Type

\* One thread, which always goes on; the counters of the tick, of the slice and
\* of an overdue host stop survive.
CliFairness ==
  /\ WF_<<panelvars, clivars>>(StartRun \/ ServeHalt \/ ServeDebug \/ ServeProbe \/ SliceEnds \/ PanelTurn)
  /\ SF_<<panelvars, clivars>>(HostTick) /\ SF_<<panelvars, clivars>>(StopHost)
  /\ SF_<<panelvars, clivars>>(StopBudget)
=============================================================================
