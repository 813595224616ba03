-------------------------------- MODULE KY11 --------------------------------
(***************************************************************************)
(* The KY11-LB programmer's console (ky11/console_sim.c), and the CPU as   *)
(* it sees it.  A key acts at once: each is an operator from the state of  *)
(* the panel to the states it may leave.  The display and the indicators   *)
(* that nothing reads back (BUS ERR, SR DISP) are left out; so are the     *)
(* contents of memory, of which EXAM may find any.                         *)
(***************************************************************************)
EXTENDS Integers, FiniteSets

CONSTANTS BusSize,    \* 2^18, the values of the address pointer and of temporary
          WordSize,   \* 2^16
          Radix,      \* 8
          Digits,     \* the number keys used
          RegBase,    \* 777700, the console's address of R0
          Regs,       \* the number of registers: the last is the PC
          Backed,     \* the even addresses that answer on the bus
          Contents,   \* the words EXAM may find there
          Program     \* the values of PC programs run at

ASSUME PanelWidthAssumption ==
  /\ WordSize \in Nat \ {0} /\ BusSize \in Nat /\ BusSize >= WordSize
  /\ Radix \in Nat /\ Digits \subseteq 0..(Radix - 1)
ASSUME PanelBusAssumption ==
  /\ RegBase \in 0..(BusSize - 1) /\ Regs \in Nat \ {0} /\ RegBase + Regs <= BusSize
  /\ Backed \subseteq 0..(BusSize - 1)
  /\ Contents \subseteq 0..(WordSize - 1) /\ Program \subseteq 0..(WordSize - 1)

\* The panel, with the CPU: halted, mid (an instruction is under way, mpc # 0)
\* and pc.  History: due is where the manual has the next EXAM and the next DEP
\* go, worked out from the words it had the keys before them take, without
\* the panel's pointer and flags; strayed, that the code is known to have left
\* the manual's walk since an address was last loaded or displayed.
VARIABLES con,
          at    \* where the thread of the front end is

panelvars == <<con, at>>

\* The keys, numbered as in console.h: 0 to 7 are the digits.
KEY_HALT_SS == 8
KEY_CONT == 9
KEY_BOOT == 10
KEY_START == 11
KEY_DEP == 12
KEY_EXAM == 13
KEY_INIT == 14
KEY_CLR == 15
KEY_DIS_AD == 16
KEY_LAD == 17
KEY_LSR == 18
KEY_CNTRL == 19
DueAt(a) == [exam |-> a, dep |-> a]
Owing(c, due, strayed) ==
  [c EXCEPT !.due = IF strayed THEN DueAt(0) ELSE due, !.strayed = strayed]

ClearedButRequests(c) == [c EXCEPT !.tmp = 0, !.addr = 0, !.exam = FALSE, !.dep = FALSE, !.maint = FALSE,
                                   !.due = DueAt(0), !.strayed = FALSE]
\* console_init and console_reset: all but the CPU and the switch register.
Cleared(c) ==
  [c EXCEPT !.tmp = 0, !.addr = 0, !.exam = FALSE, !.dep = FALSE, !.maint = FALSE,
            !.cntrl = FALSE, !.run = FALSE, !.boot = FALSE, !.init = FALSE,
            !.due = DueAt(0), !.strayed = FALSE]

Then(states, Op(_)) == UNION {Op(c) : c \in states}

R7 == RegBase + Regs - 1
IsRegister(a) == a \in RegBase..R7
Answers(a) == IsRegister(a) \/ (a \div 2) * 2 \in Backed
\* bus_master_read: 0 when nothing answers.
Reads(c, a) == IF a = R7 THEN {c.pc} ELSE IF Answers(a) THEN Contents ELSE {0}

\* kd11ea_ustep: the instruction goes on, ends, or was a HALT.
Ustep(c) ==
  UNION {{[c EXCEPT !.pc = a, !.mid = TRUE], [c EXCEPT !.pc = a, !.mid = FALSE],
          [c EXCEPT !.pc = a, !.mid = FALSE, !.halted = TRUE]} : a \in Program}

\* read_and_display_pc, through the bus.
ShowPc(c) == [c EXCEPT !.tmp = c.pc]

-----------------------------------------------------------------------------
(* The keys of console mode *)

DigitWide(c, d) == {[c EXCEPT !.tmp = @ * Radix + d]}
Digit(c, d) == {[c EXCEPT !.tmp = (@ * Radix + d) % BusSize]}

\* The manual's CLR leaves the EXAM and DEP flags alone (5.2.1).
Clr(c) == {Owing([c EXCEPT !.tmp = 0, !.exam = FALSE, !.dep = FALSE, !.maint = FALSE],
                 c.due, c.strayed \/ c.exam \/ c.dep)}

Lad(c) == {[c EXCEPT !.addr = c.tmp, !.tmp = 0, !.exam = FALSE, !.dep = FALSE,
                     !.due = DueAt(c.tmp), !.strayed = FALSE]}

Lsr(c) == {[c EXCEPT !.sr = c.tmp % WordSize]}

DisAdKeeps(c) == {[c EXCEPT !.due = DueAt(c.addr), !.strayed = FALSE]}
DisAd(c) == {[c EXCEPT !.exam = FALSE, !.dep = FALSE, !.due = DueAt(c.addr), !.strayed = FALSE]}

\* The pointer of the next bus cycle: past the word of the same key's last one.
Moved(c, flag) == IF flag THEN (c.addr + 2) % BusSize ELSE c.addr

\* The word after a, as the manual has it: "by 2 or by 1 if the address is in
\* the range 777700-777717" (2.2); the code adds 2 everywhere.
ByOne(a) == a \in RegBase..(RegBase + 2 * Regs - 1)
NextWord(a) == (a + IF ByOne(a) THEN 1 ELSE 2) % BusSize

Exam(c) ==
  LET a == Moved(c, c.exam)  d == c.due.exam IN
  IF ~c.halted THEN {c}
  ELSE {Owing([c EXCEPT !.addr = a, !.tmp = w, !.exam = TRUE, !.dep = FALSE],
              [exam |-> NextWord(d), dep |-> d], c.strayed \/ (c.exam /\ ByOne(c.addr))) : w \in Reads(c, a)}

Dep(c) ==
  LET a == Moved(c, c.dep)  d == c.due.dep IN
  IF ~c.halted THEN {c}
  ELSE {Owing([c EXCEPT !.addr = a, !.dep = TRUE, !.exam = FALSE,
                        !.pc = IF a = R7 THEN c.tmp % WordSize ELSE @],
              [exam |-> d, dep |-> NextWord(d)], c.strayed \/ (c.dep /\ ByOne(c.addr)))}

\* One instruction, or as much of it as 1000 micro-steps do.
HaltSs(c) ==
  IF ~c.halted THEN {c} ELSE {ShowPc([d EXCEPT !.halted = TRUE]) : d \in Ustep(c)}

-----------------------------------------------------------------------------
(* With CNTRL *)

CntrlHaltSs(c) == IF c.halted THEN HaltSs(c) ELSE {ShowPc([c EXCEPT !.halted = TRUE])}
CntrlCont(c)   == {[c EXCEPT !.halted = FALSE]}
CntrlStart(c)  == IF ~c.halted THEN {c}
                  ELSE {[c EXCEPT !.pc = c.addr % WordSize, !.init = TRUE, !.halted = FALSE]}
CntrlBoot(c)   == {[c EXCEPT !.boot = @ \/ c.halted]}
CntrlInit(c)   == {[c EXCEPT !.init = @ \/ c.halted]}
Cntrl7(c)      == {[c EXCEPT !.tmp = (c.addr + @ + 2) % BusSize]}
Cntrl6(c)      == {[c EXCEPT !.tmp = (@ + c.sr) % BusSize]}
Cntrl1(c)      == {[c EXCEPT !.maint = TRUE, !.halted = TRUE]}

-----------------------------------------------------------------------------
(* Maintenance mode, and the dispatch of console_key *)

MaintKey(c, k) ==
  CASE k = KEY_CLR     -> {ShowPc([c EXCEPT !.maint = FALSE, !.halted = TRUE])}
    [] k = KEY_HALT_SS -> {[c EXCEPT !.halted = TRUE]}
    [] k = KEY_CONT    -> {[d EXCEPT !.halted = TRUE] : d \in Ustep(c)}
    [] k = KEY_BOOT    -> {[c EXCEPT !.boot = TRUE]}
    [] OTHER         -> {c}

PlainKey(c, k) ==
  CASE k \in Digits   -> Digit(c, k)
    [] k = KEY_CLR      -> Clr(c)
    [] k = KEY_LAD      -> Lad(c)
    [] k = KEY_LSR      -> Lsr(c)
    [] k = KEY_DIS_AD   -> DisAd(c)
    [] k = KEY_EXAM     -> Exam(c)
    [] k = KEY_DEP      -> Dep(c)
    [] k = KEY_HALT_SS  -> HaltSs(c)
    [] OTHER          -> {c}

CntrlKeys == {KEY_HALT_SS, KEY_CONT, KEY_START, KEY_BOOT, KEY_INIT, 1, 6, 7}
CntrlKey(c, k) ==
  CASE k = KEY_HALT_SS -> CntrlHaltSs(c)
    [] k = KEY_CONT    -> CntrlCont(c)
    [] k = KEY_START   -> CntrlStart(c)
    [] k = KEY_BOOT    -> CntrlBoot(c)
    [] k = KEY_INIT    -> CntrlInit(c)
    [] k = 7         -> Cntrl7(c)
    [] k = 6         -> Cntrl6(c)
    [] k = 1         -> Cntrl1(c)

Key(c, k) ==
  LET released == [c EXCEPT !.cntrl = FALSE] IN
  CASE k = KEY_CNTRL                    -> {[c EXCEPT !.cntrl = ~@]}
    [] c.cntrl /\ k \in CntrlKeys     -> CntrlKey(released, k)
    [] OTHER -> IF c.maint THEN MaintKey(released, k) ELSE PlainKey(released, k)

-----------------------------------------------------------------------------
\* console_tick: the RUN indicator follows the CPU; when it goes out, the PC
\* is displayed, and is what digits are then appended to.
ConsoleTick(c) ==
  LET d == [c EXCEPT !.run = ~c.halted] IN IF c.run /\ c.halted THEN ShowPc(d) ELSE d

\* console_set_addr, which the command line's main loop calls to show a word; a
\* flag that it leaves set makes the key that follows skip that word.
SetAddr(c, a) == Owing([c EXCEPT !.addr = a % BusSize], DueAt(a % BusSize), c.exam \/ c.dep)

\* machine_cpu_reset and machine_power_on: a first instruction at a PC of the
\* boot ROM's choosing.
PowerOn(c) == {[c EXCEPT !.mid = FALSE, !.pc = a, !.halted = FALSE] : a \in Program}

\* Asserting BUS INIT for the console's request.
InitDone(c) == [c EXCEPT !.init = FALSE]

PanelOK ==
  /\ con.tmp \in 0..(BusSize - 1) /\ con.addr \in 0..(BusSize - 1) /\ con.sr \in 0..(WordSize - 1)
  /\ con.pc \in 0..(WordSize - 1) /\ con.due \in [exam : 0..(BusSize - 1), dep : 0..(BusSize - 1)]

Panel == {Cleared([tmp |-> 0, addr |-> 0, exam |-> FALSE, dep |-> FALSE, sr |-> 0, maint |-> FALSE,
            cntrl |-> FALSE, run |-> FALSE, boot |-> FALSE, init |-> FALSE, due |-> DueAt(0),
            strayed |-> FALSE, halted |-> TRUE, mid |-> FALSE, pc |-> a]) : a \in Program}
=============================================================================
