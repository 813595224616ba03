----------------------------- MODULE MCProcessor -----------------------------
(***************************************************************************)
(* The KD11-EA on the programs of InstructionCases and RelocationCases,    *)
(* with interrupt requests that arrive at any micro-step.  For the former  *)
(* the state between instructions is kept in a history variable, and each  *)
(* change of it must be a step of the instruction set, Pdp11.              *)
(***************************************************************************)
EXTENDS Kd11ea, RelocationCases

VARIABLES arch,      \* the state at the end of the last instruction or trap
          cause,     \* the trap the instruction set says comes next
          left,      \* instructions and traps to go
          due,       \* vectors that devices will request
          flat,      \* the program runs without memory management
          start,     \* the PC at the last end
          fetched,   \* an instruction was fetched since
          tick       \* changes at every micro-step

history == <<arch, cause, left, flat, start, fetched, tick>>
mvars   == <<cpuVars, history, due>>

MCVectors == {\o60, \o100}
MCLevel   == (\o60 :> 4) @@ (\o100 :> 6)

Pdp == INSTANCE Pdp11 WITH state <- arch, Sources <- MCVectors, LevelOf <- MCLevel

-----------------------------------------------------------------------------
Architecture ==
  [reg |-> [n \in 0..8 |-> sp[IF n = 8 THEN 1 ELSE 15 - n]], psw |-> psw, mem |-> mem]

\* The processor at an instruction end, after an RTT, so that the T bit does
\* not trap first.
Ready ==
  /\ mpc = 0 /\ ir = 6 /\ servIr = FALSE /\ irValid = FALSE /\ irCode = 0
  /\ bReg = 0 /\ bxReg = 0 /\ rotCbit = 0 /\ count = 0 /\ ovx = 0
  /\ ba = 0 /\ vba = 0 /\ unibusData = 0
  /\ haltRqst = FALSE /\ busError = FALSE /\ stov = FALSE /\ stovEn = TRUE
  /\ mmuKte = FALSE /\ resetInst = FALSE /\ halted = FALSE
  /\ intc = <<>>
  /\ arch = Architecture /\ cause = "none" /\ start = sp[8] /\ fetched = FALSE /\ tick = FALSE

\* R0 to R5, the two stack pointers and the PC; the rest is the microprogram's.
Scratchpad(r, ksp, usp, pc) ==
  [k \in 0..15 |-> CASE k \in 10..15 -> r[16 - k] [] k = 9 -> ksp [] k = 8 -> pc
                     [] k = 1 -> usp [] OTHER -> \o52525]

Init ==
  \/ \E c \in Cases :
       /\ mem = MemoryOf(Map, c.code) /\ psw = c.psw /\ mmu = MmuInit
       /\ sp = Scratchpad(c.r, c.sp, \o1104, Code)
       /\ flat = TRUE /\ left = c.n /\ due = c.due
       /\ Ready
  \/ \E c \in UserCases :
       /\ mem = UserMemory(c) /\ psw = c.psw /\ mmu = Mapping(c.io)
       /\ sp = Scratchpad(UserRegisters, c.sp, c.usp, 0)
       /\ flat = FALSE /\ left = c.n /\ due = c.due
       /\ Ready

\* An instruction or a trap has ended: at MPC 0, or where WAIT begins to idle.
Ends == mpc' = 0 \/ (mpc = \o15 /\ mpc' = \o14)

\* The architectural state at an end, and the trap that comes next.
Observe ==
  \E now \in {Architecture'} :
    \E same \in {{o \in Pdp!Outcomes(arch, cause) : Pdp!Matches(o.s, now)}} :
       /\ arch' = now
       /\ cause' = IF same = {} THEN "none" ELSE (CHOOSE o \in same : TRUE).cause

Step ==
  /\ left > 0 /\ Ustep /\ tick' = ~tick /\ UNCHANGED <<due, flat>>
  /\ IF Ends /\ flat THEN Observe ELSE UNCHANGED <<arch, cause>>
  /\ IF Ends THEN left' = left - 1 /\ start' = sp'[8] /\ fetched' = FALSE
     ELSE UNCHANGED <<left, start>> /\ fetched' = (fetched \/ irValid')

\* A device requests an interrupt, between two micro-steps.
Arrive ==
  /\ left > 0 /\ ~halted
  /\ \E v \in due : intc' = Request(intc, v) /\ due' = due \ {v}
  /\ UNCHANGED <<mpc, sp, ir, servIr, irValid, bReg, bxReg, count, ovx, rotCbit, ba, vba,
                 unibusData, psw, irCode, haltRqst, busError, stov, stovEn, mmu, mmuKte,
                 resetInst, halted, mem, history>>

Next == Step \/ Arrive

\* The run loop gives a processor that is not halted its next micro-step:
\* fairness of Step, which is the only action that changes tick.
Clocked == left > 0 /\ ~halted /\ tick' = ~tick

Spec == Init /\ [][Next]_mvars /\ WF_tick(Clocked)

-----------------------------------------------------------------------------
\* The microprogram, its PROMs and the data path do what the instruction set
\* says: operands, addressing, condition codes, the order of traps, and
\* interrupts between instructions only, whenever they are requested.
ImplementsIsa == Pdp!Spec

\* Every instruction ends, whatever its operands: at MPC 0, in the idle loop of
\* WAIT or halted; the loops of MUL, DIV, ASH and ASHC run out.
InstructionsEnd == []<>(mpc \in {0, \o12, \o14} \/ halted)

-----------------------------------------------------------------------------
(* Memory management.                                                      *)

User(p)       == Slice(p, 15, 14) = 3
Relocating(m) == Bit(m.sr0, 0) = 1

\* Page i permits writing the physical address a.
Permits(m, i, a) ==
  LET block == ((a \div 64) - m.par[i] + 4096) % 4096
      limit == Slice(m.pdr[i], 14, 8)
  IN  /\ Slice(m.pdr[i], 2, 1) = 3
      /\ block <= 127
      /\ IF Bit(m.pdr[i], 3) = 1 THEN block >= limit ELSE block <= limit

\* A store changes a word only through the page it refers to, which permits it
\* when the transfer is made, though it was relocated when BA was loaded.
StoresPermitted ==
  [][mem' # mem /\ Relocating(mmu) =>
       /\ mmu'.page \in 0..15
       /\ \A a \in Memory : mem'[a] # mem[a] => Permits(mmu, mmu'.page, a)]_mem

SR0Addr == \o777572

\* SR0 and SR2 keep the first abort through any further ones, whatever the
\* handler does, until a write to SR0 or INIT.
FrozenAfterAbort ==
  [][/\ <<mmu.sr0, mmu.sr2>>' # <<mmu.sr0, mmu.sr2>>
     /\ ~NoFault(mmu.sr0)
     => ba' \in {SR0Addr, SR0Addr + 1} \/ (resetInst' /\ ~resetInst)]_<<mmu.sr0, mmu.sr2>>

\* At the first abort SR0 names the page, in the mode of the reference, and
\* SR2 the instruction, although its PC has moved on; an instruction that
\* could not be fetched leaves the one before it.
AbortTellsWhere ==
  [][/\ mmuKte' /\ ~mmuKte /\ NoFault(mmu.sr0)
     => /\ Slice(mmu'.sr0, 3, 1) = Slice(vba', 15, 13)
        /\ Slice(mmu'.sr0, 6, 5) \in {Slice(psw, 15, 14), Slice(psw, 13, 12)}
        /\ fetched => mmu'.sr2 = start]_mmuKte

\* A program in user mode does not stop the machine, give INIT or leave user
\* mode, but through a trap or interrupt, or by a write to the processor status
\* that the kernel mapped for it, and it stores in pages of the user's only.
UserConfined ==
  [][User(psw) => /\ ~halted' /\ ~resetInst'
                  /\ User(psw') \/ servIr \/ ba' \in {PswAddr, PswAddr + 1}
                  /\ mem' # mem /\ Relocating(mmu) => mmu'.page \in 8..15
    ]_<<psw, halted, resetInst, mem>>

\* A request leaves the queue only to be granted, or by the INIT that a RESET
\* gives once: one that arrives later in the RESET stays.
RequestsSurvive ==
  [][\A v \in Pending(intc) \ Pending(intc') :
       bReg' = v \/ (resetInst' /\ ~resetInst)]_intc
=============================================================================
