# TLA+ models of ll-34

ll-34 is an emulator of a PDP-11/34: the KD11-EA processor at the level of its
micro-steps, its peripherals, its programmer console, a debugger and a logic
analyzer, behind a command line and a WebAssembly front end. This directory
holds TLA+ models of it, the TLC runs that check them and TLAPS proofs.
`PROJECT.json` lists the runs, the source lines of each definition, the hazards
and the theorems.

## Inventory

The program is sequential. What is hard about it is *order*: a PDP-11 program,
the device ticks (every 256 micro-steps), simulated deadlines, bus INIT, the
operator and the host terminal act in any order on shared registers and on one
queue of interrupt requests; work is cut off half way by stops, resets and bus
errors; and values are latched at one moment and used at a later one.

| Component | State | Operations | What makes it correct |
|---|---|---|---|
| Interrupt controller (`kd11ea/int.c`, E29 PROM) | array of at most 8 requests | request, cancel, pending, ack, init | a set of flip-flops: none lost, none doubled, highest level granted |
| DL11 (`dl11/dl11.c`) | RCSR, RBUF, XCSR, transmit deadline | register accesses, tick, INIT | DONE/RDY AND IE request once; busy ends; requests withdrawn |
| KW11 (`kw11/kw11.c`) | LKS, next edge | LKS write, tick, INIT, frequency | edges keep coming |
| PC11 (`pc11/pc11.c`) | PRS, PRB, PPS, PPB, two deadlines | register accesses, tick, INIT | every operation ends in DONE or ERROR |
| Run loop (`machine.c`) | halted, step counters, tick counter, host stop, breakpoints, trace | run, halt, resume, step, ustep, idle, breakpoints | exact steps, prompt and unique stops, regular ticks |
| Microcode engine, data path, BUT SERVICE (`kd11ea/kd11ea.c`, ROM tables) | MPC, IR, PSW, scratchpad, B, BX, BA, trap flags, HALT RQST | micro-step, reset | the microprogram implements the PDP-11; trap priority; no lost trap, request or halt |
| MMU (`kd11ea/mmu.c`) | SR0, SR2, PAR, PDR | translate, register accesses, INIT | abort latch and freeze, W bit, protection |
| RK11, RL11 (`rk11/`, `rl11/`) | controller registers, drives | commands with synchronous DMA, INIT | commands end; counts and addresses agree after a failure |
| KY11-LB console (`ky11/console_sim.c`) | address, display and data registers, exam/deposit flags, maintenance mode | keys, tick | auto-increment, INIT and BOOT requests served |
| Probe (`probe/probe.c`) | ring, trigger, divider, state | arm, sample, get | the window holds the trigger at its place |
| Front ends (`frontends/`) | request flags, pacing, debugger | main loop, host tick, frames | operator requests served once |
| Unibus, memory, ROM, loaders, terminals, disassembler | tables, arrays, buffers | data movement | not about order |

Interactions: devices call `int_request` and `int_cancel`; the micro-step at BUT
SERVICE calls `int_ack`; `machine_run` calls the host tick and the device ticks;
`bus_set_init` calls every receiver, synchronously, in registration order; the
front ends call the machine between two runs; the disk controllers and the
console are bus masters.

## Modules

Definitions have the names of the code's functions where they can.
A definition that `PROJECT.json` lists as a mutant is a faulty variant
of another. No specification uses it; it is there to show that a property
notices when the code goes wrong in that way.

**Interrupts.** `IntQueue` is the request array with the functions of `int.c`;
the order of its entries is kept, as the code's swap removal produces it.
`ServiceRoms` is the E29 PROM by halves, rows and columns, address wiring
included. `RequestFlops` is the
abstract specification, one flip-flop per vector. `IntController` is the
controller under an arbitrary environment, shown to implement `RequestFlops`;
`Alone` holds its instance, `IntArrival` adds a history of arrivals,
`IntQueueProofs` the lemmas about the queue, `IntControllerProofs` the proofs.

**Devices.** `Backplane`, `DL11`, `KW11`, `PC11` hold the handlers, each an
operator from registers and queue to both. A deadline is `none`, `ahead` or
`due`: what time it is matters only against it. `IoSystem` composes them with
the CPU. One action per register access, made by any program in any order (or
by the console while halted); `Service` and `LoadVectorPsw` are the two ends of
an interrupt's microcode, between which no other access happens but ticks do;
`Tick`, `Idle`, `BusInit`, `Boot` compose the handlers in the code's order.
RESET asserts and releases INIT within one micro-step, so that an INIT pulse is
one action. `TransmitTime`, `LineEdge`, `ReaderTime` and `PunchTime` let
simulated time pass one deadline. A *site* says which registers a program uses
and what is attached; `MCIoSystem` lists the sites, `IoSystemProofs` holds the
proofs.

**Run loop.** `MachineRun` is `machine_run`, one action per way an iteration of
its loop can end, in the order of the code's checks, and the calls between runs.
What the CPU computes is left open: an iteration ends an instruction or not, or
halts. `MachineRunWatch` adds history variables and states the properties,
`MachineRunProofs` proves them. The history keeps what was ordered (so many
instructions, or micro-steps) until a stop that halts the machine, a resume, a
boot or another order ends it; the console's keys, which write `cpu.halted` and
tell the run loop nothing, do not. `StepsExactly` thus sees a step counter that
outlives its order as well as one that stops it early or late.

**Processor.** `Kd11ea` is one micro-cycle of the KD11-EA (`kd11ea_ustep`, one
action `Ustep`): fetch of the micro-word, scratchpad, B leg, ALU, shifts, PSW,
bus transfers, BUT branches, BUT SERVICE, bus errors. It rests on `Words`
(16-bit arithmetic), `RomImages` (the content of the ROMs), `ControlStore` (the
fields of a micro-word), `DecodeProms` (E51, E52, E54 and the IR decode),
`DataPath` (ALU, legs, condition codes) and `Mmu` (relocation, access checks,
SR0/SR2, register accesses). `Pdp11` is the abstract specification: the
instruction set, one step per instruction, trap or interrupt, written from
chapter 2 of the manual as the code has it, what the hardware leaves undefined
left open
(registers and condition codes after a DIV overflow, registers after a bus
error). `InstructionCases` and `RelocationCases` are the programs, operands
and page tables it is run on; `MCProcessor` runs them and states the
properties, `ProcessorProofs` holds the proofs.

**Disks.** `Rk11` and `Rl11` are the controllers. `rk05_go` and `rl11_go` run a
whole command inside the write to the command register. `Rk11` cuts it into
passes of its transfer loop of at most one sector (`RkPass` and its parts),
between which nothing else happens, so that an endless loop shows; the RL11's
loop is bounded by the track, so a command is one action. Words carry no value:
an image is its length in words, memory the addresses that answer, and a write
check finds a difference or not. `RkDisk` and `RlDisk` state the properties,
`MCRkDisk` gives constants, `Disks` composes the controllers, `DisksProofs`
holds the proofs about either and about both.

**Console and front ends.** `KY11` is the programmer console: every key of its
three modes, its tick, reset, and the address it presents. `CliMain` is the
command line's main loop with the host tick, the operator keys, the console's
key mapping and the debugger's execution commands; `WebMain` is the browser's
frame, power switch, buttons and halt poll. `FrontEnds` composes the console
with either and states the properties, `FrontEndsProofs` proves the safety ones.
Two histories go with them. `due` of the panel is where the manual has the next
EXAM and the next DEP go (2.2), the word after by 1 or by 2, worked out from the
words it had the keys before take and never from the panel's pointer and flags;
`strayed` says that the code is known to have left that walk (the first three
ways listed under the divergences), and until the next LAD, DIS AD or reset
`WalksAsPromised` says nothing. Nor does it where the pointer stands on the registers. What is left is
every other order of digits, EXAM, DEP, LAD, DIS AD, arithmetic and maintenance
keys, steps, starts, boots and resets. `missed` of the page says that a HALT
went by without the page being told; but for that `HaltsTold` has the reason of
a stop the page ordered right, and `OrderTold` (without that exception) fails.

**Logic analyzer.** `Probe` is `probe.c` and the commands of both front ends. A
sample is whether it is the trigger's value. `Recorder` is the abstract
specification, a tape of the newest samples with a mark on it; `ProbeWatch` adds
a history of the trigger and states the properties, `ProbeProofs` proves them.
`Alone` puts the analyzer, the interrupt controller and the run loop into one
specification: none has a component it must be composed with to be used wrongly,
each is checked under an environment that may call anything at any time.

## Runs and bounds

| Run | Shows | Bounds |
|---|---|---|
| `alone` | `NeverQueuedTwice`, `RomGrantsHighest` (all 8 priorities, every set of pending requests), refinement of `RequestFlops`; `TriggerInPlace`, refinement of `Recorder`; exact steps, prompt host stops, distinct breakpoints | 6 vectors, three on BR4 and one on each other level, array of exactly 6; rings of 1 and 4 samples, positions 0, 50 and 100 %, dividers 1 and 2, 32-bit counters of 8 values; 2 addresses and 2 slots, steps of 1 and 2, tick every 2 micro-steps, overdue after 3 |
| `io_system` | requests are justified by registers, busy has a deadline, flag AND enable requests; operations end, characters arrive, the clock is not starved | three sites: terminal and punch, with and without a file; output, clock and reader. Priorities 0 and 6 |
| `disks` | summary bits, continuation addresses, residues, images, heads, ends of transfers | RK11: 2 drives of 1 cylinder, 2 surfaces, 1 sector of 2 words, images of 3 words that may grow, RKWC modulo 4. RL11: 1 drive, 2 sectors of 2 words, 1 cylinder (RL01) or 2 (RL02), images of 3 or 9 words, RLMP modulo 8. Both: 2 banks of 2 words, the last word missing |
| `front_ends` | the console's walk, INIT before a run, a machine that is off, what the page is told, halts served | addresses below 4, two of them memory and one the register, words below 2, octal digit 1, one character typed ahead |
| `processor` | the microprogram implements `Pdp11`; every instruction ends; protection, abort latches, user mode, requests | see below |
| `probe_full`, `int_arrival`, `dl11_rx_edge`, `machine_host_stop`, `cli_operator_key`, `order_told`, `rk_write_check` | the seven divergences below | as small as shows them |

The bounds are small where the code treats values alike. Vectors matter by level
and position; two at one level suffice for reordering and three for overtaking.
A device that no program of a site uses stays idle, so that splitting devices
over sites loses the interleavings of three BR4 devices with the clock only;
`alone` has the queue's part for three of a level.
256 micro-steps per tick and 100000 per overdue stop become 2 and 3: the
properties need the second larger than the first, as in the code.
A ring of 4 samples has each of its positions for a trigger; counters of 8
values wrap twice round it, as the 32-bit ones do round any power of two.
A capture of more samples than can be counted is followed
through the refinement, but `TriggerInPlace` does not speak of it.

An RKWC of 4 words and images of 3 let a transfer end inside a sector, at a
sector, past the surface, past the last cylinder, at the end of the image and
at missing memory, and let the bus address wrap. For the RL11 they let it end
at the end of the track, of the image, of the drive type's cylinders and of
memory. A program drives one of the two controllers: a command of one runs to
its end inside a register write, so commands of the two never overlap.

`processor` runs the programs of `InstructionCases` without relocation: every
operation on boundary operands (0, 1, and the edges of bytes and words), the
addressing modes with MOV and SUB in every pair, traps, the T bit, the PSW as
an operand, pushes near the stack limit, in kernel and user mode, and
interrupts that arrive at any micro-cycle. `RelocationCases` has user programs
under memory management: pages that are read only, not resident, too short or
expand downward, aborts in the middle of an instruction and again in the
handler, MTPI and MFPI, and writes to the page registers and the PSW. They begin
after a kernel reference to page 0, with relocation on. A program
is one to four instructions and traps in a memory of the few words it touches,
which takes it through a micro-routine and each of its exits; a longer program
only meets instructions one by one. There are 54,828 states. The micro-cycle
was also compared with the C code: 58,000 micro-cycles of such
programs gave identical registers.

### Fairness

* `io_system`: `SF(Tick)`, because the tick counter survives halts; `WF` of each
  deadline, because simulated time grows with every micro-step; `WF(Service)` and
  `WF(LoadVectorPsw)`, because every instruction of the microcode ends in BUT
  SERVICE. The program, the operator and the person typing have none.
* `alone`: a run of the machine has a positive budget and so makes a micro-step
  (`SF(WMicroStep)`), and a main loop runs a machine that is not halted (`WF(Run)`).
* `disks`: the RK11's transfer loop goes on (`WF(RkPass)`).
* `front_ends`: the main loop's thread takes its turns (`WF`); the host tick and
  the two ends of a slice come though slices are cut short, because their
  counters survive a slice (`SF(HostTick)`, `SF(StopHost)`, `SF(StopBudget)`).
* `processor`: a CPU that is not halted gets its next micro-step from the run
  loop (`WF_tick(Clocked)`). Requests arrive or do not.

## Divergences found

A run shows each of these:

1. `int.c:5-6` promises first come first served within a level; swap removal
   breaks it (`FirstRegisteredWins`).
2. `dl11.c:109` says DONE AND IE clocks the receiver's request; the poll inside an
   RCSR read sets DONE without one (`ReceiverDoneRequests`).
3. `machine.h:56-58`: the host's stop is of the run it was asked in; `stop_halted`
   leaves it pending for the next (`HostStopsThisRun`).
4. `rk11.c:4` and `rk11.h:5` call the disk's DMA instantaneous; a write check at
   the end of an image never leaves its loop (`RkCommandsEnd`).
5. `probe.h:198` and `probe.c:958-959`: a capture that is done has filled the
   buffer; one whose trigger comes with the last sample before it is done with
   one sample less (`probe.c:960`, `:970`; `DoneIsFull`).
6. `main.c:1462` promises that operator keys are heard; with a character pushed
   back and another in the receiver, nothing reads the terminal until the
   program does (`OperatorHeard`).
7. `main_wasm.c:338`: a poll answers 2 for a spontaneous halt and 1 for the
   debugger's; `wasm_run` and the others take back the notice of a HALT
   that was not polled and keep its reason (`main_wasm.c:137`), so that the next
   stop the page ordered is told as spontaneous (`OrderTold`).

Met while modelling, and modelled as the code has them, without a run:

* Processor. An odd address during a fetch aborts through vector 244 where
  chapter-04e:55-65 has 4 (`rom_wiring.h:337`). MUL to an odd register sets N
  from the low word (chapter-02, Table 2-3). HALT with the T bit set takes the
  trace trap and never halts (chapter-02, chapter-04c Table 4-10). MARK sets SP
  to PC+2xNN where the manual has SP+2xNN. SBC's V and C are worded otherwise.
  SR2 is not loaded at every fetch (chapter-04e:337-338, `kd11ea.c:593-603`), and
  the bits of SR0 in chapter-04e are not those of `mmu.c`. A byte access to the
  odd byte of the last MMU register of a range finds no device.
* Run loop. Micro-steps that end a run are not counted towards the device tick
  (`machine.h:94-95`).
* Console. EXAM and DEP leave the manual's walk in four ways. They advance the
  pointer by 2 everywhere (`console_sim.c:119`, `:132`), where chapter-02:28 has 1
  in 777700-777717, the registers. CLR drops the examine and deposit flags
  (`console_sim.c:87`, docs/KY11-LB chapter-05:58-61), so that the next key takes
  the same word again. `console_set_addr` (`console_sim.c:385-389`) leaves them
  set: a stop or single step of the command line that comes after an EXAM shows
  the word after the PC (`main.c:209-210`, `:284-285`). And the EXAM that the
  command line makes after each DEP (`main.c:288-289`) clears the deposit flag, so
  that sequential deposits typed there go to one word; the model takes that EXAM
  for a key like another.
* Console. CONT after a console HALT goes on with a step that was under way,
  and stops at its end (`console_sim.c:162`, `:169`). A reset keeps the switch
  register. START after a halt in the middle of an instruction does not begin
  with a fetch.
* Analyzer. The command line's `show` marks a row for a trigger whose sample was
  not stored, where `probe_trigger_index` says -1.
* Devices. Reading RBUF clears DONE and leaves the request pending
  (`dl11.c:70`). A write to the RK11 past the last cylinder is not refused
  (`rk11.c:146`).

## Proofs

TLAPS checks these for every value of the constants that satisfies the modules'
assumptions; the runs check the same formulas on small instances.

| module | proved | from |
| --- | --- | --- |
| `IntControllerProofs` | `TypeOK`, `NeverQueuedTwice`, that the array implements `RequestFlops`, `RomGrantsHighest` | every caller gives a vector its one level; no more vectors than places (the code has 7 and 8) |
| `IoSystemProofs` | `TypeOK`, `RequestsJustified`, `BusyHasDeadline`, `FlagAndEnableRequest` | any set of machines (what is used and attached) and of CPU priorities |
| `MachineRunProofs` | `LoopTypeOK`, `BreakpointsDistinct`, `StepsExactly`, `StopsAtInstructionEnd` | any number of slots, step counts, tick interval and stop limit |
| `DisksProofs` | `RkTypeOK`, `RkSummary`, `RkAdmitted`, `RkImageSafe`, `RkContinues`; `RlTypeOK`, `RlHeadsLand`, `RlImageSafe`, `RlResidue`; `DisksTypeOK` | any geometry, memory, register width and images; for `RlResidue`, that a track has fewer words than RLMP counts (40 sectors of 128 words, and 16 bits) |
| `FrontEndsProofs` | `FrontTypeOK`, `WalksAsPromised`, `InitBeforeRun`, `OffStaysOff`, `HaltsTold` | any address and data width, number keys, addresses that answer and words found there, any number of characters typed ahead |
| `ProbeProofs` | `ProbeTypeOK`, `TriggerInPlace`, that the ring implements `Recorder`; `AloneTypeOK` | any ring sizes with a largest, positions, dividers and sample values; counters of any range that is a multiple of the ring and at least twice as large |
| `ProcessorProofs` | `CpuTypeOK`, `RequestsSurvive`, `FrozenAfterAbort`, `StoresPermitted` | any memory map, any words in memory and registers, any micro-address and requests; for the last, that no register of memory management is memory and that the bus address is that of the last reference, as at power on; for the programs of the run, that `Memory` is their map |

Each proof strengthens what it proves to an inductive invariant.

*Interrupt queue.* `IntQueueProofs` says what `SwapOut`, `Request`, `Cancel` and
`FirstGrantable` do to the set of pending vectors. They need that no vector is
queued twice: a swap removal takes one entry, and a vector that had two would
stay pending. With that, the queue is no longer than there are vectors, so the
full-array branch of `int_request` is never taken, and each queue operation is
the flip-flop operation of `RequestFlops`. The PROM has 256 entries and 7 x 16
kinds of queue to be right for: the proof goes by the half that PSW05 selects,
the row that the BR lines select and the column that PSW07 and PSW06 select.

*Devices.* The invariant is split by device (`DLGood`, `KWGood`, `PCGood`): its
registers' types, its requests justified, busy exactly with a deadline. A
handler's lemma says that it keeps its own device's part, touches no other
device's requests (`Only`), and requests an interrupt where a flag met its
enable. A tick or an INIT is then a chain of such facts in the code's order. The
punch needs one conjunct more: without a file it is never busy, or a write would
complete at once and leave the deadline of the byte before.

*Run loop.* `OrderCounted` ties the number of instructions, or micro-steps, that
a step command has run to the counter of its unit, and says that no counter runs
without an order; `WaitCounted` ties the micro-steps since a host stop to
`hostStopUsteps` and keeps them below the limit while the loop runs.

*Analyzer.* `PInv` says where the trigger is with respect to the ring's head and
to the samples still to be taken (`HitStored`, `HitMissed`). Fewer than a
ring's depth of samples follow the trigger's, so that none is written to its
place (`ModNear`); where the ring starts follows from head and count; the place
the command line computes by subtraction is the same one (`RingPlace`). For the
refinement `Course` says where the trigger's sample is when it has come: in the
ring (`Ahead`), about to be its first (`ToCome`), or so many samples ago that a
counter has wrapped (`Beyond`), which the tape tells apart. Each
command and each sample, stored or divided out, is then a step of the tape or
none. `AloneTypeOK` follows because a step of one component leaves the others'
variables as they are (`Apart`).

*RK11-D.* `RkAdmitted` says that the checks made when a command starts hold in
every pass of its loop although passes advance the address: that, with the
types, makes the image safe. `DoneFacts`, `FinishFacts`, `MovesInv` and
`StopsInv` are the parts of a pass. For `RkContinues`, `RkCourse` says what every
pass keeps: words moved and words to go are the count that was ordered, and bus
address with MEX, and sector, surface and cylinder put together, have advanced
by the words moved, the last sector rounded up.

*RL11.* The types are inductive by themselves. `CountInTrack` says that the count
of an admitted transfer ends with its track, `EndFacts` what the end of a
transfer leaves, `LandsOnDisk` that a seek stops at the edges. `RlResidue` needs
the assumption on the track: with a longer one, RLMP could count past zero in it.

*Console and front ends.* The invariant has a part for the panel (its types, and
`Walks`: the history of the walk is what pointer and flags say, by the manual's
step, from which `WalksAsPromised` follows where that step is the code's), one for the place the main loop or the
frame is at, one for the typed characters, and for each of the other properties
the reason it holds: between two runs every request of the console has been
served (`RequestsServed`), a machine that is off is halted when its frame
begins (`OffIsHalted`), and the web front end's notice and reason of a halt
agree with what stopped it (`Told`). Each key, each turn of a loop and the
console's tick is one lemma.

*Processor.* `Processor` is the KD11-EA with any program, memory, registers and
micro-state, and requests at any micro-cycle; the runs' programs are some of
these (`Included`). What it says of the start is only that the queue is an array
and the memory management unit has its registers. `CycleParts` takes a
micro-cycle apart. A request leaves the queue in two ways only: the grant, whose
vector the same cycle loads into B, and INIT's pulse (`QueueStep`). The abort
that SR0 and SR2 hold passes through relocation, access check, bus cycle and
LOAD IR (`TranslateKeeps`, `HalfKeeps`, `FrozenStep`). For the bus cycle the
decoding ROM E75 is read out: of all addresses of the I/O page, a write strobes
SR0 at SR0's address alone (`Quiet`, `Sr0Decode`). That the bus address is a
number, without which nothing says which register is addressed, is part of the
type invariant.

`CpuTypeOK` says that every register, bus, scratchpad slot and word of memory
keeps its width and the micro-address is one of 512. `Machine` starts from any
state of these types, so also from the random scratchpad of `kd11ea_reset`. The
invariant is inductive by itself, but it needs the contents of the ROMs: each
`Nibble`, slice and gathered index has a bound (`Gathered`, `Packed`, `Fields`),
each PROM's outputs follow from its images (`SingleDecoders`, `DoubleDecoders`,
`FunctionProms`, `BranchConditions`), each of the 512 micro-words has fields of
their sizes (`Microprogram`), and `Logic`, which looks nibbles up in a table, is
within 16 bits, AND at most its mask and OR as wide as its operands
(`LogicWidth`, `AndBelow`, `OrWidth`). A micro-cycle is then followed in the order
of the code, `OperandsTyped` to `LeavesTyped`. For the runs' programs each
group of cases is shown to be made of words (`CasesTyped`, `UserCasesTyped`).

`StoresPermitted` relates two moments: BA is loaded with a relocated address, and
some micro-words later the transfer is made with the registers of then. The
invariant `Addressed` says what holds in between: BA is the address that the page
and mode of the last reference give VBA (`Relocated`), or relocation was off and
still is, or BA addresses a register of memory management, which may just have
been written. Only there can a cycle change a frame (`TransferMaps`), and nothing is
stored there. A store thus passed the check of its own page with the block of
its own address (`CheckMaps`, `BlockFound`), and E83 lets a write pass in four of
its 64 places only: write access, kernel or user mode, on the right side of the
limit (`WritePasses`, `PassedWrite`). The order of the micro-words does not matter.

Left to TLC: liveness, fairness and ENABLED, which the provers do not reach; that
the microprogram implements `Pdp11`, and `AbortTellsWhere` and `UserConfined`,
which hold by the order of its micro-words: a proof of them would need an
invariant for each of the 512. `UserConfined` also depends on what the kernel
gives a program: with a previous mode of kernel in the user's status, MTPI stores
in the kernel's pages.

## Not modelled

* *Time*: cycle lengths, the pacing of both front ends. Deadlines are ahead or
  due; how far is arithmetic that no property depends on.
* *Files*: loaders, the boot ROM's table, captures and traces written to files,
  the disassembler, memory dumps, the debug ring. Data movement that nothing
  feeds back from.
* *Terminals* other than `--tty stdio`; line editing, options, scripts, and the
  commands that only show something; quitting.
* *Displays*: the console's digits and indicators, the browser's views.
* *Signals*: the analyzer's table of some 200 signals and their selection: a
  front end arms it only with a trigger from that table.
* *RK11*: attaching drives at run time, a failing seek of the host's file (CSE),
  SEARCH COMPLETE, format bits, RKDS, and DMA that addresses device registers.
  *RL11*: which error of a drive it is, and the head it is on.
* *KW11*: the CLOCK MONITOR bit. *PC11*: byte values, files attached later.
* *Reset*: the random scratchpad of `kd11ea_reset` (the proofs allow any). A double bus error is
  modelled in `Kd11ea`, but the instruction set has no word for it, so no program
  of `processor` has an unusable kernel stack.
* *Conformance programs, captures and tools*, which are tests of the emulator.

The hazards in `PROJECT.json` that no property covers have a note that says why.
