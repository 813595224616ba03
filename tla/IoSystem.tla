------------------------------ MODULE IoSystem ------------------------------
(***************************************************************************)
(* The character devices and the line clock on the bus, with the CPU as    *)
(* they see it: a program (or the halted console) that reads and writes    *)
(* their registers in any order, the interrupt grants of BUT SERVICE, the  *)
(* device tick of the run loop, bus INIT, halt, continue and boot.         *)
(***************************************************************************)
EXTENDS DL11, KW11, PC11

CONSTANTS Priorities,  \* the CPU priorities programs load into PSW 7-5
          Sites,       \* machines: the devices the program uses, named by vector,
                       \* and whether files are attached to reader and punch
          None         \* no vector

ASSUME PrioritiesAssumption == Priorities \subseteq 0..7
ASSUME SitesAssumption ==
         Sites \subseteq [used : SUBSET IoVectors, tape : BOOLEAN, punchFile : BOOLEAN]
ASSUME NoneAssumption == None \notin IoVectors

VARIABLES used,        \* the devices of the machine at hand
          dl, kw, pc,  \* the registers of the devices
          queue,       \* the interrupt controller's requests
          host,        \* the host terminal has a character waiting
          ipl,         \* PSW 7-5
          vector,      \* the vector being serviced, until its PSW is loaded
          running      \* ~halted

vars == <<used, dl, kw, pc, queue, host, ipl, vector, running>>
cpu  == <<used, ipl, vector, running>>

Init ==
  /\ \E s \in Sites : used = s.used /\ pc = PCPowerOn(s.tape, s.punchFile)
  /\ dl = DLCleared
  /\ kw = KWPowerOn
  /\ queue = <<>>
  /\ host = FALSE
  /\ ipl = 7
  /\ vector = None
  /\ running = TRUE

-----------------------------------------------------------------------------
(* Register accesses: by the program between two instructions' BUT SERVICE, *)
(* or by the console while the CPU is halted.                               *)

Access(device) == device \in used /\ (running => vector = None)

DL(r) == dl' = r.dev /\ queue' = r.q /\ UNCHANGED <<kw, pc>> /\ UNCHANGED cpu
KW(r) == kw' = r.dev /\ queue' = r.q /\ UNCHANGED <<dl, pc, host>> /\ UNCHANGED cpu
PC(r) == pc' = r.dev /\ queue' = r.q /\ UNCHANGED <<dl, kw, host>> /\ UNCHANGED cpu

ReadRcsr ==
  /\ Access("rx")
  /\ DL(DLReadRcsr(dl, queue, host))
  /\ host' = (host /\ ~DLTakes(dl, host))

ReadRbuf  == Access("rx") /\ DL(DLReadRbuf(dl, queue)) /\ UNCHANGED host
ReadXcsr  == Access("tx") /\ DL(DLTransmitEnd(dl, queue)) /\ UNCHANGED host
WriteRcsr == Access("rx") /\ \E ie \in BOOLEAN : DL(DLWriteRcsr(dl, queue, ie)) /\ UNCHANGED host
WriteXcsr == Access("tx") /\ \E ie \in BOOLEAN : DL(DLWriteXcsr(dl, queue, ie)) /\ UNCHANGED host
WriteXbuf == Access("tx") /\ DL(DLWriteXbuf(dl, queue)) /\ UNCHANGED host
WriteLks  == Access("clk") /\ \E ie \in BOOLEAN : KW(KWWrite(kw, queue, ie))
ReadPrs   == Access("ptr") /\ \E eof \in BOOLEAN : PC(PCReaderEnd(pc, queue, eof))
ReadPrb   == Access("ptr") /\ PC(PCReadPrb(pc, queue))
WritePrs  == Access("ptr") /\ \E ie, go \in BOOLEAN : PC(PCWritePrs(pc, queue, ie, go))
ReadPps   == Access("ptp") /\ \E fails \in BOOLEAN : PC(PCPunchEnd(pc, queue, fails))
WritePps  == Access("ptp") /\ \E ie \in BOOLEAN : PC(PCWritePps(pc, queue, ie))
WritePpb  == Access("ptp") /\ PC(PCWritePpb(pc, queue))

Program ==
  \/ ReadRcsr \/ ReadRbuf \/ ReadXcsr \/ WriteRcsr \/ WriteXcsr \/ WriteXbuf
  \/ WriteLks
  \/ ReadPrs \/ ReadPrb \/ WritePrs
  \/ ReadPps \/ WritePps \/ WritePpb

-----------------------------------------------------------------------------
(* The processor *)

\* BUT SERVICE with no trap pending: the request of the highest level above
\* the CPU priority is taken from the queue, and its vector goes to B.
Service ==
  /\ running /\ vector = None
  /\ Grantable(queue, ipl) # {}
  /\ LET i == FirstGrantable(queue, ipl)
     IN  vector' = queue[i] /\ queue' = SwapOut(queue, i)
  /\ UNCHANGED <<used, dl, kw, pc, host, ipl, running>>

\* The microcode loads the PSW from the vector's second word.
LoadVectorPsw ==
  /\ running /\ vector # None
  /\ ipl' \in Priorities
  /\ vector' = None
  /\ UNCHANGED <<used, dl, kw, pc, queue, host, running>>

\* RTI, RTT, a write to the PSW, or a trap.
LoadPsw ==
  /\ running /\ vector = None
  /\ ipl' \in Priorities
  /\ UNCHANGED <<used, dl, kw, pc, queue, host, vector, running>>

\* HALT, a breakpoint, a step count or the operator, at any micro-step.
Halt == running /\ running' = FALSE /\ UNCHANGED <<used, dl, kw, pc, queue, host, ipl, vector>>

Continue == ~running /\ running' = TRUE /\ UNCHANGED <<used, dl, kw, pc, queue, host, ipl, vector>>

\* bus_set_init: the receivers act in their registration order.
Initialised ==
  LET d == DLBusInit(dl, queue)
      k == KWBusInit(kw, d.q)
  IN  <<d, k, PCBusInit(pc, k.q)>>

\* RESET, or the console's INIT and START keys: an INIT pulse.
BusInit ==
  /\ vector = None \/ ~running
  /\ dl' = Initialised[1].dev /\ kw' = Initialised[2].dev /\ pc' = Initialised[3].dev
  /\ queue' = Initialised[3].q
  /\ UNCHANGED <<used, host, ipl, vector, running>>

\* Boot and power-on: INIT, a CPU reset (which empties the queue), then the
\* boot ROM's PC and PSW.
Boot ==
  /\ dl' = Initialised[1].dev /\ kw' = Initialised[2].dev /\ pc' = Initialised[3].dev
  /\ queue' = <<>>
  /\ ipl' \in Priorities /\ vector' = None /\ running' = TRUE
  /\ UNCHANGED <<used, host>>

-----------------------------------------------------------------------------
(* Time *)

\* machine_tick, every 256 micro-steps of a running CPU.
Tick ==
  /\ running
  /\ \E eof, fails \in BOOLEAN :
       LET d == DLTick(dl, queue, host)
           k == KWTick(kw, d.q)
           p == PCTick(pc, k.q, eof, fails)
       IN  dl' = d.dev /\ kw' = k.dev /\ pc' = p.dev /\ queue' = p.q
  /\ host' = (host /\ ~DLTakes(dl, host))
  /\ UNCHANGED cpu

\* machine_idle, while the CPU is halted: the DL11 alone.
Idle ==
  /\ ~running
  /\ DL(DLTick(dl, queue, host))
  /\ host' = (host /\ ~DLTakes(dl, host))

\* Simulated time advances, only while the CPU runs, past one deadline.
TransmitTime == running /\ dl.tx = "ahead" /\ dl' = [dl EXCEPT !.tx = "due"]
                /\ UNCHANGED <<used, kw, pc, queue, host, ipl, vector, running>>
LineEdge     == running /\ kw.edge = "ahead" /\ kw' = [kw EXCEPT !.edge = "due"]
                /\ UNCHANGED <<used, dl, pc, queue, host, ipl, vector, running>>
ReaderTime   == running /\ pc.read = "ahead" /\ pc' = [pc EXCEPT !.read = "due"]
                /\ UNCHANGED <<used, dl, kw, queue, host, ipl, vector, running>>
PunchTime    == running /\ pc.punch = "ahead" /\ pc' = [pc EXCEPT !.punch = "due"]
                /\ UNCHANGED <<used, dl, kw, queue, host, ipl, vector, running>>

\* The front end changes the mains frequency.
SetHz == kw' = KWSetHz(kw) /\ UNCHANGED <<used, dl, pc, queue, host, ipl, vector, running>>

\* Someone types.
HostTypes == ~host /\ host' = TRUE /\ UNCHANGED <<used, dl, kw, pc, queue, ipl, vector, running>>

Clock == TransmitTime \/ LineEdge \/ ReaderTime \/ PunchTime

Next ==
  \/ Program
  \/ Service \/ LoadVectorPsw \/ LoadPsw \/ Halt \/ Continue \/ BusInit \/ Boot
  \/ Tick \/ Idle \/ Clock \/ SetHz \/ HostTypes

Spec == Init /\ [][Next]_vars

\* tick_counter survives halts, so that even a CPU that is halted again and
\* again ticks the devices; simulated time passes every deadline while the CPU
\* runs; every instruction ends in a BUT SERVICE and a granted interrupt's
\* microcode runs to its end.
Fairness ==
  /\ SF_vars(Tick)
  /\ WF_vars(TransmitTime) /\ WF_vars(LineEdge) /\ WF_vars(ReaderTime) /\ WF_vars(PunchTime)
  /\ WF_vars(Service) /\ WF_vars(LoadVectorPsw)

FairSpec == Spec /\ Fairness

-----------------------------------------------------------------------------
TypeOK ==
  /\ used \in SUBSET IoVectors
  /\ dl \in DLStates /\ kw \in KWStates /\ pc \in PCStates
  /\ queue \in Seq(IoVectors) /\ Len(queue) <= 8
  /\ host \in BOOLEAN /\ running \in BOOLEAN
  /\ ipl \in 0..7 /\ vector \in IoVectors \cup {None}

\* A pending request is still wanted: its interrupt enable is set, and for
\* the paper tape its DONE or ERROR too.  Clearing IE, reading PRB, a new GO,
\* a new PPB and INIT must all withdraw what they make moot.
RequestsJustified ==
  /\ "rx"  \in Pending(queue) => dl.rie
  /\ "tx"  \in Pending(queue) => dl.tie
  /\ "clk" \in Pending(queue) => kw.ie
  /\ "ptr" \in Pending(queue) => pc.rie /\ (pc.rdone \/ pc.rerr)
  /\ "ptp" \in Pending(queue) => pc.pie /\ (pc.pdone \/ pc.perr)

\* A device is busy exactly as long as it has a deadline: none is left busy
\* for ever, and no completion is due for an operation INIT cut short.
BusyHasDeadline ==
  /\ ~dl.rdy   <=> dl.tx # "none"
  /\ pc.rbusy  <=> pc.read # "none"
  /\ ~pc.pdone <=> pc.punch # "none"

Rises(before, after, v) == (~before /\ after) => v \in Pending(queue')

\* The flag AND its enable clock the request flip-flop (DL11-W 4.3.2, PC11):
\* when they become true together, by either of them, the request is pending.
FlagAndEnableRequest ==
  [][/\ Rises(dl.rdy /\ dl.tie, dl'.rdy /\ dl'.tie, "tx")
     /\ Rises(pc.rdone /\ pc.rie, pc'.rdone /\ pc'.rie, "ptr")
     /\ Rises(pc.pdone /\ pc.pie, pc'.pdone /\ pc'.pie, "ptp")]_vars

\* dl11.c:109: DONE AND IE clocks the receiver's request flip-flop.
ReceiverDoneRequests ==
  [][Rises(dl.rdone /\ dl.rie, dl'.rdone /\ dl'.rie, "rx")]_vars

\* A transmitter that stays busy while the CPU runs is one the program never
\* stops writing to; the same for the punch.
BusyOnlyIfRewritten ==
  /\ <>[](running /\ ~dl.rdy) => []<><<WriteXbuf>>_vars
  /\ <>[](running /\ ~pc.pdone) => []<><<WritePpb>>_vars

\* A read of the tape ends, in a byte or in an error.
ReaderAnswers == pc.rbusy ~> (~pc.rbusy \/ ~running)

\* A character typed at the host terminal reaches an empty receiver.
CharacterArrives == (host /\ ~dl.rdone) ~> (dl.rdone \/ ~running)

\* With the clock enabled and the CPU at a priority below 6, line clock
\* interrupts keep coming, whatever the devices at BR4 request, unless the
\* frequency is changed over and over.
ClockKeepsInterrupting ==
  <>[](running /\ ipl < 6 /\ kw.ie) => ([]<>(vector = "clk") \/ []<><<SetHz>>_vars)
=============================================================================
