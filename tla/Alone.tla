-------------------------------- MODULE Alone --------------------------------
(* The three components that are checked by themselves, under an            *)
(* environment that may call any of their operations at any time: the       *)
(* interrupt controller, the logic analyzer and the machine's run loop,     *)
(* which leaves open what the CPU and the devices do.  They share no state, *)
(* so that one of them runs.                                                *)
EXTENDS IntController, ProbeWatch, MachineRunWatch

VARIABLE subject

alonevars == <<subject, vars, watchedvars, wvars>>

AloneInit ==
  /\ subject \in {"controller", "analyzer", "loop"}
  /\ Init /\ WatchInit /\ WInit
  /\ subject # "analyzer" => ~page /\ p = Powered(Deepest, CHOOSE s \in Samples : TRUE)
  /\ subject # "loop" => pc = CHOOSE a \in Addresses : TRUE

AloneNext ==
  /\ UNCHANGED subject
  /\ \/ subject = "controller" /\ Next /\ UNCHANGED <<watchedvars, wvars>>
     \/ subject = "analyzer" /\ WatchNext /\ UNCHANGED <<vars, wvars>>
     \/ subject = "loop" /\ WNext /\ UNCHANGED <<vars, watchedvars>>

\* The fairness of WFairSpec, when it is the run loop that runs.
AloneSpec ==
  /\ AloneInit /\ [][AloneNext]_alonevars
  /\ SF_wvars(WMicroStep) /\ WF_wvars(subject = "loop" /\ Run /\ UNCHANGED watch)

-----------------------------------------------------------------------------
AloneTypeOK == TypeOK /\ ProbeTypeOK /\ LoopTypeOK

\* Vectors as the machine has them, three at BR4, one at BR5, one at BR6, and
\* one at BR7, which E29 is wired for and no device requests; the queue has
\* places for exactly six.
MCVectors == {"rx", "tx", "ptr", "rk", "clk", "br7"}
MCLevel ==
  [v \in MCVectors |-> CASE v = "br7" -> 7 [] v = "clk" -> 6 [] v = "rk" -> 5 [] OTHER -> 4]
=============================================================================
