----------------------------- MODULE MCIoSystem -----------------------------
(***************************************************************************)
(* Two machines for TLC: one whose program uses the terminal and the       *)
(* punch, with and without a file for it, and one whose program uses the   *)
(* terminal's output, the clock and the reader.                            *)
(***************************************************************************)
EXTENDS IoSystem

Terminal(file) == [used |-> {"rx", "tx", "ptp"}, tape |-> FALSE, punchFile |-> file]
Reader         == [used |-> {"tx", "clk", "ptr"}, tape |-> TRUE, punchFile |-> FALSE]
MCSites        == {Terminal(FALSE), Terminal(TRUE), Reader}

\* A machine whose program uses the receiver alone.
ReceiverSites == {[used |-> {"rx"}, tape |-> FALSE, punchFile |-> FALSE]}
=============================================================================
