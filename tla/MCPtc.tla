------------------------------- MODULE MCPtc -------------------------------
(* Sketches with two nodes: one for the state machine, with readings that  *)
(* let the reference drift and collapse; one that switches nodes on and    *)
(* off, one that changes the type and measures for itself; and ones that   *)
(* sleep.                                                                  *)
EXTENDS Ptc

MCType == [n \in Nodes |-> "selfcap"]

Filters == [calls |-> {"recal"}, nodes |-> Nodes, readings |-> <<{300, 511, 514, 540}, {511}>>]
Switches == [calls |-> {"flags"}, nodes |-> Nodes, readings |-> <<{511}, {511}>>]
Touched == [calls |-> {"flags"}, nodes |-> {1}, readings |-> <<{511, 540}, {511}>>]
Changes == [calls |-> {"type", "suspend"}, nodes |-> Nodes, readings |-> <<{511}, {511}>>]
Sleeps == [calls |-> {"low power", "drift"}, nodes |-> {2}, readings |-> <<{511}, {511, 540}>>]
MCSketches == {Filters, Switches, Touched, Changes, Sleeps}
MCSleeping == {Sleeps}
=============================================================================
