------------------------------ MODULE MCPipeline ------------------------------
(* Pipeline with small sets of calls for TLC.                               *)
EXTENDS Pipeline

CONSTANTS c1, s1

MCClients == {c1}
MCSimulated == {s1}

(* The client names and stamps its call, as the simulator does.             *)
MCSupplies == [c \in MCClients |-> "both"]
=============================================================================
