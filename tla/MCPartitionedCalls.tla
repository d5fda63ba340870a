-------------------------- MODULE MCPartitionedCalls --------------------------
(***************************************************************************)
(* Instances of PartitionedCalls for TLC.                                  *)
(***************************************************************************)
EXTENDS PartitionedCalls

CONSTANTS c1, c2
=============================================================================
