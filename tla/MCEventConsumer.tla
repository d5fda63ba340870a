--------------------------- MODULE MCEventConsumer ---------------------------
(***************************************************************************)
(* Instances of EventConsumer for TLC.                                     *)
(***************************************************************************)
EXTENDS EventConsumer, TLC

CONSTANTS w1, w2, p1, p2, e1, e2, bad

(* All events go to one partition; bad goes to the other, if there is one.  *)
OnePartition == [id \in EventIds |-> p1]
TwoPartitions == [id \in EventIds |-> IF id = e1 THEN p1 ELSE p2]

(* At most one fault of each of the kinds ks in a behaviour. *)
OneOfEach(ks) == [k \in FaultKind |-> IF k \in ks THEN 1 ELSE 0]

AllFaults == OneOfEach(FaultKind)
DbFault == OneOfEach({"db"})
CrashFault == OneOfEach({"crash"})
EvictFault == OneOfEach({"evict"})

WorkerSymmetry == Permutations(Workers)
=============================================================================
