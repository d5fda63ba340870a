SPECIFICATION Spec
CONSTANTS
  w1 = w1  w2 = w2  p1 = p1  p2 = p2  e1 = e1  e2 = e2  bad = bad
  Workers = {w1}
  NoWorker = NoWorker
  Partitions = {p1}
  EventIds = {e1}
  Stamps = {1, 2}
  PartitionOf <- OnePartition
  Garbage = {}
  Invalid = {}
  Unstorable = {}
  MaxLog = 2
  MaxFaults <- DbFault
  FaultBudget = 2
INVARIANT CommittedOnlyAfterNil
CHECK_DEADLOCK FALSE
