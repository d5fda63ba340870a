SPECIFICATION FairSpec
CONSTANTS
  w1 = w1  w2 = w2  p1 = p1  p2 = p2  e1 = e1  e2 = e2  bad = bad
  Workers = {w1}
  NoWorker = NoWorker
  Partitions = {p1, p2}
  EventIds = {e1, e2, bad}
  Stamps = {1}
  PartitionOf <- TwoPartitions
  Garbage = {bad}
  Invalid = {}
  Unstorable = {e2}
  MaxLog = 1
  MaxFaults <- AllFaults
  FaultBudget = 2
PROPERTIES
  
  EventuallyHandled
  EventuallyCommitted
  
CHECK_DEADLOCK FALSE
