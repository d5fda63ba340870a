SPECIFICATION Spec
CONSTANTS
  s1 = s1  s2 = s2
  Requests = {1, 2}
  Body <- TwoBatches
  BatchLimit = 3
  Streams = {s1, s2}
  Buffer = 2
SYMMETRY StreamSymmetry
INVARIANTS
  TypeOK
  NeverPanics
  ShownIsQueued
  OrderOfRequest
  
CHECK_DEADLOCK FALSE
