SPECIFICATION Spec
CONSTANTS
  w1 = w1  w2 = w2  c1 = c1  c2 = c2
  Workers = {w1, w2}
  Calls = {c1, c2}
  Call <- SomeCalls
  Minute = 2
  Window = 1
  Grace = 2
  MaxSamples = 1
  Hour = 2
  LatencyHours = 3
  Ahead = 1
  Skew = 1
  LastStore = 2
  LastTick = 7
  FaultBudget = 1
  DefaultMinutes = 1
  MaxMinutes = 2
  DefaultHours = 2
  MaxHours = 3
  Half = 10
  Asked <- AskedValues
SYMMETRY WorkerSymmetry
INVARIANTS
  TypeOK
  
  LatestSamples
  KeysHaveDeadline
  
  PercentilesRight
  
  SeriesNamed
  
  PricedBySpecificName
CHECK_DEADLOCK FALSE
