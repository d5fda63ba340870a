CONSTANTS
  c1 = c1
  s1 = s1
  NoCall = NoCall
  Clients <- MCClients
  Simulated <- MCSimulated
  Supplies <- MCSupplies
  MaxTries = 2
  MaxPolls = 2
  FaultBudget = 1
SPECIFICATION FairSpec
INVARIANTS
  CleanStopAnswersAll
  OneRowPerNamedCall
  TallyHonest
CHECK_DEADLOCK FALSE
PROPERTIES
  AcceptedIsStored
  ShutdownEnds
  DashboardCatchesUp
