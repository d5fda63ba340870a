SPECIFICATION FairSpec
CONSTANTS
  c1 = c1  c2 = c2
  Consumers = {c1, c2}
  Api = api
  LastDay = 1
  EventDays = {2}
  MaxFaults = 1
INVARIANTS
  TypeOK
  KnownExist
  DefaultOnlyAfterFault
  InsertFindsTable
PROPERTIES
  MaintenanceEnsures
CHECK_DEADLOCK FALSE
