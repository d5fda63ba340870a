SPECIFICATION FairSpec
CONSTANTS
  c1 = c1  c2 = c2
  Consumers = {c1}
  Api = api
  LastDay = 0
  EventDays = {2}
  MaxFaults = 1
PROPERTIES
  DaysAheadExist
CHECK_DEADLOCK FALSE
