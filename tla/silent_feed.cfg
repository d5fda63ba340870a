SPECIFICATION Spec
CONSTANTS
  s1 = s1  s2 = s2
  Requests = {1, 2}
  Body <- BatchAndSingle
  BatchLimit = 2
  Streams = {s1}
  Buffer = 1
INVARIANTS
  FeedShowsCalls
CHECK_DEADLOCK FALSE
