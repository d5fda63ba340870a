SPECIFICATION FairSpec
CONSTANTS
  s1 = s1  s2 = s2
  Requests = {1, 2, 3, 4, 5, 6}
  Body <- EveryAnswer
  BatchLimit = 2
  Streams = {s1}
  Buffer = 1
PROPERTIES
  EveryRequestAnswered
  NoLeakedStream
INVARIANTS
  AnswerAccounts
CHECK_DEADLOCK FALSE
