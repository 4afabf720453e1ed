\* Two notifications, of which a batch takes one.
SPECIFICATION PushFairSpec
CONSTANTS
  Notes = {n1, n2}
  Dispatchers = {w1, w2}
  BatchSize = 1
  MaxAttempts = 2
INVARIANT PushTypeOK
PROPERTIES SentStaysSent QueuedIsTried
CHECK_DEADLOCK FALSE
