\* Two workers write two rows four times; an answer has two changes at most.
SPECIFICATION FairSpec
CONSTANTS
  Rows = {r1, r2}
  Workers = {w1, w2}
  Limit = 2
  MaxSeq = 4
INVARIANT NothingSkipped
PROPERTIES CopiesNeverGoBack EachChangeArrives ImplementsReplica
