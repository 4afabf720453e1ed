\* Three operations: two under one id, and one that raises.
SPECIFICATION FairSpec
CONSTANTS
  Size = 3
  Ids <- TwoIds
  IdOf <- ReusedId
  Raises = {3}
  Workers = {w1, w2}
  MaxCuts = 2
INVARIANTS AppliedOnce ToldTheTruth OneAnswer
PROPERTIES ImplementsLedger EveryItemIsAnswered
