\* Two users race for the holds of one seat while a booking request runs.
SPECIFICATION FairSpec
CONSTANTS
  Users = {u1, u2}
  Selectors = {u1, u2}
  Seats = {s1}
  Requests = {r1}
  Workers = {w1, w2}
  NoWorker = NoWorker
  LastStop = 2
  LockTTL = 2
  MaxTime = 2
  Deadlines = {2}
INVARIANTS TypeOK OneHolderPerSeat
PROPERTIES EndedHoldStaysEnded HoldLastsItsTTL DeadlineIsEnforced TransactionsEnd
CHECK_DEADLOCK FALSE
