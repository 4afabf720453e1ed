\* One user's requests for two seats over three stops, with a deadline.
SPECIFICATION Spec
CONSTANTS
  Users = {u1}
  Selectors = {}
  Seats = {s1, s2}
  Requests = {r1, r2}
  Workers = {w1, w2}
  NoWorker = NoWorker
  LastStop = 3
  LockTTL = 1
  MaxTime = 1
  Deadlines = {1}
SYMMETRY WorkerSymmetry
INVARIANTS NoDoubleBooking SeatsFollowBooking
PROPERTIES NoSaleAfterClose ImplementsInventory
CHECK_DEADLOCK FALSE
