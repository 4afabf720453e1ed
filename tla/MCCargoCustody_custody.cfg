\* Two shipments of one trip, or one shipment with two trips or with two payments;
\* a vehicle has room for one shipment's load.
SPECIFICATION Spec
CONSTANTS
  Shipments = {s1, s2}
  Trips = {t1, t2}
  Payments = {p1, p2}
  Workers = {w1, w2}
  Edits = {e1}
  Nowhere = Nowhere
  Capacities = {1}
  Charge = 1
  Sizes <- TwoOfAKind
SYMMETRY Symmetry
INVARIANTS LimitsHold NothingUnderWayOnClosedTrip CashCountedOnce
CHECK_DEADLOCK FALSE
