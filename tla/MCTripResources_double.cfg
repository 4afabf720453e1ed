\* Two dispatchers assign one vehicle to trips at the same time; none is edited.
SPECIFICATION Spec
CONSTANTS
  Trips = {t1, t2}
  Vehicles = {v1}
  Drivers = {d1}
  Windows <- SameTime
  Workers = {w1, w2}
  Edits = {}
  Nobody = Nobody
  LastStop = 1
SYMMETRY Symmetry
INVARIANT NoSharedResource
CHECK_DEADLOCK FALSE
