\* Three trips at two times of the day share two vehicles and a driver; one is edited.
SPECIFICATION Spec
CONSTANTS
  Trips = {t1, t2, t3}
  Vehicles = {v1, v2}
  Drivers = {d1}
  Windows <- TwoTimes
  Workers = {w1}
  Edits = {e1}
  Nobody = Nobody
  LastStop = 1
SYMMETRY Symmetry
INVARIANTS NoSharedResource InServiceMeansOnRoad
PROPERTIES CrewIsFixedAtBoarding ImplementsRoster
CHECK_DEADLOCK FALSE
