------------------------------ MODULE TripRoster ------------------------------
(***************************************************************************)
(* What HBT promises about who runs which trip, with no word of requests,  *)
(* locks or statuses: a trip that is not fixed yet is given a vehicle or a *)
(* driver that no trip of overlapping times has; a trip that has both is   *)
(* fixed, and what it has then it keeps.  An edit of a trip that has a     *)
(* crew makes it loose, and nothing is promised of a loose trip; an edit   *)
(* may also let a fixed trip go, with the crew it has.                     *)
(* TripResources is the detailed specification that implements this one.   *)
(***************************************************************************)
CONSTANTS Trips,
          Vehicles,
          Drivers,
          Windows,   \* planned times, each the set of instants it covers
          Nobody     \* no vehicle or driver is given

VARIABLES vehicle,   \* the vehicle given to each trip
          driver,    \* the driver given to each trip
          window,    \* the times of each trip
          fixed,     \* the trips whose crew stays
          loose      \* the trips an edit gave other times or another crew

roster == <<vehicle, driver, window, fixed, loose>>

Init ==
  /\ vehicle = [t \in Trips |-> Nobody]
  /\ driver = [t \in Trips |-> Nobody]
  /\ window \in [Trips -> Windows]
  /\ fixed = {}
  /\ loose = {}

(* No other trip that overlaps t has x. *)
Free(t, field, x) ==
  \A u \in Trips \ (loose \cup {t}) :
    window[u] \cap window[t] # {} => field[u] # x

GiveVehicle(t, v) ==
  /\ t \notin fixed
  /\ Free(t, vehicle, v)
  /\ vehicle' = [vehicle EXCEPT ![t] = v]
  /\ UNCHANGED <<driver, window, fixed, loose>>

GiveDriver(t, d) ==
  /\ t \notin fixed
  /\ Free(t, driver, d)
  /\ driver' = [driver EXCEPT ![t] = d]
  /\ UNCHANGED <<vehicle, window, fixed, loose>>

Fix(t) ==
  /\ t \notin fixed
  /\ vehicle[t] # Nobody /\ driver[t] # Nobody
  /\ fixed' = fixed \cup {t}
  /\ UNCHANGED <<vehicle, driver, window, loose>>

LetGo(t) ==
  /\ fixed' = fixed \ {t}
  /\ UNCHANGED <<vehicle, driver, window, loose>>

(* A trip nobody runs may be planned for other times. *)
Reschedule(t, W) ==
  /\ vehicle[t] = Nobody /\ driver[t] = Nobody
  /\ window' = [window EXCEPT ![t] = W]
  /\ UNCHANGED <<vehicle, driver, fixed, loose>>

Edit(t, v, d, W) ==
  /\ loose' = loose \cup {t}
  /\ vehicle' = [vehicle EXCEPT ![t] = v]
  /\ driver' = [driver EXCEPT ![t] = d]
  /\ window' = [window EXCEPT ![t] = W]
  /\ \/ fixed' = fixed \ {t}
     \/ Nobody \notin {v, d} /\ fixed' = fixed \cup {t}

Next ==
  \E t \in Trips :
    \/ \E v \in Vehicles : GiveVehicle(t, v)
    \/ \E d \in Drivers : GiveDriver(t, d)
    \/ Fix(t)
    \/ LetGo(t)
    \/ \E W \in Windows : Reschedule(t, W)
    \/ \E v \in Vehicles \cup {Nobody}, d \in Drivers \cup {Nobody},
          W \in Windows : Edit(t, v, d, W)

Spec == Init /\ [][Next]_roster
==============================================================================
