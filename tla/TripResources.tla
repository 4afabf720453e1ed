---------------------------- MODULE TripResources ----------------------------
(***************************************************************************)
(* Vehicles and drivers on the trips of one company (backend/apps/         *)
(* scheduling and close_trip of backend/apps/operations).  Every service   *)
(* locks the row of its own trip.  An assignment also reads the company's  *)
(* other trips, which it does not lock: it is a read and a write of its    *)
(* worker.  TripDetailView, which edits the planned times, locks nothing:  *)
(* it reads the row, and later writes all of it, as it was but for the     *)
(* times.  Conductors are left out: one is assigned as a driver is, but    *)
(* READY does not ask for one.                                             *)
(***************************************************************************)
EXTENDS Naturals

CONSTANTS Trips,
          Vehicles,
          Drivers,
          Windows,    \* planned times, each the set of instants it covers
          Workers,    \* request handlers that assign
          Edits,      \* requests to TripDetailView, each handled once
          Nobody,     \* no vehicle or driver is assigned
          LastStop    \* the route's stops are 1..LastStop, 0 before the first

ASSUME NobodyAssumption == Nobody \notin Vehicles \cup Drivers
ASSUME DisjointAssumption == Vehicles \cap Drivers = {}
ASSUME LastStopAssumption == LastStop \in Nat \ {0}

VARIABLES status,   \* of each trip
          vehicle,  \* the vehicle assigned to each trip
          driver,   \* the driver assigned to each trip
          stop,     \* the stop each trip reached last
          window,   \* from planned_departure_at to planned_arrival_at
          closings, \* the trips that have a TripClosing row
          fleet,    \* status of each vehicle
          duty,     \* availability of each driver
          tx,       \* what each worker is doing
          form,     \* the row each edit read and is about to save
          edited,   \* history: trips given other times or crew by a save
          left      \* history: who a save took off a trip on the road

row == <<status, vehicle, driver, stop, window>>
history == <<edited, left>>
vars == <<row, closings, fleet, duty, tx, form, history>>

-----------------------------------------------------------------------------
(* CANCELLED, DELAYED, INTERRUPTED, COMPLETED and ARCHIVED are set nowhere. *)
TripStatus == {"planned", "ready", "boarding", "departed", "in_progress",
               "arrived", "closed"}
Assignable == {"planned", "ready"}
OnRoad == {"departed", "in_progress", "arrived"}

VehicleStatus == {"available", "reserved", "in_service"}
Availability == {"available", "assigned", "on_duty"}

Idle == [op |-> "idle"]
AssignTx == [op : {"vehicle"}, trip : Trips, new : Vehicles]
              \cup [op : {"driver"}, trip : Trips, new : Drivers]

Row == [status : TripStatus \ {"closed"}, vehicle : Vehicles \cup {Nobody},
        driver : Drivers \cup {Nobody}, stop : 0..LastStop, window : Windows]
ToRead == [at |-> "read"]
Answered == [at |-> "answered"]
Form == [at : {"save"}, trip : Trips, row : Row]

TypeOK ==
  /\ status \in [Trips -> TripStatus]
  /\ vehicle \in [Trips -> Vehicles \cup {Nobody}]
  /\ driver \in [Trips -> Drivers \cup {Nobody}]
  /\ stop \in [Trips -> 0..LastStop]
  /\ window \in [Trips -> Windows]
  /\ closings \subseteq Trips
  /\ fleet \in [Vehicles -> VehicleStatus]
  /\ duty \in [Drivers -> Availability]
  /\ tx \in [Workers -> AssignTx \cup {Idle}]
  /\ form \in [Edits -> Form \cup {ToRead, Answered}]
  /\ edited \subseteq Trips
  /\ left \subseteq Vehicles \cup Drivers

Init ==
  /\ status = [t \in Trips |-> "planned"]
  /\ vehicle = [t \in Trips |-> Nobody]
  /\ driver = [t \in Trips |-> Nobody]
  /\ stop = [t \in Trips |-> 0]
  /\ window \in [Trips -> Windows]
  /\ closings = {}
  /\ fleet = [v \in Vehicles |-> "available"]
  /\ duty = [d \in Drivers |-> "available"]
  /\ tx = [w \in Workers |-> Idle]
  /\ form = [e \in Edits |-> ToRead]
  /\ edited = {}
  /\ left = {}

-----------------------------------------------------------------------------
Overlapping(t) == {u \in Trips \ {t} : window[u] \cap window[t] # {}}

(* Mutant: the conflict query forgets trips that are ready. *)
ConflictWhilePlanned(t, field, x) ==
  \E u \in Overlapping(t) : field[u] = x /\ status[u] = "planned"

(* _conflicts, which does not leave out the trips that are closed. *)
Conflict(t, field, x) == \E u \in Overlapping(t) : field[u] = x

(* Mutant: an assignment does not lock its trip. *)
RowUnlocked(t) == t \in Trips

(* No worker holds the row lock of the trip. *)
RowFree(t) == t \notin {tx[w].trip : w \in {v \in Workers : tx[v] # Idle}}

SetStatus(t, s) == status' = [status EXCEPT ![t] = s]
SetFleet(t, s) == fleet' = [fleet EXCEPT ![vehicle[t]] = s]
SetDuty(t, s) == duty' = [duty EXCEPT ![driver[t]] = s]
Become(w, x) == tx' = [tx EXCEPT ![w] = x]

-----------------------------------------------------------------------------
(* Assignment *)

(* assign_vehicle; RESERVED vehicles may serve more trips. *)
ReadVehicle(w, t, v) ==
  /\ tx[w] = Idle
  /\ RowFree(t)
  /\ status[t] \in Assignable
  /\ fleet[v] \in {"available", "reserved"}
  /\ ~Conflict(t, vehicle, v)
  /\ Become(w, [op |-> "vehicle", trip |-> t, new |-> v])
  /\ UNCHANGED <<row, closings, fleet, duty, form, history>>

(* The vehicle that is replaced, RESERVED perhaps, is left as it is. *)
WriteVehicle(w) ==
  /\ tx[w].op = "vehicle"
  /\ vehicle' = [vehicle EXCEPT ![tx[w].trip] = tx[w].new]
  /\ Become(w, Idle)
  /\ UNCHANGED <<status, driver, stop, window, closings, fleet, duty, form,
                 history>>

(* assign_driver; only an AVAILABLE driver is eligible. *)
ReadDriver(w, t, d) ==
  /\ tx[w] = Idle
  /\ RowFree(t)
  /\ status[t] \in Assignable
  /\ duty[d] = "available"
  /\ ~Conflict(t, driver, d)
  /\ Become(w, [op |-> "driver", trip |-> t, new |-> d])
  /\ UNCHANGED <<row, closings, fleet, duty, form, history>>

WriteDriver(w) ==
  /\ tx[w].op = "driver"
  /\ driver' = [driver EXCEPT ![tx[w].trip] = tx[w].new]
  /\ Become(w, Idle)
  /\ UNCHANGED <<status, vehicle, stop, window, closings, fleet, duty, form,
                 history>>

(* A worker dies and its transaction rolls back. *)
Crash(w) ==
  /\ tx[w] # Idle
  /\ Become(w, Idle)
  /\ UNCHANGED <<row, closings, fleet, duty, form, history>>

-----------------------------------------------------------------------------
(* transition_trip, record_stop_reached and close_trip *)

Ready(t) ==
  /\ RowFree(t)
  /\ status[t] = "planned"
  /\ vehicle[t] # Nobody
  /\ driver[t] # Nobody
  /\ SetStatus(t, "ready")
  /\ SetFleet(t, "reserved")
  /\ SetDuty(t, "assigned")
  /\ UNCHANGED <<vehicle, driver, stop, window, closings, tx, form, history>>

(* Mutant: TRANSITIONS lets a planned trip board. *)
StartBoardingPlanned(t) ==
  /\ RowFree(t)
  /\ status[t] \in Assignable
  /\ SetStatus(t, "boarding")
  /\ UNCHANGED <<vehicle, driver, stop, window, closings, fleet, duty, tx, form,
                 history>>

StartBoarding(t) ==
  /\ RowFree(t)
  /\ status[t] = "ready"
  /\ SetStatus(t, "boarding")
  /\ UNCHANGED <<vehicle, driver, stop, window, closings, fleet, duty, tx, form,
                 history>>

Depart(t) ==
  /\ RowFree(t)
  /\ status[t] = "boarding"
  /\ SetStatus(t, "departed")
  /\ SetFleet(t, "in_service")
  /\ SetDuty(t, "on_duty")
  /\ UNCHANGED <<vehicle, driver, stop, window, closings, tx, form, history>>

EnRoute(t) ==
  /\ RowFree(t)
  /\ status[t] = "departed"
  /\ SetStatus(t, "in_progress")
  /\ UNCHANGED <<vehicle, driver, stop, window, closings, fleet, duty, tx, form,
                 history>>

ReachStop(t, s) ==
  /\ RowFree(t)
  /\ status[t] = "in_progress"
  /\ s > stop[t]
  /\ stop' = [stop EXCEPT ![t] = s]
  /\ UNCHANGED <<status, vehicle, driver, window, closings, fleet, duty, tx, form,
                 history>>

Arrive(t) ==
  /\ RowFree(t)
  /\ status[t] = "in_progress"
  /\ SetStatus(t, "arrived")
  /\ stop' = [stop EXCEPT ![t] = LastStop]
  /\ UNCHANGED <<vehicle, driver, window, closings, fleet, duty, tx, form,
                 history>>

(* Mutant: the vehicle stays IN_SERVICE. *)
CloseFreesDriver(t) ==
  /\ RowFree(t)
  /\ status[t] = "arrived"
  /\ t \notin closings
  /\ SetStatus(t, "closed")
  /\ closings' = closings \cup {t}
  /\ SetDuty(t, "available")
  /\ UNCHANGED <<vehicle, driver, stop, window, fleet, tx, form, history>>

(* close_trip, once nothing of the trip is unresolved: the vehicle and the *)
(* driver become AVAILABLE whatever other trip they were made ready for.   *)
(* A trip that a save put back is not closed twice: it has its closing.    *)
Close(t) ==
  /\ RowFree(t)
  /\ status[t] = "arrived"
  /\ t \notin closings
  /\ SetStatus(t, "closed")
  /\ closings' = closings \cup {t}
  /\ SetFleet(t, "available")
  /\ SetDuty(t, "available")
  /\ UNCHANGED <<vehicle, driver, stop, window, tx, form, history>>

-----------------------------------------------------------------------------
(* TripDetailView *)

(* get_object and the checks of TripSerializer: a closed trip is refused,  *)
(* and nothing is asked of the vehicle and driver at the times W.          *)
EditRead(e, t, W) ==
  /\ form[e] = ToRead
  /\ status[t] # "closed"
  /\ form' = [form EXCEPT ![e] =
       [at |-> "save", trip |-> t,
        row |-> [status |-> status[t], vehicle |-> vehicle[t],
                 driver |-> driver[t], stop |-> stop[t], window |-> W]]]
  /\ UNCHANGED <<row, closings, fleet, duty, tx, history>>

(* The row r gives trip t other times, or another vehicle or driver. *)
ChangesCrewOrTimes(t, r) ==
  /\ {vehicle[t], driver[t], r.vehicle, r.driver} # {Nobody}
  /\ <<vehicle[t], driver[t], window[t]>> # <<r.vehicle, r.driver, r.window>>

(* The vehicle and driver of trip t that are on the road, by r no longer. *)
TakenOff(t, r) ==
  {x \in {vehicle[t], driver[t]} :
     /\ status[t] \in OnRoad
     /\ r.status \notin OnRoad \/ x \notin {r.vehicle, r.driver}}

(* serializer.save() writes every column: it waits for a service that has  *)
(* locked the row, then puts back whatever was changed since it was read.  *)
EditSave(e) ==
  LET t == form[e].trip
      r == form[e].row
  IN /\ form[e].at = "save"
     /\ RowFree(t)
     /\ status' = [status EXCEPT ![t] = r.status]
     /\ vehicle' = [vehicle EXCEPT ![t] = r.vehicle]
     /\ driver' = [driver EXCEPT ![t] = r.driver]
     /\ stop' = [stop EXCEPT ![t] = r.stop]
     /\ window' = [window EXCEPT ![t] = r.window]
     /\ form' = [form EXCEPT ![e] = Answered]
     /\ edited' = edited \cup {u \in {t} : ChangesCrewOrTimes(u, r)}
     /\ left' = left \cup TakenOff(t, r)
     /\ UNCHANGED <<closings, fleet, duty, tx>>

(* The request is refused or dies. *)
EditDrop(e) ==
  /\ form[e].at = "save"
  /\ form' = [form EXCEPT ![e] = Answered]
  /\ UNCHANGED <<row, closings, fleet, duty, tx, history>>

-----------------------------------------------------------------------------
TripStep(t) ==
  \/ Ready(t) \/ StartBoarding(t) \/ Depart(t) \/ EnRoute(t)
  \/ Arrive(t) \/ Close(t)
  \/ \E s \in 1..LastStop : ReachStop(t, s)

WorkerStep(w) ==
  \/ \E t \in Trips : \/ \E v \in Vehicles : ReadVehicle(w, t, v)
                      \/ \E d \in Drivers : ReadDriver(w, t, d)
  \/ WriteVehicle(w) \/ WriteDriver(w) \/ Crash(w)

EditStep(e) ==
  \/ \E t \in Trips : \E W \in Windows : EditRead(e, t, W)
  \/ EditSave(e) \/ EditDrop(e)

Next ==
  \/ \E t \in Trips : TripStep(t)
  \/ \E w \in Workers : WorkerStep(w)
  \/ \E e \in Edits : EditStep(e)

Spec == Init /\ [][Next]_vars

-----------------------------------------------------------------------------
(* Properties *)

(* "Vehicle is assigned to an overlapping trip", and the same for drivers  *)
(* (the refusals of assign_vehicle and assign_driver): two trips whose     *)
(* times overlap never share a vehicle or a driver, unless TripDetailView  *)
(* gave one of them, which had a crew, other times or another crew.        *)
NoSharedResource ==
  \A t \in Trips \ edited : \A u \in Overlapping(t) \ edited :
    /\ vehicle[t] # Nobody => vehicle[u] # vehicle[t]
    /\ driver[t] # Nobody => driver[u] # driver[t]

(* The step saves trip t through TripDetailView. *)
Saved(t) ==
  \E e \in Edits : form[e].at = "save" /\ form[e].trip = t /\ form'[e] = Answered

(* Once a trip boards its vehicle, so the seat layout it was sold on, and  *)
(* its driver stay, and from READY on it has both: an assignment whose     *)
(* checks found the trip assignable does not land after boarding began.    *)
(* Only a save of TripDetailView may put back the crew it read earlier.    *)
CrewIsFixedAtBoarding ==
  [][\A t \in Trips : status[t] \notin Assignable =>
       /\ Nobody \notin {vehicle[t], driver[t]}
       /\ ~Saved(t) => vehicle'[t] = vehicle[t] /\ driver'[t] = driver[t]]_vars

(* A vehicle shown IN_SERVICE and a driver shown ON_DUTY are on some trip  *)
(* that departed and is not closed, whatever other trips they were made    *)
(* ready for, taken off or closed with, unless a save of TripDetailView    *)
(* took them off a trip on the road by putting back what it read earlier.  *)
InServiceMeansOnRoad ==
  /\ \A v \in Vehicles \ left : fleet[v] = "in_service" =>
       \E t \in Trips : vehicle[t] = v /\ status[t] \in OnRoad
  /\ \A d \in Drivers \ left : duty[d] = "on_duty" =>
       \E t \in Trips : driver[t] = d /\ status[t] \in OnRoad

-----------------------------------------------------------------------------
(* TripResources implements TripRoster, whose vehicles and drivers are its *)
(* own: an assignment gives at its write, the start of boarding fixes.     *)
Fixed == {t \in Trips : status[t] \notin Assignable}

Roster == INSTANCE TripRoster WITH fixed <- Fixed, loose <- edited

(* An assignment takes effect as if its checks were made at its write: no  *)
(* step in between makes untrue what they found of the trips that no edit  *)
(* changed, although only the trip assigned is locked; so long as two      *)
(* assignments do not meet.                                                *)
ImplementsRoster == Roster!Spec
==============================================================================
