-------------------------- MODULE TripResourcesProofs --------------------------
(***************************************************************************)
(* Proofs about TripResources for any trips, vehicles, drivers and number  *)
(* of workers.  The row lock of a trip carries everything here: a trip     *)
(* steps only while no assignment to it is under way, so an assignment     *)
(* writes to a trip that is still assignable; an edit, which locks nothing *)
(* and writes what it read, waits for that lock when it saves.             *)
(* NoSharedResource needs the rows of other trips, which nobody locks; it  *)
(* is proved for as long as no two workers give one vehicle or driver to   *)
(* overlapping trips at once.                                              *)
(***************************************************************************)
EXTENDS TripResources, TLAPS

(* A trip stays assignable while an assignment to it is under way. *)
LockedStaysAssignable ==
  \A w \in Workers : tx[w] # Idle => status[tx[w].trip] \in Assignable

(* Only a planned trip may lack a vehicle or a driver. *)
Crewed ==
  \A t \in Trips : status[t] # "planned" =>
    vehicle[t] # Nobody /\ driver[t] # Nobody

(* So it is with the rows that edits read. *)
FormsCrewed ==
  \A e \in Edits : form[e].at = "save" /\ form[e].row.status # "planned" =>
    form[e].row.vehicle # Nobody /\ form[e].row.driver # Nobody

IInv ==
  /\ TypeOK
  /\ LockedStaysAssignable
  /\ Crewed
  /\ FormsCrewed
  /\ InServiceMeansOnRoad

-----------------------------------------------------------------------------
LEMMA TypeInit == Init => TypeOK
BY LastStopAssumption
DEF Init, TypeOK, TripStatus, VehicleStatus, Availability

(* Only an edit changes the times of a trip or what is noted of edits. *)
LEMMA OthersLeaveForms ==
  ASSUME \/ \E t \in Trips : TripStep(t)
         \/ \E w \in Workers : WorkerStep(w)
  PROVE  UNCHANGED <<window, form, edited, left>>
BY DEF TripStep, Ready, StartBoarding, Depart, EnRoute, Arrive, Close,
       ReachStop, WorkerStep, ReadVehicle, ReadDriver, WriteVehicle,
       WriteDriver, Crash, row, history

LEMMA TripTypes ==
  ASSUME TypeOK, Crewed, NEW t \in Trips, TripStep(t)
  PROVE  TypeOK'
<1> USE DEF TypeOK, TripStatus, VehicleStatus, Availability, row, history
<1>1. ASSUME Ready(t) PROVE TypeOK'
  BY <1>1 DEF Ready, SetStatus, SetFleet, SetDuty
<1>2. ASSUME StartBoarding(t) PROVE TypeOK'
  BY <1>2 DEF StartBoarding, SetStatus
<1>3. ASSUME Depart(t) PROVE TypeOK'
  BY <1>3 DEF Depart, SetStatus, SetFleet, SetDuty
<1>4. ASSUME EnRoute(t) PROVE TypeOK'
  BY <1>4 DEF EnRoute, SetStatus
<1>5. ASSUME Arrive(t) PROVE TypeOK'
  BY <1>5, LastStopAssumption DEF Arrive, SetStatus
<1>6. ASSUME Close(t) PROVE TypeOK'
  BY <1>6 DEF Close, SetStatus, SetFleet, SetDuty
<1>7. ASSUME NEW s \in 1..LastStop, ReachStop(t, s) PROVE TypeOK'
  BY <1>7, LastStopAssumption DEF ReachStop
<1> QED
  BY <1>1, <1>2, <1>3, <1>4, <1>5, <1>6, <1>7 DEF TripStep

(* What a worker writes is a vehicle, or a driver, for the trip it locked. *)
LEMMA WritesAResource ==
  ASSUME TypeOK, NEW w \in Workers
  PROVE  /\ tx[w].op = "vehicle" =>
              tx[w] # Idle /\ tx[w].trip \in Trips /\ tx[w].new \in Vehicles
         /\ tx[w].op = "driver" =>
              tx[w] # Idle /\ tx[w].trip \in Trips /\ tx[w].new \in Drivers
<1>1. tx[w] = Idle \/ tx[w] \in [op : {"vehicle"}, trip : Trips, new : Vehicles]
                   \/ tx[w] \in [op : {"driver"}, trip : Trips, new : Drivers]
  BY DEF TypeOK, AssignTx
<1>2. CASE tx[w] = Idle
  BY <1>2 DEF Idle
<1>3. CASE tx[w] \in [op : {"vehicle"}, trip : Trips, new : Vehicles]
  BY <1>3 DEF Idle
<1>4. CASE tx[w] \in [op : {"driver"}, trip : Trips, new : Drivers]
  BY <1>4 DEF Idle
<1> QED
  BY <1>1, <1>2, <1>3, <1>4

LEMMA WorkerTypes ==
  ASSUME TypeOK, NEW w \in Workers, WorkerStep(w)
  PROVE  TypeOK'
<1>1. ASSUME NEW t \in Trips, NEW v \in Vehicles, ReadVehicle(w, t, v)
      PROVE  TypeOK'
  <2>1. [op |-> "vehicle", trip |-> t, new |-> v] \in AssignTx
    BY DEF AssignTx
  <2> QED
    BY <1>1, <2>1 DEF ReadVehicle, Become, TypeOK, row, history
<1>2. ASSUME NEW t \in Trips, NEW d \in Drivers, ReadDriver(w, t, d)
      PROVE  TypeOK'
  <2>1. [op |-> "driver", trip |-> t, new |-> d] \in AssignTx
    BY DEF AssignTx
  <2> QED
    BY <1>2, <2>1 DEF ReadDriver, Become, TypeOK, row, history
<1>3. ASSUME WriteVehicle(w) PROVE TypeOK'
  BY <1>3, WritesAResource DEF WriteVehicle, Become, TypeOK, row, history
<1>4. ASSUME WriteDriver(w) PROVE TypeOK'
  BY <1>4, WritesAResource DEF WriteDriver, Become, TypeOK, row, history
<1>5. ASSUME Crash(w) PROVE TypeOK'
  BY <1>5 DEF Crash, Become, TypeOK, row, history
<1> QED
  BY <1>1, <1>2, <1>3, <1>4, <1>5 DEF WorkerStep

(* What an edit is about to save is a row of the trip it read. *)
LEMMA SavesARow ==
  ASSUME TypeOK, NEW e \in Edits, form[e].at = "save"
  PROVE  form[e].trip \in Trips /\ form[e].row \in Row
<1>1. form[e] \in Form \/ form[e] = ToRead \/ form[e] = Answered
  BY DEF TypeOK
<1> QED
  BY <1>1 DEF Form, ToRead, Answered

LEMMA EditTypes ==
  ASSUME TypeOK, Crewed, NEW e \in Edits, EditStep(e)
  PROVE  TypeOK'
<1>1. ASSUME NEW t \in Trips, NEW W \in Windows, EditRead(e, t, W)
      PROVE  TypeOK'
  <2>1. [at |-> "save", trip |-> t,
         row |-> [status |-> status[t], vehicle |-> vehicle[t],
                  driver |-> driver[t], stop |-> stop[t], window |-> W]] \in Form
    BY <1>1 DEF EditRead, TypeOK, Form, Row
  <2> QED
    BY <1>1, <2>1 DEF EditRead, TypeOK, row, history
<1>2. ASSUME EditSave(e) PROVE TypeOK'
  <2> DEFINE t == form[e].trip
             r == form[e].row
  <2>1. t \in Trips /\ r \in Row
    BY <1>2, SavesARow DEF EditSave
  <2>2. /\ r.status \in TripStatus /\ r.vehicle \in Vehicles \cup {Nobody}
        /\ r.driver \in Drivers \cup {Nobody} /\ r.stop \in 0..LastStop
        /\ r.window \in Windows
    BY <2>1 DEF Row
  <2>3. \A x \in TakenOff(t, r) : x \in {vehicle[t], driver[t]}
          /\ status[t] \in OnRoad
    BY DEF TakenOff
  <2>4. left' \subseteq Vehicles \cup Drivers
    BY <1>2, <2>1, <2>3 DEF EditSave, TypeOK, Crewed, OnRoad
  <2> HIDE DEF t, r
  <2> QED
    BY <1>2, <2>1, <2>2, <2>4 DEF EditSave, TypeOK, t, r
<1>3. ASSUME EditDrop(e) PROVE TypeOK'
  BY <1>3 DEF EditDrop, TypeOK, row, history
<1> QED
  BY <1>1, <1>2, <1>3 DEF EditStep

-----------------------------------------------------------------------------
(* A trip's own step leaves what locks another trip alone. *)
LEMMA TripKeepsLocks ==
  ASSUME TypeOK, LockedStaysAssignable, NEW t \in Trips, TripStep(t)
  PROVE  LockedStaysAssignable'
<1>1. RowFree(t) /\ tx' = tx
  BY DEF TripStep, Ready, StartBoarding, Depart, EnRoute, Arrive, Close,
         ReachStop
<1>2. \A u \in Trips : u # t => status'[u] = status[u]
  BY DEF TripStep, Ready, StartBoarding, Depart, EnRoute, Arrive, Close,
         ReachStop, SetStatus, TypeOK
<1>3. ASSUME NEW w \in Workers, tx[w] # Idle
      PROVE  tx[w].trip \in Trips /\ tx[w].trip # t
  BY <1>1, <1>3 DEF RowFree, TypeOK, AssignTx
<1> QED
  BY <1>1, <1>2, <1>3 DEF LockedStaysAssignable

LEMMA TripKeepsCrew ==
  ASSUME TypeOK, Crewed, NEW t \in Trips, TripStep(t)
  PROVE  Crewed' /\ vehicle' = vehicle /\ driver' = driver
<1>1. vehicle' = vehicle /\ driver' = driver
  BY DEF TripStep, Ready, StartBoarding, Depart, EnRoute, Arrive, Close,
         ReachStop
<1>2. \A u \in Trips : u # t => status'[u] = status[u]
  BY DEF TripStep, Ready, StartBoarding, Depart, EnRoute, Arrive, Close,
         ReachStop, SetStatus, TypeOK
<1>3. vehicle[t] # Nobody /\ driver[t] # Nobody
  BY DEF TripStep, Ready, StartBoarding, Depart, EnRoute, Arrive, Close,
         ReachStop, Crewed
<1> QED
  BY <1>1, <1>2, <1>3 DEF Crewed

(* The status of a resource that a step sets leaves the others alone; the  *)
(* step that sets IN_SERVICE and ON_DUTY puts its trip on the road, and    *)
(* only the one that frees its resources takes it off.                     *)
LEMMA TripKeepsService ==
  ASSUME TypeOK, Crewed, InServiceMeansOnRoad, NEW t \in Trips, TripStep(t)
  PROVE  InServiceMeansOnRoad'
<1> USE DEF TypeOK, InServiceMeansOnRoad, OnRoad
<1>0. UNCHANGED <<vehicle, driver, left>>
  BY TripKeepsCrew, OthersLeaveForms
<1>1. ASSUME Ready(t) PROVE InServiceMeansOnRoad'
  BY <1>0, <1>1 DEF Ready, SetStatus, SetFleet, SetDuty
<1>2. ASSUME StartBoarding(t) PROVE InServiceMeansOnRoad'
  BY <1>0, <1>2 DEF StartBoarding, SetStatus
<1>3. ASSUME Depart(t) PROVE InServiceMeansOnRoad'
  BY <1>0, <1>3 DEF Depart, SetStatus, SetFleet, SetDuty
<1>4. ASSUME EnRoute(t) PROVE InServiceMeansOnRoad'
  BY <1>0, <1>4 DEF EnRoute, SetStatus
<1>5. ASSUME Arrive(t) PROVE InServiceMeansOnRoad'
  BY <1>0, <1>5 DEF Arrive, SetStatus
<1>6. ASSUME Close(t) PROVE InServiceMeansOnRoad'
  BY <1>0, <1>6 DEF Close, SetStatus, SetFleet, SetDuty
<1>7. ASSUME NEW s \in 1..LastStop, ReachStop(t, s)
      PROVE  InServiceMeansOnRoad'
  BY <1>0, <1>7 DEF ReachStop
<1> QED
  BY <1>1, <1>2, <1>3, <1>4, <1>5, <1>6, <1>7 DEF TripStep

-----------------------------------------------------------------------------
(* An assignment writes to a trip that is assignable, and nobody else's. *)
LEMMA WorkerWrites ==
  ASSUME TypeOK, LockedStaysAssignable, NEW w \in Workers, WorkerStep(w)
  PROVE  /\ status' = status /\ fleet' = fleet /\ duty' = duty
         /\ \A t \in Trips : status[t] \notin Assignable =>
              vehicle'[t] = vehicle[t] /\ driver'[t] = driver[t]
         /\ \A t \in Trips : vehicle[t] # Nobody => vehicle'[t] # Nobody
         /\ \A t \in Trips : driver[t] # Nobody => driver'[t] # Nobody
<1>1. CASE WriteVehicle(w)
  <2>1. tx[w].trip \in Trips /\ tx[w].new \in Vehicles /\ tx[w] # Idle
    BY <1>1, WritesAResource DEF WriteVehicle
  <2>2. status[tx[w].trip] \in Assignable
    BY <2>1 DEF LockedStaysAssignable
  <2> QED
    BY <1>1, <2>1, <2>2, NobodyAssumption DEF WriteVehicle, TypeOK
<1>2. CASE WriteDriver(w)
  <2>1. tx[w].trip \in Trips /\ tx[w].new \in Drivers /\ tx[w] # Idle
    BY <1>2, WritesAResource DEF WriteDriver
  <2>2. status[tx[w].trip] \in Assignable
    BY <2>1 DEF LockedStaysAssignable
  <2> QED
    BY <1>2, <2>1, <2>2, NobodyAssumption DEF WriteDriver, TypeOK
<1>3. CASE ~WriteVehicle(w) /\ ~WriteDriver(w)
  BY <1>3 DEF WorkerStep, ReadVehicle, ReadDriver, Crash, row
<1> QED
  BY <1>1, <1>2, <1>3

LEMMA WorkerKeepsLocks ==
  ASSUME TypeOK, LockedStaysAssignable, NEW w \in Workers, WorkerStep(w)
  PROVE  LockedStaysAssignable'
<1>1. status' = status
  BY WorkerWrites
<1>2. \A v \in Workers : v # w => tx'[v] = tx[v]
  BY DEF WorkerStep, ReadVehicle, WriteVehicle, ReadDriver, WriteDriver, Crash,
         Become, TypeOK
<1>3. tx'[w] # Idle => status[tx'[w].trip] \in Assignable
  BY DEF WorkerStep, ReadVehicle, WriteVehicle, ReadDriver, WriteDriver, Crash,
         Become, TypeOK
<1> QED
  BY <1>1, <1>2, <1>3 DEF LockedStaysAssignable

LEMMA WorkerKeepsService ==
  ASSUME TypeOK, LockedStaysAssignable, InServiceMeansOnRoad,
         NEW w \in Workers, WorkerStep(w)
  PROVE  InServiceMeansOnRoad'
<1>1. \A t \in Trips : status[t] \in OnRoad => status[t] \notin Assignable
  BY DEF OnRoad, Assignable
<1> QED
  BY <1>1, WorkerWrites, OthersLeaveForms DEF InServiceMeansOnRoad

-----------------------------------------------------------------------------
(* A save writes, to a trip no assignment is under way for, the row that   *)
(* was read of it, and leaves the other trips alone.                       *)
LEMMA SaveWrites ==
  ASSUME TypeOK, FormsCrewed, NEW e \in Edits, EditSave(e)
  PROVE  LET t == form[e].trip
             r == form[e].row
         IN /\ t \in Trips /\ RowFree(t) /\ r \in Row
            /\ r.status # "planned" => r.vehicle # Nobody /\ r.driver # Nobody
            /\ status'[t] = r.status /\ window'[t] = r.window
            /\ vehicle'[t] = r.vehicle /\ driver'[t] = r.driver
            /\ \A u \in Trips \ {t} :
                 /\ status'[u] = status[u] /\ window'[u] = window[u]
                 /\ vehicle'[u] = vehicle[u] /\ driver'[u] = driver[u]
            /\ edited' = edited \cup {u \in {t} : ChangesCrewOrTimes(u, r)}
            /\ left' = left \cup TakenOff(t, r)
            /\ UNCHANGED <<fleet, duty, tx>>
            /\ Saved(t)
<1>1. form[e].at = "save"
  BY DEF EditSave
<1>2. form[e].trip \in Trips /\ form[e].row \in Row
  BY <1>1, SavesARow
<1>3. form'[e] = Answered
  BY DEF EditSave, TypeOK
<1>4. Saved(form[e].trip)
  BY <1>1, <1>3 DEF Saved
<1>5. form[e].row.status # "planned" =>
        form[e].row.vehicle # Nobody /\ form[e].row.driver # Nobody
  BY <1>1 DEF FormsCrewed
<1> QED
  BY <1>2, <1>4, <1>5 DEF EditSave, TypeOK

LEMMA EditKeepsLocks ==
  ASSUME TypeOK, LockedStaysAssignable, FormsCrewed, NEW e \in Edits, EditStep(e)
  PROVE  LockedStaysAssignable'
<1>1. CASE EditSave(e)
  <2>1. \A w \in Workers : tx[w] # Idle => tx[w].trip # form[e].trip
    BY <1>1 DEF EditSave, RowFree
  <2>2. \A w \in Workers : tx[w] # Idle => tx[w].trip \in Trips
    BY DEF TypeOK, AssignTx
  <2> QED
    BY <1>1, <2>1, <2>2, SaveWrites DEF LockedStaysAssignable
<1>2. CASE ~EditSave(e)
  BY <1>2 DEF EditStep, EditRead, EditDrop, LockedStaysAssignable, row
<1> QED
  BY <1>1, <1>2

LEMMA EditKeepsCrewed ==
  ASSUME TypeOK, Crewed, FormsCrewed, NEW e \in Edits, EditStep(e)
  PROVE  Crewed' /\ FormsCrewed'
<1>1. ASSUME NEW t \in Trips, NEW W \in Windows, EditRead(e, t, W)
      PROVE  Crewed' /\ FormsCrewed'
  <2> DEFINE r == [status |-> status[t], vehicle |-> vehicle[t],
                   driver |-> driver[t], stop |-> stop[t], window |-> W]
  <2>1. form' = [form EXCEPT ![e] = [at |-> "save", trip |-> t, row |-> r]]
    BY <1>1 DEF EditRead
  <2>2. \A f \in Edits \ {e} : form'[f] = form[f]
    BY <2>1 DEF TypeOK
  <2>3. form'[e].row = r
    BY <2>1 DEF TypeOK
  <2>4. r.status # "planned" => r.vehicle # Nobody /\ r.driver # Nobody
    BY DEF Crewed
  <2> HIDE DEF r
  <2>5. FormsCrewed'
    BY <2>2, <2>3, <2>4 DEF FormsCrewed
  <2> QED
    BY <1>1, <2>5 DEF EditRead, Crewed, row
<1>2. CASE EditSave(e)
  <2>1. FormsCrewed'
    BY <1>2 DEF EditSave, FormsCrewed, TypeOK, Answered
  <2>2. Crewed'
    BY <1>2, SaveWrites DEF Crewed
  <2> QED
    BY <2>1, <2>2
<1>3. CASE EditDrop(e)
  BY <1>3 DEF EditDrop, FormsCrewed, Crewed, TypeOK, Answered, row
<1> QED
  BY <1>1, <1>2, <1>3 DEF EditStep

(* Whom a save takes off the road it notes. *)
LEMMA EditKeepsService ==
  ASSUME TypeOK, FormsCrewed, InServiceMeansOnRoad, NEW e \in Edits, EditStep(e)
  PROVE  InServiceMeansOnRoad'
<1>1. CASE EditSave(e)
  <2> DEFINE t == form[e].trip
             r == form[e].row
  <2>1. /\ t \in Trips
        /\ status'[t] = r.status /\ vehicle'[t] = r.vehicle
        /\ driver'[t] = r.driver
        /\ \A u \in Trips \ {t} :
             /\ status'[u] = status[u] /\ vehicle'[u] = vehicle[u]
             /\ driver'[u] = driver[u]
        /\ left' = left \cup TakenOff(t, r)
        /\ UNCHANGED <<fleet, duty>>
    BY <1>1, SaveWrites
  <2>2. r.vehicle \in Vehicles \cup {Nobody} /\ r.driver \in Drivers \cup {Nobody}
    BY <1>1, SaveWrites DEF Row
  <2>3. vehicle[t] \in Vehicles \cup {Nobody} /\ driver[t] \in Drivers \cup {Nobody}
    BY <2>1 DEF TypeOK
  <2> HIDE DEF t, r
  <2>4. ASSUME NEW v \in Vehicles \ left', vehicle[t] = v, status[t] \in OnRoad
        PROVE  vehicle'[t] = v /\ status'[t] \in OnRoad
    BY <2>1, <2>2, <2>4, NobodyAssumption, DisjointAssumption DEF TakenOff
  <2>5. ASSUME NEW d \in Drivers \ left', driver[t] = d, status[t] \in OnRoad
        PROVE  driver'[t] = d /\ status'[t] \in OnRoad
    BY <2>1, <2>2, <2>5, NobodyAssumption, DisjointAssumption DEF TakenOff
  <2> QED
    BY <2>1, <2>4, <2>5 DEF InServiceMeansOnRoad
<1>2. CASE ~EditSave(e)
  BY <1>2 DEF EditStep, EditRead, EditDrop, InServiceMeansOnRoad, row, history
<1> QED
  BY <1>1, <1>2

-----------------------------------------------------------------------------
LEMMA InvariantInit == Init => IInv
<1> SUFFICES ASSUME Init PROVE IInv
  OBVIOUS
<1>1. TypeOK
  BY TypeInit
<1>2. LockedStaysAssignable /\ Crewed /\ FormsCrewed /\ InServiceMeansOnRoad
  BY DEF Init, LockedStaysAssignable, Crewed, FormsCrewed, ToRead,
         InServiceMeansOnRoad
<1> QED
  BY <1>1, <1>2 DEF IInv

LEMMA InvariantStep == IInv /\ [Next]_vars => IInv'
<1> SUFFICES ASSUME IInv, [Next]_vars PROVE IInv'
  OBVIOUS
<1> USE DEF IInv
<1>1. ASSUME NEW t \in Trips, TripStep(t) PROVE IInv'
  <2>1. FormsCrewed'
    BY <1>1, OthersLeaveForms DEF FormsCrewed
  <2> QED
    BY <1>1, <2>1, TripTypes, TripKeepsLocks, TripKeepsCrew, TripKeepsService
<1>2. ASSUME NEW w \in Workers, WorkerStep(w) PROVE IInv'
  <2>1. Crewed'
    BY <1>2, WorkerWrites DEF Crewed
  <2>2. FormsCrewed'
    BY <1>2, OthersLeaveForms DEF FormsCrewed
  <2> QED
    BY <1>2, <2>1, <2>2, WorkerTypes, WorkerKeepsLocks, WorkerKeepsService
<1>3. ASSUME NEW e \in Edits, EditStep(e) PROVE IInv'
  BY <1>3, EditTypes, EditKeepsLocks, EditKeepsCrewed, EditKeepsService
<1>4. CASE UNCHANGED vars
  BY <1>4 DEF vars, row, history, TypeOK, LockedStaysAssignable, Crewed,
              FormsCrewed, InServiceMeansOnRoad
<1> QED
  BY <1>1, <1>2, <1>3, <1>4 DEF Next

LEMMA Invariant == Spec => []IInv
BY InvariantInit, InvariantStep, PTL DEF Spec

(* Trips, vehicles, drivers and assignments keep their types. *)
THEOREM TypeCorrect == Spec => []TypeOK
BY Invariant, PTL DEF IInv

(* From the start of boarding a trip has a vehicle and a driver, and but   *)
(* for a save of TripDetailView they are not replaced, however many        *)
(* assignments and edits are under way.                                    *)
THEOREM CrewStays == Spec => CrewIsFixedAtBoarding
<1>1. ASSUME IInv, [Next]_vars
      PROVE  [\A t \in Trips : status[t] \notin Assignable =>
                /\ Nobody \notin {vehicle[t], driver[t]}
                /\ ~Saved(t) =>
                     vehicle'[t] = vehicle[t] /\ driver'[t] = driver[t]]_vars
  <2>1. \A t \in Trips : status[t] \notin Assignable =>
          Nobody \notin {vehicle[t], driver[t]}
    BY <1>1 DEF IInv, Crewed, Assignable
  <2>2. ASSUME NEW t \in Trips, TripStep(t)
        PROVE  vehicle' = vehicle /\ driver' = driver
    BY <1>1, <2>2, TripKeepsCrew DEF IInv
  <2>3. ASSUME NEW w \in Workers, WorkerStep(w)
        PROVE  \A t \in Trips : status[t] \notin Assignable =>
                 vehicle'[t] = vehicle[t] /\ driver'[t] = driver[t]
    BY <1>1, <2>3, WorkerWrites DEF IInv
  <2>4. ASSUME NEW e \in Edits, EditStep(e), NEW t \in Trips, ~Saved(t)
        PROVE  vehicle'[t] = vehicle[t] /\ driver'[t] = driver[t]
    <3>1. CASE EditSave(e)
      BY <1>1, <2>4, <3>1, SaveWrites DEF IInv
    <3>2. CASE ~EditSave(e)
      BY <2>4, <3>2 DEF EditStep, EditRead, EditDrop, row
    <3> QED
      BY <3>1, <3>2
  <2> QED
    BY <1>1, <2>1, <2>2, <2>3, <2>4 DEF Next
<1> QED
  BY <1>1, Invariant, PTL DEF Spec, CrewIsFixedAtBoarding

(* A vehicle IN_SERVICE and a driver ON_DUTY are on a trip that is on the  *)
(* road, whoever assigned, closed or readied what in between, unless a     *)
(* save took them off one.                                                 *)
THEOREM ServiceIsOnRoad == Spec => []InServiceMeansOnRoad
BY Invariant, PTL DEF IInv

-----------------------------------------------------------------------------
(* Assignments that do not meet: no two workers give one vehicle, or one   *)
(* driver, to overlapping trips at once, which nothing in the code sees to. *)

AssignedApart ==
  \A v, w \in Workers :
    tx[v].op # "idle" /\ tx[v].op = tx[w].op /\ tx[v].new = tx[w].new
      => tx[w].trip \notin Overlapping(tx[v].trip)

(* What an assignment is about to write clashes with no other trip, but    *)
(* for those that an edit changed.                                         *)
NoClashAhead ==
  \A w \in Workers : \A u \in Overlapping(tx[w].trip) \ edited :
    /\ tx[w].op = "vehicle" => vehicle[u] # tx[w].new
    /\ tx[w].op = "driver" => driver[u] # tx[w].new

LEMMA OverlapIsMutual ==
  ASSUME NEW t \in Trips, NEW u \in Overlapping(t)
  PROVE  u \in Trips /\ u # t /\ t \in Overlapping(u)
BY DEF Overlapping

LEMMA WriteKeepsApart ==
  ASSUME TypeOK, NoClashAhead, NoSharedResource, NEW w \in Workers,
         WriteVehicle(w) \/ WriteDriver(w)
  PROVE  NoSharedResource'
<1>0. UNCHANGED <<window, edited>>
  BY DEF WriteVehicle, WriteDriver, history
<1> SUFFICES ASSUME NEW t \in Trips \ edited, NEW u \in Overlapping(t) \ edited
             PROVE  /\ vehicle'[t] # Nobody => vehicle'[u] # vehicle'[t]
                    /\ driver'[t] # Nobody => driver'[u] # driver'[t]
  BY <1>0 DEF NoSharedResource, Overlapping
<1>1. u \in Trips /\ u # t /\ t \in Overlapping(u)
  BY OverlapIsMutual
<1>2. /\ vehicle[t] # Nobody => vehicle[u] # vehicle[t]
      /\ vehicle[u] # Nobody => vehicle[t] # vehicle[u]
      /\ driver[t] # Nobody => driver[u] # driver[t]
      /\ driver[u] # Nobody => driver[t] # driver[u]
  BY <1>1 DEF NoSharedResource
<1>3. CASE WriteVehicle(w)
  <2>1. tx[w].trip \in Trips /\ tx[w].new \in Vehicles
    BY <1>3, WritesAResource DEF WriteVehicle
  <2>2. \A x \in Overlapping(tx[w].trip) \ edited : vehicle[x] # tx[w].new
    BY <1>3 DEF WriteVehicle, NoClashAhead
  <2> QED
    BY <1>1, <1>2, <1>3, <2>1, <2>2 DEF WriteVehicle, TypeOK
<1>4. CASE WriteDriver(w)
  <2>1. tx[w].trip \in Trips /\ tx[w].new \in Drivers
    BY <1>4, WritesAResource DEF WriteDriver
  <2>2. \A x \in Overlapping(tx[w].trip) \ edited : driver[x] # tx[w].new
    BY <1>4 DEF WriteDriver, NoClashAhead
  <2> QED
    BY <1>1, <1>2, <1>4, <2>1, <2>2 DEF WriteDriver, TypeOK
<1> QED
  BY <1>3, <1>4

(* A check leaves the rows alone, and what it let through clashes with none. *)
LEMMA ReadKeepsClear ==
  ASSUME TypeOK, NoClashAhead, NoSharedResource, NEW w \in Workers, NEW t \in Trips,
         \/ \E v \in Vehicles : ReadVehicle(w, t, v)
         \/ \E d \in Drivers : ReadDriver(w, t, d)
  PROVE  NoClashAhead' /\ NoSharedResource'
<1>1. UNCHANGED <<vehicle, driver, window, edited>>
  BY DEF ReadVehicle, ReadDriver, row, history
<1>2. NoSharedResource'
  BY <1>1 DEF NoSharedResource, Overlapping
<1>3. \A u \in Workers : u # w => tx'[u] = tx[u]
  BY DEF ReadVehicle, ReadDriver, Become, TypeOK
<1> DEFINE Clear(x) == \A u \in Overlapping(x.trip) \ edited :
                         /\ x.op = "vehicle" => vehicle[u] # x.new
                         /\ x.op = "driver" => driver[u] # x.new
<1>4. Clear(tx'[w])
  <2>1. ASSUME NEW v \in Vehicles, ReadVehicle(w, t, v)
        PROVE  Clear(tx'[w])
    <3>1. tx'[w] = [op |-> "vehicle", trip |-> t, new |-> v]
      BY <2>1 DEF ReadVehicle, Become, TypeOK
    <3>2. tx'[w].op = "vehicle" /\ tx'[w].trip = t /\ tx'[w].new = v
      BY <3>1
    <3>3. ~Conflict(t, vehicle, v)
      BY <2>1 DEF ReadVehicle
    <3> QED
      BY <3>2, <3>3 DEF Conflict
  <2>2. ASSUME NEW d \in Drivers, ReadDriver(w, t, d)
        PROVE  Clear(tx'[w])
    <3>1. tx'[w] = [op |-> "driver", trip |-> t, new |-> d]
      BY <2>2 DEF ReadDriver, Become, TypeOK
    <3>2. tx'[w].op = "driver" /\ tx'[w].trip = t /\ tx'[w].new = d
      BY <3>1
    <3>3. ~Conflict(t, driver, d)
      BY <2>2 DEF ReadDriver
    <3> QED
      BY <3>2, <3>3 DEF Conflict
  <2> QED
    BY <2>1, <2>2
<1>5. \A u \in Workers : Clear(tx'[u])
  BY <1>3, <1>4 DEF NoClashAhead
<1>6. NoClashAhead'
  BY <1>1, <1>5 DEF NoClashAhead, Overlapping
<1> QED
  BY <1>2, <1>6

(* What another worker is about to write still clashes with no trip. *)
LEMMA WriteKeepsClear ==
  ASSUME TypeOK, NoClashAhead, AssignedApart, NEW w \in Workers,
         WriteVehicle(w) \/ WriteDriver(w)
  PROVE  NoClashAhead'
<1>0. UNCHANGED <<window, edited>>
  BY DEF WriteVehicle, WriteDriver, history
<1> SUFFICES ASSUME NEW u \in Workers, tx'[u].op # "idle",
                    NEW x \in Overlapping(tx'[u].trip) \ edited
             PROVE  /\ tx'[u].op = "vehicle" => vehicle'[x] # tx'[u].new
                    /\ tx'[u].op = "driver" => driver'[x] # tx'[u].new
  BY <1>0 DEF NoClashAhead, Overlapping
<1>1. u # w /\ tx'[u] = tx[u]
  BY DEF WriteVehicle, WriteDriver, Become, TypeOK, Idle
<1>2. x \in Trips
  BY DEF Overlapping
<1>3. ASSUME tx[u].op = "vehicle"
      PROVE  vehicle'[x] # tx[u].new
  <2>1. vehicle[x] # tx[u].new
    BY <1>1, <1>3 DEF NoClashAhead
  <2>2. CASE WriteVehicle(w) /\ x = tx[w].trip
    <3>1. tx[w].new # tx[u].new
      BY <1>1, <1>3, <2>2 DEF AssignedApart, WriteVehicle
    <3> QED
      BY <1>2, <2>2, <3>1 DEF WriteVehicle, TypeOK
  <2> QED
    BY <1>2, <2>1, <2>2 DEF WriteVehicle, WriteDriver, TypeOK
<1>4. ASSUME tx[u].op = "driver"
      PROVE  driver'[x] # tx[u].new
  <2>1. driver[x] # tx[u].new
    BY <1>1, <1>4 DEF NoClashAhead
  <2>2. CASE WriteDriver(w) /\ x = tx[w].trip
    <3>1. tx[w].new # tx[u].new
      BY <1>1, <1>4, <2>2 DEF AssignedApart, WriteDriver
    <3> QED
      BY <1>2, <2>2, <3>1 DEF WriteDriver, TypeOK
  <2> QED
    BY <1>2, <2>1, <2>2 DEF WriteVehicle, WriteDriver, TypeOK
<1> QED
  BY <1>1, <1>3, <1>4

(* Of a trip that is not noted as edited, an edit leaves the times and the *)
(* crew as they are, or it has no crew, before and after.                  *)
Kept(u) ==
  \/ /\ vehicle'[u] = vehicle[u] /\ driver'[u] = driver[u]
     /\ window'[u] = window[u]
  \/ {vehicle[u], driver[u], vehicle'[u], driver'[u]} = {Nobody}

LEMMA EditKeeps ==
  ASSUME TypeOK, FormsCrewed, NEW e \in Edits, EditStep(e)
  PROVE  /\ edited \subseteq edited'
         /\ \A u \in Trips \ edited' : Kept(u)
         /\ tx' = tx
         /\ \A w \in Workers : tx[w] # Idle => window'[tx[w].trip] = window[tx[w].trip]
<1>1. CASE EditSave(e)
  <2> DEFINE t == form[e].trip
             r == form[e].row
  <2>1. /\ t \in Trips /\ RowFree(t) /\ window'[t] = r.window
        /\ vehicle'[t] = r.vehicle /\ driver'[t] = r.driver
        /\ \A u \in Trips \ {t} :
             /\ window'[u] = window[u]
             /\ vehicle'[u] = vehicle[u] /\ driver'[u] = driver[u]
        /\ edited' = edited \cup {u \in {t} : ChangesCrewOrTimes(u, r)}
        /\ tx' = tx
    BY <1>1, SaveWrites
  <2> HIDE DEF t, r
  <2>2. t \notin edited' => Kept(t)
    BY <2>1 DEF ChangesCrewOrTimes, Kept
  <2>3. \A w \in Workers : tx[w] # Idle => tx[w].trip \in Trips \ {t}
    BY <2>1 DEF RowFree, TypeOK, AssignTx
  <2>4. \A u \in Trips \ {t} : Kept(u)
    BY <2>1 DEF Kept
  <2> QED
    BY <2>1, <2>2, <2>3, <2>4
<1>2. CASE ~EditSave(e)
  BY <1>2 DEF EditStep, EditRead, EditDrop, Kept, row, history
<1> QED
  BY <1>1, <1>2

LEMMA EditKeepsApart ==
  ASSUME TypeOK, FormsCrewed, NoClashAhead, NoSharedResource,
         NEW e \in Edits, EditStep(e)
  PROVE  NoClashAhead' /\ NoSharedResource'
<1>1. NoSharedResource'
  <2> SUFFICES ASSUME NEW t \in Trips \ edited', NEW u \in Trips \ edited',
                      u # t, window'[u] \cap window'[t] # {}
               PROVE  /\ vehicle'[t] # Nobody => vehicle'[u] # vehicle'[t]
                      /\ driver'[t] # Nobody => driver'[u] # driver'[t]
    BY DEF NoSharedResource, Overlapping
  <2>1. t \notin edited /\ u \notin edited /\ Kept(t) /\ Kept(u)
    BY EditKeeps
  <2>2. window[u] \cap window[t] # {} =>
          /\ vehicle[t] # Nobody => vehicle[u] # vehicle[t]
          /\ driver[t] # Nobody => driver[u] # driver[t]
    BY <2>1 DEF NoSharedResource, Overlapping
  <2> QED
    BY <2>1, <2>2 DEF Kept
<1>2. NoClashAhead'
  <2>0. tx' = tx
    BY EditKeeps
  <2> SUFFICES ASSUME NEW w \in Workers, NEW u \in Trips \ edited',
                      tx[w].op \in {"vehicle", "driver"}, u # tx[w].trip,
                      window'[u] \cap window'[tx[w].trip] # {}
               PROVE  /\ tx[w].op = "vehicle" => vehicle'[u] # tx[w].new
                      /\ tx[w].op = "driver" => driver'[u] # tx[w].new
    BY <2>0 DEF NoClashAhead, Overlapping
  <2>1. u \notin edited /\ Kept(u)
    BY EditKeeps
  <2>2. window'[tx[w].trip] = window[tx[w].trip]
    BY EditKeeps DEF Idle
  <2>3. window[u] \cap window[tx[w].trip] # {} =>
          /\ tx[w].op = "vehicle" => vehicle[u] # tx[w].new
          /\ tx[w].op = "driver" => driver[u] # tx[w].new
    BY <2>1 DEF NoClashAhead, Overlapping
  <2>4. /\ tx[w].op = "vehicle" => tx[w].new # Nobody
        /\ tx[w].op = "driver" => tx[w].new # Nobody
    BY WritesAResource, NobodyAssumption
  <2> QED
    BY <2>1, <2>2, <2>3, <2>4 DEF Kept
<1> QED
  BY <1>1, <1>2

LEMMA ApartStep ==
  ASSUME AssignedApart, IInv, NoClashAhead, NoSharedResource, Next
  PROVE  NoClashAhead' /\ NoSharedResource'
<1> USE DEF IInv
<1>1. ASSUME NEW t \in Trips, TripStep(t)
      PROVE  NoClashAhead' /\ NoSharedResource'
  <2>1. UNCHANGED <<vehicle, driver, window, edited>>
    BY <1>1, TripKeepsCrew, OthersLeaveForms
  <2>2. tx' = tx
    BY <1>1 DEF TripStep, Ready, StartBoarding, Depart, EnRoute, Arrive, Close,
                ReachStop
  <2> QED
    BY <2>1, <2>2 DEF NoClashAhead, NoSharedResource, Overlapping
<1>2. ASSUME NEW w \in Workers, Crash(w)
      PROVE  NoClashAhead' /\ NoSharedResource'
  <2>0. UNCHANGED <<vehicle, driver, window, edited>>
    BY <1>2 DEF Crash, row, history
  <2>1. NoSharedResource'
    BY <2>0 DEF NoSharedResource, Overlapping
  <2>2. \A v \in Workers \ {w} : tx'[v] = tx[v]
    BY <1>2 DEF Crash, Become, TypeOK
  <2>3. tx'[w].op = "idle"
    BY <1>2 DEF Crash, Become, TypeOK, Idle
  <2>4. NoClashAhead'
    BY <2>0, <2>2, <2>3 DEF NoClashAhead, Overlapping
  <2> QED
    BY <2>1, <2>4
<1> QED
  BY <1>1, <1>2, ReadKeepsClear, WriteKeepsApart, WriteKeepsClear, EditKeepsApart
  DEF Next, WorkerStep

LEMMA ClearWhenApart ==
  Spec /\ []AssignedApart => [](IInv /\ NoClashAhead /\ NoSharedResource)
<1>1. Init => NoClashAhead /\ NoSharedResource
  BY DEF Init, NoClashAhead, NoSharedResource, Overlapping, Idle
<1>2. IInv /\ (NoClashAhead /\ NoSharedResource) /\ AssignedApart /\ [Next]_vars
        => (NoClashAhead /\ NoSharedResource)'
  <2>1. CASE UNCHANGED vars
    BY <2>1 DEF vars, row, history, NoClashAhead, NoSharedResource, Overlapping
  <2>2. ASSUME IInv, NoClashAhead, NoSharedResource, AssignedApart, Next
        PROVE  NoClashAhead' /\ NoSharedResource'
    BY <2>2, ApartStep
  <2> QED
    BY <2>1, <2>2
<1> QED
  BY <1>1, <1>2, Invariant, PTL DEF Spec

(* Overlapping trips that no edit changed never share a vehicle or a       *)
(* driver as long as no two workers give one of them to overlapping trips  *)
(* at once, however many assignments and edits of other trips are under    *)
(* way and however they mix with boarding, closing and crashes.            *)
THEOREM ApartKeepsApart == Spec /\ []AssignedApart => []NoSharedResource
BY ClearWhenApart, PTL

-----------------------------------------------------------------------------
(* TripResources implements TripRoster. *)

(* The checks of an assignment still hold when it writes. *)
LEMMA WriteGives ==
  ASSUME IInv, NoClashAhead, NEW w \in Workers, WriteVehicle(w) \/ WriteDriver(w)
  PROVE  Roster!Next
<1> USE DEF IInv
<1>1. tx[w] # Idle /\ tx[w].trip \in Trips
  BY WritesAResource DEF WriteVehicle, WriteDriver
<1>2. tx[w].trip \notin Fixed
  BY <1>1 DEF Fixed, LockedStaysAssignable
<1>3. Fixed' = Fixed
  BY DEF WriteVehicle, WriteDriver, Fixed
<1>0. UNCHANGED <<window, edited>>
  BY DEF WriteVehicle, WriteDriver, history
<1>4. CASE WriteVehicle(w)
  <2>1. tx[w].new \in Vehicles
    BY <1>4, WritesAResource DEF WriteVehicle
  <2>2. Roster!Free(tx[w].trip, vehicle, tx[w].new)
    BY <1>4 DEF WriteVehicle, NoClashAhead, Overlapping, Roster!Free
  <2>3. Roster!GiveVehicle(tx[w].trip, tx[w].new)
    BY <1>0, <1>2, <1>3, <1>4, <2>2 DEF WriteVehicle, Roster!GiveVehicle
  <2> QED
    BY <1>1, <2>1, <2>3 DEF Roster!Next
<1>5. CASE WriteDriver(w)
  <2>1. tx[w].new \in Drivers
    BY <1>5, WritesAResource DEF WriteDriver
  <2>2. Roster!Free(tx[w].trip, driver, tx[w].new)
    BY <1>5 DEF WriteDriver, NoClashAhead, Overlapping, Roster!Free
  <2>3. Roster!GiveDriver(tx[w].trip, tx[w].new)
    BY <1>0, <1>2, <1>3, <1>5, <2>2 DEF WriteDriver, Roster!GiveDriver
  <2> QED
    BY <1>1, <2>1, <2>3 DEF Roster!Next
<1> QED
  BY <1>4, <1>5

LEMMA WorkerFollowsRoster ==
  ASSUME IInv, NoClashAhead, NEW w \in Workers, WorkerStep(w)
  PROVE  Roster!Next \/ UNCHANGED Roster!roster
<1>1. CASE WriteVehicle(w) \/ WriteDriver(w)
  BY <1>1, WriteGives
<1>2. CASE ~WriteVehicle(w) /\ ~WriteDriver(w)
  BY <1>2 DEF WorkerStep, ReadVehicle, ReadDriver, Crash, Fixed, Roster!roster,
              row, history
<1> QED
  BY <1>1, <1>2

(* Of the services only the start of boarding fixes a trip, and none lets  *)
(* one go.                                                                 *)
LEMMA TripFollowsRoster ==
  ASSUME IInv, NEW t \in Trips, TripStep(t)
  PROVE  Roster!Next \/ UNCHANGED Roster!roster
<1> USE DEF IInv
<1>1. UNCHANGED <<vehicle, driver, window, edited>>
  BY TripKeepsCrew, OthersLeaveForms
<1>2. CASE StartBoarding(t)
  <2>1. t \notin Fixed /\ vehicle[t] # Nobody /\ driver[t] # Nobody
    BY <1>2 DEF StartBoarding, Fixed, Assignable, Crewed
  <2>2. Fixed' = Fixed \cup {t}
    BY <1>2 DEF StartBoarding, SetStatus, Fixed, Assignable, TypeOK
  <2>3. Roster!Fix(t)
    BY <1>1, <2>1, <2>2 DEF Roster!Fix
  <2> QED
    BY <2>3 DEF Roster!Next
<1>3. CASE ~StartBoarding(t)
  <2>1. \A u \in Trips : status'[u] \in Assignable <=> status[u] \in Assignable
    BY <1>3 DEF TripStep, Ready, Depart, EnRoute, Arrive, Close, ReachStop,
                SetStatus, Assignable, TypeOK
  <2>2. Fixed' = Fixed
    BY <2>1 DEF Fixed
  <2> QED
    BY <1>1, <2>2 DEF Roster!roster
<1> QED
  BY <1>2, <1>3

(* A save that changes the crew or times of a trip is an edit of the       *)
(* roster, one of a trip without crew reschedules it, and any other at     *)
(* most lets the trip go or fixes it.                                      *)
LEMMA SaveFollowsRoster ==
  ASSUME IInv, NEW e \in Edits, EditSave(e)
  PROVE  Roster!Next \/ UNCHANGED Roster!roster
<1> USE DEF IInv
<1> DEFINE t == form[e].trip
           r == form[e].row
<1>1. /\ t \in Trips
      /\ r.vehicle \in Vehicles \cup {Nobody} /\ r.driver \in Drivers \cup {Nobody}
      /\ r.window \in Windows
      /\ r.status # "planned" => r.vehicle # Nobody /\ r.driver # Nobody
      /\ edited' = edited \cup {u \in {t} : ChangesCrewOrTimes(u, r)}
      /\ \A u \in Trips \ {t} : status'[u] = status[u]
      /\ status'[t] = r.status
  BY SaveWrites DEF Row
<1>2. /\ vehicle' = [vehicle EXCEPT ![t] = r.vehicle]
      /\ driver' = [driver EXCEPT ![t] = r.driver]
      /\ window' = [window EXCEPT ![t] = r.window]
  BY DEF EditSave
<1> HIDE DEF t, r
<1>3. \/ r.status \in Assignable /\ Fixed' = Fixed \ {t}
      \/ Nobody \notin {r.vehicle, r.driver} /\ Fixed' = Fixed \cup {t}
  BY <1>1 DEF Fixed, Assignable
<1>4. CASE ChangesCrewOrTimes(t, r)
  <2>1. edited' = edited \cup {t}
    BY <1>1, <1>4
  <2>2. Roster!Edit(t, r.vehicle, r.driver, r.window)
    BY <1>2, <1>3, <2>1 DEF Roster!Edit
  <2> QED
    BY <1>1, <2>2 DEF Roster!Next
<1>5. CASE ~ChangesCrewOrTimes(t, r) /\ {vehicle[t], driver[t], r.vehicle, r.driver} = {Nobody}
  <2>1. edited' = edited
    BY <1>1, <1>5
  <2>2. vehicle[t] = Nobody /\ driver[t] = Nobody /\ r.vehicle = Nobody
        /\ r.driver = Nobody
    BY <1>5
  <2>3. vehicle' = vehicle /\ driver' = driver
    BY <1>1, <1>2, <2>2 DEF TypeOK
  <2>4. t \notin Fixed
    BY <1>1, <2>2 DEF Fixed, Crewed, Assignable
  <2>5. Fixed' = Fixed
    BY <1>3, <2>2, <2>4
  <2>6. Roster!Reschedule(t, r.window)
    BY <1>2, <2>1, <2>2, <2>3, <2>5 DEF Roster!Reschedule
  <2> QED
    BY <1>1, <2>6 DEF Roster!Next
<1>6. CASE <<vehicle[t], driver[t], window[t]>> = <<r.vehicle, r.driver, r.window>>
  <2>1. edited' = edited
    BY <1>1, <1>6 DEF ChangesCrewOrTimes
  <2>2. vehicle' = vehicle /\ driver' = driver /\ window' = window
    BY <1>1, <1>2, <1>6 DEF TypeOK
  <2>3. CASE Fixed' = Fixed \ {t}
    BY <1>1, <2>1, <2>2, <2>3 DEF Roster!LetGo, Roster!Next
  <2>4. CASE Nobody \notin {r.vehicle, r.driver} /\ Fixed' = Fixed \cup {t}
    <3>1. vehicle[t] # Nobody /\ driver[t] # Nobody
      BY <1>6, <2>4
    <3>2. t \in Fixed => Fixed' = Fixed
      BY <2>4
    <3>3. t \notin Fixed => Roster!Fix(t)
      BY <2>1, <2>2, <2>4, <3>1 DEF Roster!Fix
    <3> QED
      BY <1>1, <2>1, <2>2, <3>2, <3>3 DEF Roster!Next, Roster!roster
  <2> QED
    BY <1>3, <2>3, <2>4
<1> QED
  BY <1>4, <1>5, <1>6 DEF ChangesCrewOrTimes

LEMMA EditFollowsRoster ==
  ASSUME IInv, NEW e \in Edits, EditStep(e)
  PROVE  Roster!Next \/ UNCHANGED Roster!roster
<1>1. CASE ~EditSave(e)
  BY <1>1 DEF EditStep, EditRead, EditDrop, Fixed, Roster!roster, row, history
<1> QED
  BY <1>1, SaveFollowsRoster

(* As long as no two workers give one vehicle or driver to overlapping     *)
(* trips at once, assignments, made of a check and a later write under the *)
(* lock of one trip, are those of TripRoster: a vehicle or a driver goes   *)
(* to a trip that is not fixed, and from no trip that overlaps it but one  *)
(* that an edit made loose.  Edits, which lock nothing, change the crew or *)
(* the times of the trip they make loose and of no other.                  *)
THEOREM FollowsRoster == Spec /\ []AssignedApart => ImplementsRoster
<1>1. Init => Roster!Init
  BY DEF Init, Roster!Init, Fixed, Assignable
<1>2. IInv /\ NoClashAhead /\ [Next]_vars => [Roster!Next]_(Roster!roster)
  <2> SUFFICES ASSUME IInv, NoClashAhead, [Next]_vars
               PROVE  Roster!Next \/ UNCHANGED Roster!roster
    OBVIOUS
  <2>1. CASE UNCHANGED vars
    BY <2>1 DEF vars, row, history, Fixed, Roster!roster
  <2> QED
    BY <2>1, TripFollowsRoster, WorkerFollowsRoster, EditFollowsRoster DEF Next
<1> QED
  BY <1>1, <1>2, ClearWhenApart, PTL DEF Spec, ImplementsRoster, Roster!Spec

(* With one dispatcher at a time the condition is always met: trips that   *)
(* board, depart, arrive and close, and are edited, between a check and    *)
(* its write, and workers that die, do no harm to the trips that no edit   *)
(* gave other times or another crew.                                       *)
THEOREM OneDispatcherKeepsApart ==
  ASSUME \A v, w \in Workers : v = w
  PROVE  Spec => ImplementsRoster /\ []NoSharedResource
<1>1. AssignedApart
  BY DEF AssignedApart, Overlapping
<1> QED
  BY <1>1, FollowsRoster, ApartKeepsApart, PTL

-----------------------------------------------------------------------------
(* What the roster guarantees, from the steps of TripRoster alone. *)

RosterInv ==
  /\ vehicle \in [Trips -> Vehicles \cup {Nobody}]
  /\ driver \in [Trips -> Drivers \cup {Nobody}]
  /\ window \in [Trips -> Windows]
  /\ \A t \in Trips : t \in Fixed => Nobody \notin {vehicle[t], driver[t]}
  /\ NoSharedResource

LEMMA RosterStep == RosterInv /\ [Roster!Next]_(Roster!roster) => RosterInv'
<1> SUFFICES ASSUME RosterInv, [Roster!Next]_(Roster!roster) PROVE RosterInv'
  OBVIOUS
<1> USE DEF RosterInv
<1>1. ASSUME NEW t \in Trips, NEW v \in Vehicles, Roster!GiveVehicle(t, v)
      PROVE  RosterInv'
  BY <1>1, NobodyAssumption
  DEF Roster!GiveVehicle, Roster!Free, NoSharedResource, Overlapping
<1>2. ASSUME NEW t \in Trips, NEW d \in Drivers, Roster!GiveDriver(t, d)
      PROVE  RosterInv'
  BY <1>2, NobodyAssumption
  DEF Roster!GiveDriver, Roster!Free, NoSharedResource, Overlapping
<1>3. ASSUME NEW t \in Trips, Roster!Fix(t) PROVE RosterInv'
  BY <1>3 DEF Roster!Fix, NoSharedResource, Overlapping
<1>4. ASSUME NEW t \in Trips, Roster!LetGo(t) PROVE RosterInv'
  BY <1>4 DEF Roster!LetGo, NoSharedResource, Overlapping
<1>5. ASSUME NEW t \in Trips, NEW W \in Windows, Roster!Reschedule(t, W)
      PROVE  RosterInv'
  BY <1>5 DEF Roster!Reschedule, NoSharedResource, Overlapping
<1>6. ASSUME NEW t \in Trips, NEW v \in Vehicles \cup {Nobody},
             NEW d \in Drivers \cup {Nobody}, NEW W \in Windows,
             Roster!Edit(t, v, d, W)
      PROVE  RosterInv'
  BY <1>6 DEF Roster!Edit, NoSharedResource, Overlapping
<1>7. CASE UNCHANGED Roster!roster
  BY <1>7 DEF Roster!roster, NoSharedResource, Overlapping
<1> QED
  BY <1>1, <1>2, <1>3, <1>4, <1>5, <1>6, <1>7 DEF Roster!Next

(* Whatever implements the roster keeps overlapping trips that are not     *)
(* loose apart, and keeps the vehicle and the driver that such a trip has  *)
(* once its boarding begins.                                               *)
THEOREM RosterIsKept ==
  ImplementsRoster =>
    /\ []NoSharedResource
    /\ [][\A t \in Fixed \ edited' :
            /\ Nobody \notin {vehicle[t], driver[t]}
            /\ vehicle'[t] = vehicle[t] /\ driver'[t] = driver[t]]_vars
<1>1. Roster!Init => RosterInv
  BY DEF Roster!Init, RosterInv, NoSharedResource, Overlapping
<1>2. RosterInv => NoSharedResource
  BY DEF RosterInv
<1>3. ASSUME RosterInv, [Roster!Next]_(Roster!roster)
      PROVE  [\A t \in Fixed \ edited' :
                /\ Nobody \notin {vehicle[t], driver[t]}
                /\ vehicle'[t] = vehicle[t] /\ driver'[t] = driver[t]]_vars
  <2>1. \A t \in Fixed : t \in Trips /\ Nobody \notin {vehicle[t], driver[t]}
    BY <1>3 DEF RosterInv, Fixed
  <2>2. \A t \in Fixed \ edited' :
          vehicle'[t] = vehicle[t] /\ driver'[t] = driver[t]
    BY <1>3, <2>1
    DEF RosterInv, Roster!Next, Roster!GiveVehicle, Roster!GiveDriver,
        Roster!Fix, Roster!LetGo, Roster!Reschedule, Roster!Edit, Roster!roster
  <2> QED
    BY <2>1, <2>2
<1> QED
  BY <1>1, <1>2, <1>3, RosterStep, PTL DEF ImplementsRoster, Roster!Spec
==============================================================================
