----------------------------- MODULE CargoCustody -----------------------------
(***************************************************************************)
(* The cargo of several trips, from acceptance to the receiver, the cash   *)
(* paid for it, and the closing and settlement of the trips (backend/apps/ *)
(* cargo, operations and the cargo branch of payments).  A service locks   *)
(* the row it changes and reads the others unlocked, so it is a read and a *)
(* write of its worker.  TripDetailView locks nothing: it reads the row of *)
(* a trip and later writes it back whole.  Each shipment weighs one unit   *)
(* and each payment is one unit of cash.                                   *)
(***************************************************************************)
EXTENDS Naturals, FiniteSets

CONSTANTS Shipments,
          Trips,
          Payments,   \* cash payment records
          Workers,    \* request handlers
          Edits,      \* requests to TripDetailView, each handled once
          Nowhere,    \* no trip or shipment is referred to
          Capacities, \* units of weight the vehicles take
          Charge,     \* units of cash a shipment costs
          Sizes       \* bound: <<shipments, trips, payments>> there may be

ASSUME LimitsAssumption == Capacities \subseteq Nat /\ Charge \in Nat
ASSUME NowhereAssumption == Nowhere \notin Trips \cup Shipments
ASSUME FiniteAssumption ==
  IsFiniteSet(Shipments) /\ IsFiniteSet(Trips) /\ IsFiniteSet(Payments)
ASSUME DisjointAssumption == Trips \cap Shipments = {}

VARIABLES ship,        \* status of each shipment
          on,          \* the trip each shipment is assigned to
          trip,        \* status of each trip
          room,        \* units its vehicle takes, 0 if it has none for cargo
          closings,    \* the trips that have a TripClosing row
          pay,         \* status of each payment
          payFor,      \* the shipment of each payment
          settled,     \* the trips that have a cash settlement
          cash,        \* the payments each settlement counted
          tx,          \* what each worker is doing
          form,        \* the row each edit read and is about to save
          overlapped,  \* history: rows with two limit checks at once
          shrunk       \* history: trips given less room when it was asked for

cargo == <<ship, on>>
trips == <<trip, room, closings>>
money == <<pay, payFor, settled, cash>>
history == <<overlapped, shrunk>>
vars == <<cargo, trips, money, tx, form, history>>

-----------------------------------------------------------------------------
ShipStatus == {"none", "accepted", "assigned", "loaded", "in_transit",
               "arrived", "ready", "handed_over", "damaged", "lost",
               "returned", "cancelled"}

(* TRANSITIONS; the step to ASSIGNED may be made without assign_trip. *)
Following ==
  [none |-> {}, accepted |-> {"assigned", "cancelled"},
   assigned |-> {"loaded", "cancelled"}, loaded |-> {"in_transit"},
   in_transit |-> {"arrived", "damaged", "lost"}, arrived |-> {"ready"},
   ready |-> {"handed_over", "returned"},
   damaged |-> {"arrived", "returned"}, lost |-> {"arrived"},
   handed_over |-> {}, returned |-> {}, cancelled |-> {}]

(* What close_trip accepts. *)
Resolved == {"arrived", "ready", "handed_over"}

(* PLANNED stands for READY too, and DEPARTED for IN_PROGRESS. *)
TripStatus == {"none", "planned", "boarding", "departed", "arrived", "closed"}
Rooms == Capacities \cup {0}

PayStatus == {"none", "recorded", "confirmed", "rejected"}

Idle == [op |-> "idle"]
OpenTx == [op : {"open"}, row : Shipments, trip : Trips, room : Rooms]
AssignTx == [op : {"assign"}, row : Shipments, trip : Trips]
MoveTx == [op : {"move"}, row : Shipments]
ConfirmTx == [op : {"confirm"}, row : Payments]
CloseTx == [op : {"close"}, row : Trips]
Tx == OpenTx \cup AssignTx \cup MoveTx \cup ConfirmTx \cup CloseTx \cup {Idle}

ToRead == [at |-> "read"]
Answered == [at |-> "answered"]
Form == [at : {"save"}, row : Trips, status : TripStatus \ {"none", "closed"},
         room : Rooms]

TypeOK ==
  /\ ship \in [Shipments -> ShipStatus]
  /\ on \in [Shipments -> Trips \cup {Nowhere}]
  /\ trip \in [Trips -> TripStatus]
  /\ room \in [Trips -> Rooms]
  /\ closings \subseteq Trips
  /\ pay \in [Payments -> PayStatus]
  /\ payFor \in [Payments -> Shipments \cup {Nowhere}]
  /\ settled \subseteq Trips
  /\ cash \in [Trips -> SUBSET Payments]
  /\ tx \in [Workers -> Tx]
  /\ form \in [Edits -> Form \cup {ToRead, Answered}]
  /\ overlapped \subseteq Trips \cup Shipments
  /\ shrunk \subseteq Trips

Init ==
  /\ ship = [s \in Shipments |-> "none"]
  /\ on = [s \in Shipments |-> Nowhere]
  /\ trip = [t \in Trips |-> "none"]
  /\ room = [t \in Trips |-> 0]
  /\ closings = {}
  /\ pay = [p \in Payments |-> "none"]
  /\ payFor = [p \in Payments |-> Nowhere]
  /\ settled = {}
  /\ cash = [t \in Trips |-> {}]
  /\ tx = [w \in Workers |-> Idle]
  /\ form = [e \in Edits |-> ToRead]
  /\ overlapped = {}
  /\ shrunk = {}

-----------------------------------------------------------------------------
Busy(op) == {w \in Workers : tx[w].op = op}
Become(w, x) == tx' = [tx EXCEPT ![w] = x]

(* No worker holds the lock of the shipment, payment or trip. *)
ShipFree(s) == \A w \in Busy("assign") \cup Busy("move") : tx[w].row # s
PayFree(p) == \A w \in Busy("confirm") : tx[w].row # p
TripFree(t) == \A w \in Busy("close") : tx[w].row # t

Aboard(t) == {s \in Shipments : on[s] = t}

(* The shipments whose weight assign_trip adds up. *)
Load(t) == {s \in Aboard(t) : ship[s] # "cancelled"}

(* Another request has compared trip t's load and has not written yet. *)
Checked(t) == \E w \in Busy("assign") : tx[w].trip = t

(* The confirmed payments that decide_payment adds up. *)
Paid(s) == {p \in Payments : payFor[p] = s /\ pay[p] = "confirmed"}

(* Another request has compared the cash paid for shipment s with its      *)
(* charge and has not written yet.                                         *)
Decided(s) == \E w \in Busy("confirm") : payFor[tx[w].row] = s

(* There may be s more shipments, t more trips and p more payments. *)
More(s, t, p) ==
  \E size \in Sizes :
    /\ Cardinality({x \in Shipments : ship[x] # "none"}) + s <= size[1]
    /\ Cardinality({x \in Trips : trip[x] # "none"}) + t <= size[2]
    /\ Cardinality({x \in Payments : pay[x] # "none"}) + p <= size[3]

-----------------------------------------------------------------------------
(* Cargo *)

(* accept_shipment creates the row and the first custody event at once. *)
Accept(s) ==
  /\ ship[s] = "none"
  /\ More(1, 0, 0)
  /\ ship' = [ship EXCEPT ![s] = "accepted"]
  /\ UNCHANGED <<on, trips, money, tx, form, history>>

(* The serializer of the request reads the trip, before anything is locked *)
(* and whatever its status.  Cargo that is past ACCEPTED is refused later. *)
AssignOpen(w, s, t) ==
  /\ tx[w] = Idle
  /\ ship[s] = "accepted"
  /\ trip[t] # "none"
  /\ Become(w, [op |-> "open", row |-> s, trip |-> t, room |-> room[t]])
  /\ UNCHANGED <<cargo, trips, money, form, history>>

(* Mutant: the shipment's own weight is not added to the load. *)
AssignReadOwnLeftOut(w) ==
  LET s == tx[w].row
      t == tx[w].trip
  IN /\ tx[w].op = "open"
     /\ ShipFree(s)
     /\ ship[s] = "accepted"
     /\ Cardinality(Load(t)) <= tx[w].room
     /\ overlapped' = overlapped \cup {u \in {t} : Checked(u)}
     /\ Become(w, [op |-> "assign", row |-> s, trip |-> t])
     /\ UNCHANGED <<cargo, trips, money, form, shrunk>>

(* assign_trip locks the shipment, reads the load of the trip and compares *)
(* it with the vehicle of the row it was given.                            *)
AssignRead(w) ==
  LET s == tx[w].row
      t == tx[w].trip
  IN /\ tx[w].op = "open"
     /\ ShipFree(s)
     /\ ship[s] = "accepted"
     /\ Cardinality(Load(t)) + 1 <= tx[w].room
     /\ overlapped' = overlapped \cup {u \in {t} : Checked(u)}
     /\ Become(w, [op |-> "assign", row |-> s, trip |-> t])
     /\ UNCHANGED <<cargo, trips, money, form, shrunk>>

AssignWrite(w) ==
  /\ tx[w].op = "assign"
  /\ on' = [on EXCEPT ![tx[w].row] = tx[w].trip]
  /\ ship' = [ship EXCEPT ![tx[w].row] = "assigned"]
  /\ Become(w, Idle)
  /\ UNCHANGED <<trips, money, form, history>>

(* transition_shipment.  Every step but one reads only the row it locks.  *)
Move(s, to) ==
  /\ ShipFree(s)
  /\ to \in Following[ship[s]] \ {"in_transit"}
  /\ to = "loaded" => on[s] # Nowhere
  /\ ship' = [ship EXCEPT ![s] = to]
  /\ UNCHANGED <<on, trips, money, tx, form, history>>

(* The step to IN_TRANSIT also reads the trip, which it does not lock.     *)
DepartRead(w, s) ==
  /\ tx[w] = Idle
  /\ ShipFree(s)
  /\ "in_transit" \in Following[ship[s]]
  /\ on[s] # Nowhere
  /\ trip[on[s]] = "departed"
  /\ Become(w, [op |-> "move", row |-> s])
  /\ UNCHANGED <<cargo, trips, money, form, history>>

DepartWrite(w) ==
  /\ tx[w].op = "move"
  /\ ship' = [ship EXCEPT ![tx[w].row] = "in_transit"]
  /\ Become(w, Idle)
  /\ UNCHANGED <<on, trips, money, form, history>>

-----------------------------------------------------------------------------
(* Cash *)

(* create_payment asks nothing of the shipment's status. *)
RecordCash(p, s) ==
  /\ pay[p] = "none"
  /\ More(0, 0, 1)
  /\ ship[s] # "none"
  /\ pay' = [pay EXCEPT ![p] = "recorded"]
  /\ payFor' = [payFor EXCEPT ![p] = s]
  /\ UNCHANGED <<cargo, trips, settled, cash, tx, form, history>>

(* decide_payment locks the payment and reads the total paid for its       *)
(* shipment.                                                               *)
ConfirmRead(w, p) ==
  /\ tx[w] = Idle
  /\ PayFree(p)
  /\ pay[p] = "recorded"
  /\ Cardinality(Paid(payFor[p])) + 1 <= Charge
  /\ overlapped' = overlapped \cup {s \in {payFor[p]} : Decided(s)}
  /\ Become(w, [op |-> "confirm", row |-> p])
  /\ UNCHANGED <<cargo, trips, money, form, shrunk>>

ConfirmWrite(w) ==
  /\ tx[w].op = "confirm"
  /\ pay' = [pay EXCEPT ![tx[w].row] = "confirmed"]
  /\ Become(w, Idle)
  /\ UNCHANGED <<cargo, trips, payFor, settled, cash, form, history>>

RejectCash(p) ==
  /\ PayFree(p)
  /\ pay[p] = "recorded"
  /\ pay' = [pay EXCEPT ![p] = "rejected"]
  /\ UNCHANGED <<cargo, trips, payFor, settled, cash, tx, form, history>>

-----------------------------------------------------------------------------
(* Trips *)

(* Trip t has cargo, or a request that read its row is still under way. *)
Asked(t) ==
  \/ Load(t) # {}
  \/ \E w \in Busy("open") \cup Busy("assign") : tx[w].trip = t

SetRoom(t, r) ==
  /\ room' = [room EXCEPT ![t] = r]
  /\ shrunk' = shrunk \cup {u \in {t} : r < room[u] /\ Asked(u)}

(* create_trip *)
Schedule(t) ==
  /\ trip[t] = "none"
  /\ More(0, 1, 0)
  /\ trip' = [trip EXCEPT ![t] = "planned"]
  /\ UNCHANGED <<cargo, room, closings, money, tx, form, history>>

(* assign_vehicle, which does not look at the cargo of the trip. *)
AssignVehicle(t, r) ==
  /\ TripFree(t)
  /\ trip[t] = "planned"
  /\ SetRoom(t, r)
  /\ UNCHANGED <<cargo, trip, closings, money, tx, form, overlapped>>

(* transition_trip *)
Drive(t) ==
  /\ TripFree(t)
  /\ \/ trip[t] = "planned" /\ trip' = [trip EXCEPT ![t] = "boarding"]
     \/ trip[t] = "boarding" /\ trip' = [trip EXCEPT ![t] = "departed"]
     \/ trip[t] = "departed" /\ trip' = [trip EXCEPT ![t] = "arrived"]
  /\ UNCHANGED <<cargo, room, closings, money, tx, form, history>>

(* get_object of TripDetailView, whose serializer refuses a closed trip. *)
EditRead(e, t) ==
  /\ form[e] = ToRead
  /\ trip[t] \notin {"none", "closed"}
  /\ form' = [form EXCEPT ![e] = [at |-> "save", row |-> t, status |-> trip[t],
                                  room |-> room[t]]]
  /\ UNCHANGED <<cargo, trips, money, tx, history>>

(* serializer.save() writes every column, vehicle and status included. *)
EditSave(e) ==
  LET t == form[e].row IN
  /\ form[e].at = "save"
  /\ TripFree(t)
  /\ trip' = [trip EXCEPT ![t] = form[e].status]
  /\ SetRoom(t, form[e].room)
  /\ form' = [form EXCEPT ![e] = Answered]
  /\ UNCHANGED <<cargo, closings, money, tx, overlapped>>

(* Mutant: only cargo still under way keeps a trip open. *)
CloseReadUnderWay(w, t) ==
  /\ tx[w] = Idle
  /\ TripFree(t)
  /\ trip[t] = "arrived"
  /\ \A s \in Aboard(t) : ship[s] # "in_transit"
  /\ Become(w, [op |-> "close", row |-> t])
  /\ UNCHANGED <<cargo, trips, money, form, history>>

(* close_trip locks the trip and reads its cargo unlocked. *)
CloseRead(w, t) ==
  /\ tx[w] = Idle
  /\ TripFree(t)
  /\ trip[t] = "arrived"
  /\ \A s \in Aboard(t) : ship[s] \in Resolved
  /\ Become(w, [op |-> "close", row |-> t])
  /\ UNCHANGED <<cargo, trips, money, form, history>>

(* A trip that a save put back has its TripClosing: the second is refused. *)
CloseWrite(w) ==
  /\ tx[w].op = "close"
  /\ tx[w].row \notin closings
  /\ trip' = [trip EXCEPT ![tx[w].row] = "closed"]
  /\ closings' = closings \cup {tx[w].row}
  /\ Become(w, Idle)
  /\ UNCHANGED <<cargo, room, money, form, history>>

(* Mutant: the cash of cargo is counted wherever the cargo is. *)
SettleAllCargo(t) ==
  /\ TripFree(t)
  /\ trip[t] = "closed"
  /\ t \notin settled
  /\ settled' = settled \cup {t}
  /\ cash' = [cash EXCEPT ![t] = UNION {Paid(s) : s \in Shipments}]
  /\ UNCHANGED <<cargo, trips, pay, payFor, tx, form, history>>

(* create_settlement: the confirmed cash of the cargo on the trip.  A trip *)
(* has one settlement for good, even if advance_settlement rejects it.     *)
Settle(t) ==
  /\ TripFree(t)
  /\ trip[t] = "closed"
  /\ t \notin settled
  /\ settled' = settled \cup {t}
  /\ cash' = [cash EXCEPT ![t] = UNION {Paid(s) : s \in Aboard(t)}]
  /\ UNCHANGED <<cargo, trips, pay, payFor, tx, form, history>>

(* A request is refused, or a worker dies and its transaction rolls back. *)
Crash(w) ==
  /\ tx[w] # Idle
  /\ Become(w, Idle)
  /\ UNCHANGED <<cargo, trips, money, form, history>>

EditDrop(e) ==
  /\ form[e].at = "save"
  /\ form' = [form EXCEPT ![e] = Answered]
  /\ UNCHANGED <<cargo, trips, money, tx, history>>

-----------------------------------------------------------------------------
CargoStep(w) ==
  \/ \E s \in Shipments : DepartRead(w, s) \/ \E t \in Trips : AssignOpen(w, s, t)
  \/ AssignRead(w) \/ AssignWrite(w) \/ DepartWrite(w)

CashStep(w) == (\E p \in Payments : ConfirmRead(w, p)) \/ ConfirmWrite(w)

CloseStep(w) == (\E t \in Trips : CloseRead(w, t)) \/ CloseWrite(w)

TripStep(t) ==
  \/ Schedule(t) \/ Drive(t) \/ Settle(t)
  \/ \E r \in Rooms : AssignVehicle(t, r)

EditStep(e) == (\E t \in Trips : EditRead(e, t)) \/ EditSave(e) \/ EditDrop(e)

Next ==
  \/ \E s \in Shipments : Accept(s) \/ \E to \in ShipStatus : Move(s, to)
  \/ \E p \in Payments : RejectCash(p) \/ \E s \in Shipments : RecordCash(p, s)
  \/ \E t \in Trips : TripStep(t)
  \/ \E e \in Edits : EditStep(e)
  \/ \E w \in Workers : CargoStep(w) \/ CashStep(w) \/ CloseStep(w) \/ Crash(w)

Spec == Init /\ [][Next]_vars

-----------------------------------------------------------------------------
(* Properties *)

(* "Trip cargo weight capacity would be exceeded" and "Confirmed cargo     *)
(* payments cannot exceed the shipment total" (the refusals of assign_trip *)
(* and decide_payment): the limits hold for every trip and shipment, but   *)
(* for those of which two requests made the check at once, before either   *)
(* had written, and for the trips that got a smaller vehicle when they had *)
(* cargo or were being given some.                                         *)
LimitsHold ==
  /\ \A t \in Trips \ (overlapped \cup shrunk) : Cardinality(Load(t)) <= room[t]
  /\ \A s \in Shipments \ overlapped : Cardinality(Paid(s)) <= Charge

(* No shipment is in transit, damaged or lost on a trip that is closed,    *)
(* although close_trip and transition_shipment lock different rows, and a  *)
(* save of TripDetailView may put the trip's status back in between.       *)
NothingUnderWayOnClosedTrip ==
  \A s \in Shipments : ship[s] \in {"in_transit", "damaged", "lost"} =>
    trip[on[s]] # "closed"

(* No cash is counted by the settlements of two trips.                     *)
CashCountedOnce ==
  \A t, u \in Trips : t # u => cash[t] \cap cash[u] = {}
==============================================================================
