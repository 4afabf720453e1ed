-------------------------- MODULE CargoCustodyProofs --------------------------
(***************************************************************************)
(* Proofs about CargoCustody.  Base says what a worker that is between its *)
(* read and its write may still rely on: the row it has locked.  The three *)
(* properties are each inductive on top of it.                             *)
(***************************************************************************)
EXTENDS CargoCustody, FiniteSetTheorems, TLAPS

OnShip(w) == tx[w].op \in {"assign", "move"}

(* A shipment or a payment is changed by one worker at a time. *)
RowsLocked ==
  \A v, w \in Workers :
    v # w => /\ OnShip(v) /\ OnShip(w) => tx[v].row # tx[w].row
             /\ tx[v].op = "confirm" /\ tx[w].op = "confirm" => tx[v].row # tx[w].row

(* What was read of the locked row is still so. *)
ReadHolds ==
  \A w \in Workers :
    /\ tx[w].op = "assign" => ship[tx[w].row] = "accepted"
    /\ tx[w].op = "move" => ship[tx[w].row] = "loaded"
    /\ tx[w].op = "confirm" => pay[tx[w].row] = "recorded"

(* Cargo is put on a trip once, when it leaves ACCEPTED for ASSIGNED, and  *)
(* a payment gets its shipment when it is recorded.                        *)
References ==
  /\ \A s \in Shipments : ship[s] \in {"none", "accepted"} => on[s] = Nowhere
  /\ \A p \in Payments : pay[p] # "none" => payFor[p] \in Shipments

Base ==
  /\ TypeOK
  /\ RowsLocked
  /\ ReadHolds
  /\ References

-----------------------------------------------------------------------------
(* What each kind of transaction works on. *)
LEMMA TxCases ==
  ASSUME TypeOK, NEW w \in Workers
  PROVE  /\ tx[w].op = "open" => /\ tx[w].row \in Shipments /\ tx[w].trip \in Trips
                                 /\ tx[w].room \in Rooms
         /\ tx[w].op = "assign" => tx[w].row \in Shipments /\ tx[w].trip \in Trips
         /\ tx[w].op = "move" => tx[w].row \in Shipments
         /\ tx[w].op = "confirm" => tx[w].row \in Payments
         /\ tx[w].op = "close" => tx[w].row \in Trips
         /\ tx[w] = Idle => tx[w].op = "idle"
  BY DEF TypeOK, Tx, OpenTx, AssignTx, MoveTx, ConfirmTx, CloseTx, Idle

(* What an edit is about to write. *)
LEMMA FormCases ==
  ASSUME TypeOK, NEW e \in Edits, form[e].at = "save"
  PROVE  /\ form[e].row \in Trips
         /\ form[e].status \in TripStatus \ {"none", "closed"}
         /\ form[e].room \in Rooms
  BY DEF TypeOK, Form, ToRead, Answered

(* The transitions of cargo that the proofs speak of. *)
LEMMA FollowingFacts ==
  ASSUME NEW s \in ShipStatus, NEW u \in Following[s]
  PROVE  /\ u \in ShipStatus
         /\ u \notin {"none", "accepted"}
         /\ s \notin {"none", "cancelled"}
         /\ u = "in_transit" => s = "loaded"
         /\ s = "loaded" => u = "in_transit"
         /\ u \in {"damaged", "lost"} => s = "in_transit"
  BY DEF ShipStatus, Following

LEMMA RoomsAreNat == Rooms \subseteq Nat
  BY LimitsAssumption DEF Rooms

(* The steps of a worker. *)
WorkerStep(w) == CargoStep(w) \/ CashStep(w) \/ CloseStep(w) \/ Crash(w)

(* Which steps change which part of the state. *)
LEMMA Frame ==
  ASSUME Next
  PROVE  /\ \/ UNCHANGED <<ship, on>>
            \/ \E s \in Shipments : Accept(s) \/ \E to \in ShipStatus : Move(s, to)
            \/ \E w \in Workers : AssignWrite(w) \/ DepartWrite(w)
         /\ \/ UNCHANGED trip
            \/ \E t \in Trips : Schedule(t) \/ Drive(t)
            \/ \E e \in Edits : EditSave(e)
            \/ \E w \in Workers : CloseWrite(w)
         /\ \/ UNCHANGED <<room, shrunk>>
            \/ \E t \in Trips, r \in Rooms : AssignVehicle(t, r)
            \/ \E e \in Edits : EditSave(e)
         /\ \/ UNCHANGED <<pay, payFor>>
            \/ \E p \in Payments : RejectCash(p) \/ \E s \in Shipments : RecordCash(p, s)
            \/ \E w \in Workers : ConfirmWrite(w)
         /\ UNCHANGED <<settled, cash>> \/ \E t \in Trips : Settle(t)
         /\ UNCHANGED tx \/ \E w \in Workers : WorkerStep(w)
         /\ \/ UNCHANGED overlapped
            \/ \E w \in Workers : AssignRead(w) \/ \E p \in Payments : ConfirmRead(w, p)
  BY DEF Next, CargoStep, CashStep, CloseStep, TripStep, EditStep, Accept,
         AssignOpen, AssignRead, AssignWrite, Move, DepartRead, DepartWrite,
         RecordCash, ConfirmRead, ConfirmWrite, RejectCash, Schedule,
         AssignVehicle, SetRoom, Drive, EditRead, EditSave, EditDrop,
         CloseRead, CloseWrite, Settle, Crash, WorkerStep, cargo, trips, money,
         history

(* A worker's step is its own. *)
LEMMA OwnStep ==
  ASSUME TypeOK, NEW w \in Workers, WorkerStep(w)
  PROVE  \A v \in Workers \ {w} : tx'[v] = tx[v]
  BY DEF WorkerStep, CargoStep, CashStep, CloseStep, AssignOpen, AssignRead,
         AssignWrite, DepartRead, DepartWrite, ConfirmRead, ConfirmWrite,
         CloseRead, CloseWrite, Crash, Become, TypeOK

-----------------------------------------------------------------------------
(* The base of the proofs *)

LEMMA InitBase ==
  ASSUME Init
  PROVE  Base
  BY DEF Init, Base, TypeOK, ShipStatus, TripStatus, Rooms, PayStatus, Tx, Idle,
         RowsLocked, OnShip, ReadHolds, References

LEMMA TypeStep ==
  ASSUME Base, Next
  PROVE  TypeOK'
  <1> USE DEF Base
  <1>1. /\ ship' \in [Shipments -> ShipStatus]
        /\ on' \in [Shipments -> Trips \cup {Nowhere}]
    BY Frame, TxCases
    DEF Accept, Move, AssignWrite, DepartWrite, TypeOK, ShipStatus, cargo,
        trips, money, history
  <1>2. trip' \in [Trips -> TripStatus]
    BY Frame, TxCases, FormCases
    DEF Schedule, Drive, EditSave, CloseWrite, TypeOK, TripStatus
  <1>3. room' \in [Trips -> Rooms] /\ shrunk' \subseteq Trips
    BY Frame, FormCases DEF AssignVehicle, EditSave, SetRoom, TypeOK
  <1>4. closings' \subseteq Trips
    <2>1. UNCHANGED closings \/ \E w \in Workers : CloseWrite(w)
      BY DEF Next, CargoStep, CashStep, CloseStep, TripStep, EditStep, Accept,
             AssignOpen, AssignRead, AssignWrite, Move, DepartRead,
             DepartWrite, RecordCash, ConfirmRead, ConfirmWrite, RejectCash,
             Schedule, AssignVehicle, SetRoom, Drive, EditRead, EditSave,
             EditDrop, CloseRead, CloseWrite, Settle, Crash, cargo, trips,
             money, history
    <2> QED
      BY <2>1, TxCases DEF CloseWrite, TypeOK
  <1>5. /\ pay' \in [Payments -> PayStatus]
        /\ payFor' \in [Payments -> Shipments \cup {Nowhere}]
    BY Frame, TxCases DEF RejectCash, RecordCash, ConfirmWrite, TypeOK, PayStatus
  <1>6. settled' \subseteq Trips /\ cash' \in [Trips -> SUBSET Payments]
    <2>1. \A t \in Trips : UNION {Paid(s) : s \in Aboard(t)} \subseteq Payments
      BY DEF Paid
    <2> QED
      BY <2>1, Frame DEF Settle, TypeOK
  <1>7. tx' \in [Workers -> Tx]
    <2>1. ASSUME NEW w \in Workers, WorkerStep(w)
          PROVE  tx'[w] \in Tx
      BY <2>1, TxCases
      DEF WorkerStep, CargoStep, CashStep, CloseStep, AssignOpen, AssignRead,
          AssignWrite, DepartRead, DepartWrite, ConfirmRead, ConfirmWrite,
          CloseRead, CloseWrite, Crash, Become, TypeOK, Tx, OpenTx, AssignTx,
          MoveTx, ConfirmTx, CloseTx
    <2>2. ASSUME NEW w \in Workers, WorkerStep(w)
          PROVE  tx' = [tx EXCEPT ![w] = tx'[w]]
      BY <2>2 DEF WorkerStep, CargoStep, CashStep, CloseStep, AssignOpen,
                  AssignRead, AssignWrite, DepartRead, DepartWrite,
                  ConfirmRead, ConfirmWrite, CloseRead, CloseWrite, Crash,
                  Become, TypeOK
    <2> QED
      BY <2>1, <2>2, Frame DEF TypeOK
  <1>8. form' \in [Edits -> Form \cup {ToRead, Answered}]
    <2>1. ASSUME NEW e \in Edits, NEW t \in Trips, EditRead(e, t)
          PROVE  form' \in [Edits -> Form \cup {ToRead, Answered}]
      BY <2>1 DEF EditRead, TypeOK, Form
    <2>2. ASSUME NEW e \in Edits, EditSave(e) \/ EditDrop(e)
          PROVE  form' \in [Edits -> Form \cup {ToRead, Answered}]
      BY <2>2 DEF EditSave, EditDrop, TypeOK
    <2>3. \/ UNCHANGED form
          \/ \E e \in Edits : EditStep(e)
      BY DEF Next, CargoStep, CashStep, CloseStep, TripStep, EditStep, Accept,
             AssignOpen, AssignRead, AssignWrite, Move, DepartRead,
             DepartWrite, RecordCash, ConfirmRead, ConfirmWrite, RejectCash,
             Schedule, AssignVehicle, SetRoom, Drive, EditRead, EditSave,
             EditDrop, CloseRead, CloseWrite, Settle, Crash, cargo, trips,
             money, history
    <2> QED
      BY <2>1, <2>2, <2>3 DEF EditStep, TypeOK
  <1>9. overlapped' \subseteq Trips \cup Shipments
    <2>1. ASSUME NEW w \in Workers, AssignRead(w)
          PROVE  overlapped' \subseteq Trips \cup Shipments
      BY <2>1, TxCases DEF AssignRead, TypeOK
    <2>2. ASSUME NEW w \in Workers, NEW p \in Payments, ConfirmRead(w, p)
          PROVE  overlapped' \subseteq Trips \cup Shipments
      BY <2>2 DEF ConfirmRead, References, TypeOK
    <2> QED
      BY <2>1, <2>2, Frame DEF TypeOK
  <1> QED
    BY <1>1, <1>2, <1>3, <1>4, <1>5, <1>6, <1>7, <1>8, <1>9 DEF TypeOK

LEMMA LocksStep ==
  ASSUME Base, Next
  PROVE  RowsLocked'
  <1> USE DEF Base
  <1>1. CASE tx' = tx
    BY <1>1 DEF RowsLocked, OnShip
  <1>2. ASSUME NEW w \in Workers, WorkerStep(w),
               OnShip(w)' => ShipFree(tx'[w].row),
               tx'[w].op = "confirm" => PayFree(tx'[w].row)
        PROVE  RowsLocked'
    BY <1>2, OwnStep DEF RowsLocked, OnShip, ShipFree, PayFree, Busy
  <1>3. ASSUME NEW w \in Workers, WorkerStep(w)
        PROVE  /\ OnShip(w)' => ShipFree(tx'[w].row)
               /\ tx'[w].op = "confirm" => PayFree(tx'[w].row)
    BY <1>3 DEF WorkerStep, CargoStep, CashStep, CloseStep, AssignOpen,
                AssignRead, AssignWrite, DepartRead, DepartWrite, ConfirmRead,
                ConfirmWrite, CloseRead, CloseWrite, Crash, Become, TypeOK,
                OnShip, Idle
  <1> QED
    BY <1>1, <1>2, <1>3, Frame

LEMMA ReadsStep ==
  ASSUME Base, Next
  PROVE  ReadHolds'
  <1> USE DEF Base
  <1>1. ASSUME NEW w \in Workers, tx'[w] = tx[w], OnShip(w)
        PROVE  ship'[tx[w].row] = ship[tx[w].row]
    <2>1. tx[w].row \in Shipments /\ ship[tx[w].row] \in {"accepted", "loaded"}
      BY <1>1, TxCases DEF OnShip, ReadHolds
    <2>2. ASSUME NEW s \in Shipments, Accept(s) \/ \E to \in ShipStatus : Move(s, to)
          PROVE  s # tx[w].row
      BY <1>1, <2>1, <2>2 DEF Accept, Move, ShipFree, Busy, OnShip
    <2>3. ASSUME NEW v \in Workers, AssignWrite(v) \/ DepartWrite(v)
          PROVE  tx[v].row # tx[w].row
      <3>1. OnShip(v) /\ tx'[v].op = "idle"
        BY <2>3 DEF AssignWrite, DepartWrite, Become, OnShip, TypeOK, Idle
      <3>2. v # w
        BY <1>1, <3>1 DEF OnShip
      <3> QED
        BY <1>1, <3>1, <3>2 DEF RowsLocked
    <2> QED
      BY <2>1, <2>2, <2>3, Frame, TxCases
      DEF Accept, Move, AssignWrite, DepartWrite, TypeOK
  <1>2. ASSUME NEW w \in Workers, tx'[w] = tx[w], tx[w].op = "confirm"
        PROVE  pay'[tx[w].row] = pay[tx[w].row]
    <2>1. tx[w].row \in Payments /\ pay[tx[w].row] = "recorded"
      BY <1>2, TxCases DEF ReadHolds
    <2>2. ASSUME NEW p \in Payments,
                 RejectCash(p) \/ \E s \in Shipments : RecordCash(p, s)
          PROVE  p # tx[w].row
      BY <1>2, <2>1, <2>2 DEF RejectCash, RecordCash, PayFree, Busy
    <2>3. ASSUME NEW v \in Workers, ConfirmWrite(v)
          PROVE  tx[v].row # tx[w].row
      <3>1. tx[v].op = "confirm" /\ tx'[v].op = "idle"
        BY <2>3 DEF ConfirmWrite, Become, TypeOK, Idle
      <3> QED
        BY <1>2, <3>1 DEF RowsLocked
    <2> QED
      BY <2>1, <2>2, <2>3, Frame DEF RejectCash, RecordCash, ConfirmWrite, TypeOK
  <1>3. ASSUME NEW w \in Workers, tx'[w] # tx[w]
        PROVE  /\ tx'[w].op = "assign" => ship'[tx'[w].row] = "accepted"
               /\ tx'[w].op = "move" => ship'[tx'[w].row] = "loaded"
               /\ tx'[w].op = "confirm" => pay'[tx'[w].row] = "recorded"
    <2>1. WorkerStep(w)
      BY <1>3, Frame, OwnStep
    <2> QED
      BY <2>1, TxCases, FollowingFacts DEF WorkerStep, CargoStep, CashStep,
                                           CloseStep, AssignOpen, AssignRead,
                                           AssignWrite, DepartRead,
                                           DepartWrite, ConfirmRead,
                                           ConfirmWrite, CloseRead, CloseWrite,
                                           Crash, Become, TypeOK, Idle, cargo,
                                           trips, money, history
  <1> QED
    BY <1>1, <1>2, <1>3 DEF ReadHolds, OnShip

LEMMA ReferencesStep ==
  ASSUME Base, Next
  PROVE  References'
  <1> USE DEF Base
  <1>1. \A s \in Shipments : ship'[s] \in {"none", "accepted"} => on'[s] = Nowhere
    BY Frame, TxCases, FollowingFacts
    DEF Accept, Move, AssignWrite, DepartWrite, References, TypeOK
  <1>2. \A p \in Payments : pay'[p] # "none" => payFor'[p] \in Shipments
    BY Frame, TxCases
    DEF RejectCash, RecordCash, ConfirmWrite, ReadHolds, References, TypeOK
  <1> QED
    BY <1>1, <1>2 DEF References

LEMMA BaseInvariance == Spec => []Base
  <1>1. Init => Base
    BY InitBase
  <1>2. Base /\ [Next]_vars => Base'
    <2>1. CASE UNCHANGED vars
      BY <2>1 DEF vars, cargo, trips, money, history, Base, TypeOK, RowsLocked,
                  OnShip, ReadHolds, References
    <2>2. ASSUME Base, Next
          PROVE  Base'
      BY <2>2, TypeStep, LocksStep, ReadsStep, ReferencesStep DEF Base
    <2> QED
      BY <2>1, <2>2
  <1> QED
    BY <1>1, <1>2, PTL DEF Spec

-----------------------------------------------------------------------------
(* What rides on a trip *)

(* The shipment has left with its trip and not come in, or is about to. *)
Riding(s) ==
  \/ ship[s] \in {"in_transit", "damaged", "lost"}
  \/ \E w \in Workers : tx[w].op = "move" /\ tx[w].row = s

(* Its trip is not closed and nobody is closing it; a save may have put    *)
(* the trip back to any earlier status.                                    *)
OnOpenTrip(s) ==
  /\ on[s] \in Trips
  /\ trip[on[s]] # "closed"
  /\ \A v \in Workers : tx[v].op = "close" => tx[v].row # on[s]

(* Who closes a trip has found it arrived and its cargo resolved, and no   *)
(* cargo leaves on a trip that has arrived.                                *)
CargoRides ==
  /\ \A v \in Workers : tx[v].op = "close" => trip[tx[v].row] \in {"arrived", "closed"}
  /\ \A s \in Shipments : Riding(s) => OnOpenTrip(s)

(* What rides was loaded; so it is aboard and not resolved. *)
LEMMA RidingIsAboard ==
  ASSUME Base, NEW s \in Shipments, Riding(s)
  PROVE  ship[s] \in {"loaded", "in_transit", "damaged", "lost"}
  BY DEF Base, Riding, ReadHolds

(* Others leave the trip alone while it is being closed. *)
LEMMA ClosersStep ==
  ASSUME Base, CargoRides, Next
  PROVE  \A v \in Workers :
           tx'[v].op = "close" => trip'[tx'[v].row] \in {"arrived", "closed"}
  <1> SUFFICES ASSUME NEW v \in Workers, tx'[v].op = "close"
               PROVE  trip'[tx'[v].row] \in {"arrived", "closed"}
    OBVIOUS
  <1> USE DEF Base
  <1>1. CASE tx'[v] # tx[v]
    <2>1. WorkerStep(v)
      BY <1>1, Frame, OwnStep
    <2>2. \E t \in Trips : CloseRead(v, t)
      BY <2>1 DEF WorkerStep, CargoStep, CashStep, CloseStep, AssignOpen,
                  AssignRead, AssignWrite, DepartRead, DepartWrite,
                  ConfirmRead, ConfirmWrite, CloseRead, CloseWrite, Crash,
                  Become, TypeOK, Idle
    <2> QED
      BY <2>2 DEF CloseRead, Become, TypeOK, trips
  <1>2. CASE tx'[v] = tx[v]
    <2>1. tx[v].row \in Trips /\ trip[tx[v].row] \in {"arrived", "closed"}
      BY <1>2, TxCases DEF CargoRides
    <2>2. ASSUME NEW t \in Trips, Schedule(t) \/ Drive(t)
          PROVE  t # tx[v].row
      BY <1>2, <2>1, <2>2 DEF Schedule, Drive, TripFree, Busy
    <2>3. ASSUME NEW e \in Edits, EditSave(e)
          PROVE  form[e].row # tx[v].row
      BY <1>2, <2>3 DEF EditSave, TripFree, Busy
    <2> QED
      BY <1>2, <2>1, <2>2, <2>3, Frame, TxCases, FormCases
      DEF Schedule, Drive, EditSave, CloseWrite, TypeOK
  <1> QED
    BY <1>1, <1>2

(* A shipment begins to ride when a worker has read that its trip departed. *)
LEMMA RideBegins ==
  ASSUME Base, CargoRides, Next, NEW s \in Shipments, Riding(s)', ~Riding(s)
  PROVE  OnOpenTrip(s)'
  <1> USE DEF Base
  <1>1. ASSUME NEW w \in Workers, DepartRead(w, s)
        PROVE  OnOpenTrip(s)'
    <2>1. /\ on[s] \in Trips /\ trip[on[s]] = "departed"
          /\ on' = on /\ trip' = trip
      BY <1>1 DEF DepartRead, TypeOK, cargo, trips
    <2>2. \A v \in Workers : tx'[v].op = "close" => tx'[v] = tx[v]
      BY <1>1 DEF DepartRead, Become, TypeOK
    <2> QED
      BY <2>1, <2>2 DEF OnOpenTrip, CargoRides
  <1>2. ship'[s] \notin {"in_transit", "damaged", "lost"}
    BY Frame, TxCases, FollowingFacts
    DEF Accept, Move, AssignWrite, DepartWrite, Riding, TypeOK
  <1>3. PICK w \in Workers : tx'[w].op = "move" /\ tx'[w].row = s
    BY <1>2 DEF Riding
  <1>4. WorkerStep(w)
    BY <1>3, Frame, OwnStep DEF Riding
  <1>5. DepartRead(w, s)
    BY <1>3, <1>4 DEF WorkerStep, CargoStep, CashStep, CloseStep, AssignOpen,
                      AssignRead, AssignWrite, DepartRead, DepartWrite,
                      ConfirmRead, ConfirmWrite, CloseRead, CloseWrite, Crash,
                      Become, TypeOK, Idle, Riding
  <1> QED
    BY <1>1, <1>5

(* While it rides, its trip stays open and is closed by nobody. *)
LEMMA RideGoesOn ==
  ASSUME Base, CargoRides, Next, NEW s \in Shipments, Riding(s)
  PROVE  OnOpenTrip(s)'
  <1> USE DEF Base
  <1>1. /\ on[s] \in Trips /\ trip[on[s]] # "closed"
        /\ \A v \in Workers : tx[v].op = "close" => tx[v].row # on[s]
    BY DEF CargoRides, OnOpenTrip
  <1>2. ship[s] \in {"loaded", "in_transit", "damaged", "lost"}
    BY RidingIsAboard
  <1>3. on'[s] = on[s]
    BY <1>2, Frame, TxCases
    DEF Accept, Move, AssignWrite, DepartWrite, ReadHolds, TypeOK
  <1>4. trip'[on[s]] # "closed"
    BY <1>1, Frame, TxCases, FormCases
    DEF Schedule, Drive, EditSave, CloseWrite, TypeOK
  <1>5. ASSUME NEW v \in Workers, tx'[v].op = "close", tx'[v] # tx[v]
        PROVE  tx'[v].row # on[s]
    <2>1. WorkerStep(v)
      BY <1>5, Frame, OwnStep
    <2>2. PICK t \in Trips : CloseRead(v, t)
      BY <1>5, <2>1 DEF WorkerStep, CargoStep, CashStep, CloseStep, AssignOpen,
                        AssignRead, AssignWrite, DepartRead, DepartWrite,
                        ConfirmRead, ConfirmWrite, CloseRead, CloseWrite,
                        Crash, Become, TypeOK, Idle
    <2>3. t # on[s]
      BY <1>2, <2>2 DEF CloseRead, Aboard, Resolved
    <2> QED
      BY <2>2, <2>3 DEF CloseRead, Become, TypeOK
  <1> QED
    BY <1>1, <1>3, <1>4, <1>5 DEF OnOpenTrip

LEMMA RidesInvariance == Spec => []CargoRides
  <1>1. Init => CargoRides
    BY DEF Init, CargoRides, Riding, Idle
  <1>2. Base /\ CargoRides /\ [Next]_vars => CargoRides'
    <2>1. CASE UNCHANGED vars
      BY <2>1 DEF vars, cargo, trips, money, history, CargoRides, Riding,
                  OnOpenTrip
    <2>2. ASSUME Base, CargoRides, Next
          PROVE  CargoRides'
      BY <2>2, ClosersStep, RideBegins, RideGoesOn DEF CargoRides
    <2> QED
      BY <2>1, <2>2
  <1> QED
    BY <1>1, <1>2, BaseInvariance, PTL DEF Spec

-----------------------------------------------------------------------------
(* The cash of a settlement *)

(* What was counted was confirmed, for cargo that is on the settled trip;  *)
(* cargo never changes its trip and a confirmed payment not its cargo.     *)
CashTraced ==
  \A t \in Trips : \A p \in cash[t] :
    pay[p] = "confirmed" /\ on[payFor[p]] = t

LEMMA CashStepTraced ==
  ASSUME Base, CashTraced, Next
  PROVE  CashTraced'
  <1> USE DEF Base
  <1>1. ASSUME NEW t \in Trips, Settle(t)
        PROVE  CashTraced'
    <2>1. \A u \in Trips \ {t} : cash'[u] = cash[u]
      BY <1>1 DEF Settle, TypeOK
    <2>2. \A p \in cash'[t] : pay[p] = "confirmed" /\ on[payFor[p]] = t
      BY <1>1 DEF Settle, Paid, Aboard, TypeOK
    <2> QED
      BY <1>1, <2>1, <2>2 DEF Settle, CashTraced, cargo
  <1>2. CASE cash' = cash
    <2> SUFFICES ASSUME NEW t \in Trips, NEW p \in cash[t]
                 PROVE  pay'[p] = "confirmed" /\ on'[payFor'[p]] = t
      BY <1>2 DEF CashTraced
    <2>1. /\ p \in Payments /\ pay[p] = "confirmed" /\ on[payFor[p]] = t
          /\ payFor[p] \in Shipments /\ on[payFor[p]] # Nowhere
      BY NowhereAssumption DEF CashTraced, TypeOK, References
    <2>2. pay'[p] = "confirmed" /\ payFor'[p] = payFor[p]
      BY <2>1, Frame, TxCases DEF RejectCash, RecordCash, ConfirmWrite, TypeOK
    <2>3. on'[payFor[p]] = on[payFor[p]]
      BY <2>1, Frame, TxCases
      DEF Accept, Move, AssignWrite, DepartWrite, ReadHolds, References, TypeOK
    <2> QED
      BY <2>1, <2>2, <2>3
  <1> QED
    BY <1>1, <1>2, Frame

LEMMA TracedInvariance == Spec => []CashTraced
  <1>1. Init => CashTraced
    BY DEF Init, CashTraced
  <1>2. Base /\ CashTraced /\ [Next]_vars => CashTraced'
    <2>1. CASE UNCHANGED vars
      BY <2>1 DEF vars, cargo, trips, money, history, CashTraced
    <2>2. ASSUME Base, CashTraced, Next
          PROVE  CashTraced'
      BY <2>2, CashStepTraced
    <2> QED
      BY <2>1, <2>2
  <1> QED
    BY <1>1, <1>2, BaseInvariance, PTL DEF Spec

-----------------------------------------------------------------------------
(* The limits *)

(* A trip's vehicle takes its load, also counting the shipment that a      *)
(* worker is about to put on it, unless two workers were at it at once or  *)
(* the vehicle was replaced by a smaller one; a request that has read the  *)
(* trip has not seen more room than there is.                              *)
LoadFits ==
  \A t \in Trips \ (overlapped \cup shrunk) :
    /\ Cardinality(Load(t)) <= room[t]
    /\ \A w \in Workers : tx[w].op = "open" /\ tx[w].trip = t => tx[w].room <= room[t]
    /\ \A w \in Workers : tx[w].op = "assign" /\ tx[w].trip = t =>
         /\ Cardinality(Load(t)) + 1 <= room[t]
         /\ \A v \in Workers : tx[v].op = "assign" /\ tx[v].trip = t => v = w

(* The confirmed payments of a shipment do not exceed its charge, also     *)
(* counting the one that a worker is about to confirm.                     *)
PaidFits ==
  \A s \in Shipments \ overlapped :
    /\ Cardinality(Paid(s)) <= Charge
    /\ \A w \in Workers : tx[w].op = "confirm" /\ payFor[tx[w].row] = s =>
         /\ Cardinality(Paid(s)) + 1 <= Charge
         /\ \A v \in Workers :
              tx[v].op = "confirm" /\ payFor[tx[v].row] = s => v = w

(* Loads and payments are finite, as the shipments and payments are. *)
LEMMA FiniteCounts ==
  /\ \A S \in SUBSET Shipments : IsFiniteSet(S) /\ Cardinality(S) \in Nat
  /\ \A S \in SUBSET Payments : IsFiniteSet(S) /\ Cardinality(S) \in Nat
  BY FiniteAssumption, FS_Subset, FS_CardinalityType

(* A set that loses elements, or gets one, grows by one at most. *)
LEMMA GrowsByOne ==
  ASSUME NEW S, IsFiniteSet(S), NEW x, NEW T \in SUBSET (S \cup {x})
  PROVE  Cardinality(T) <= Cardinality(S) + 1
  <1>1. /\ IsFiniteSet(S \cup {x})
        /\ Cardinality(S \cup {x}) <= Cardinality(S) + 1
    <2>1. Cardinality(S) \in Nat
      BY FS_CardinalityType
    <2>2. /\ IsFiniteSet(S \cup {x})
          /\ \/ Cardinality(S \cup {x}) = Cardinality(S)
             \/ Cardinality(S \cup {x}) = Cardinality(S) + 1
      BY FS_AddElement, Zenon
    <2> QED
      BY <2>1, <2>2
  <1>2. IsFiniteSet(T) /\ Cardinality(T) <= Cardinality(S \cup {x})
    BY <1>1, FS_Subset
  <1>3. /\ Cardinality(T) \in Nat /\ Cardinality(S) \in Nat
        /\ Cardinality(S \cup {x}) \in Nat
    BY <1>1, <1>2, FS_CardinalityType
  <1> QED
    BY <1>1, <1>2, <1>3

(* The histories keep what they have. *)
LEMMA HistoriesGrow ==
  ASSUME Next
  PROVE  overlapped \subseteq overlapped' /\ shrunk \subseteq shrunk'
  BY Frame DEF AssignRead, ConfirmRead, AssignVehicle, EditSave, SetRoom

(* A load grows when a shipment is assigned, and at no other step. *)
LEMMA LoadGrows ==
  ASSUME Base, Next, NEW t \in Trips,
         ~ \E w \in Workers : AssignWrite(w) /\ tx[w].trip = t
  PROVE  Load(t)' \subseteq Load(t)
  <1> USE DEF Base
  <1>1. ASSUME NEW s \in Shipments, Accept(s)
        PROVE  Load(t)' \subseteq Load(t)
    BY <1>1, NowhereAssumption DEF Accept, Load, Aboard, References, TypeOK
  <1>2. ASSUME NEW s \in Shipments, NEW to \in ShipStatus, Move(s, to)
        PROVE  Load(t)' \subseteq Load(t)
    <2>1. ship[s] # "cancelled" /\ on' = on /\ ship' = [ship EXCEPT ![s] = to]
      BY <1>2, FollowingFacts DEF Move, TypeOK
    <2> QED
      BY <2>1 DEF Load, Aboard, TypeOK
  <1>3. ASSUME NEW w \in Workers, DepartWrite(w)
        PROVE  Load(t)' \subseteq Load(t)
    BY <1>3, TxCases DEF DepartWrite, ReadHolds, Load, Aboard, TypeOK
  <1>4. ASSUME NEW w \in Workers, AssignWrite(w)
        PROVE  Load(t)' \subseteq Load(t)
    BY <1>4, TxCases DEF AssignWrite, Load, Aboard, TypeOK
  <1>5. CASE UNCHANGED <<ship, on>>
    BY <1>5 DEF Load, Aboard
  <1> QED
    BY <1>1, <1>2, <1>3, <1>4, <1>5, Frame

(* Room is taken away unmarked from trips that nobody has asked only. *)
LEMMA RoomStep ==
  ASSUME Base, Next, NEW t \in Trips, t \notin shrunk',
         ~UNCHANGED <<room, shrunk>>
  PROVE  /\ UNCHANGED <<ship, on, tx, overlapped>>
         /\ room'[t] >= room[t] \/ ~Asked(t)
  <1> USE DEF Base
  <1>1. ASSUME NEW u \in Trips, NEW r \in Rooms, SetRoom(u, r)
        PROVE  room'[t] >= room[t] \/ ~Asked(t)
    <2>1. room[t] \in Nat /\ r \in Nat
      BY RoomsAreNat DEF TypeOK
    <2>2. CASE u = t
      <3>1. room'[t] = r
        BY <1>1, <2>2 DEF SetRoom, TypeOK
      <3>2. ~(r < room[t] /\ Asked(t))
        BY <1>1, <2>2 DEF SetRoom
      <3> QED
        BY <2>1, <3>1, <3>2
    <2>3. CASE u # t
      <3>1. room'[t] = room[t]
        BY <1>1, <2>3 DEF SetRoom, TypeOK
      <3> QED
        BY <2>1, <3>1
    <2> QED
      BY <2>2, <2>3
  <1>2. ASSUME NEW u \in Trips, NEW r \in Rooms, AssignVehicle(u, r)
        PROVE  UNCHANGED <<ship, on, tx, overlapped>> /\ SetRoom(u, r)
    BY <1>2 DEF AssignVehicle, cargo
  <1>3. ASSUME NEW e \in Edits, EditSave(e)
        PROVE  /\ UNCHANGED <<ship, on, tx, overlapped>>
               /\ \E u \in Trips, r \in Rooms : SetRoom(u, r)
    BY <1>3, FormCases DEF EditSave, cargo
  <1> QED
    BY <1>1, <1>2, <1>3, Frame

LEMMA LoadStep ==
  ASSUME Base, LoadFits, Next
  PROVE  LoadFits'
  <1> USE DEF Base
  <1> DEFINE Fits(t) ==
        /\ Cardinality(Load(t)) <= room[t]
        /\ \A w \in Workers :
             tx[w].op = "open" /\ tx[w].trip = t => tx[w].room <= room[t]
        /\ \A w \in Workers : tx[w].op = "assign" /\ tx[w].trip = t =>
             /\ Cardinality(Load(t)) + 1 <= room[t]
             /\ \A v \in Workers : tx[v].op = "assign" /\ tx[v].trip = t => v = w
  <1> SUFFICES ASSUME NEW t \in Trips, t \notin overlapped', t \notin shrunk'
               PROVE  Fits(t)'
    BY DEF LoadFits
  <1>1. Fits(t)
    BY HistoriesGrow DEF LoadFits
  <1>2. /\ Load(t) \in SUBSET Shipments /\ IsFiniteSet(Load(t))
        /\ Cardinality(Load(t)) \in Nat
        /\ Load(t)' \in SUBSET Shipments /\ Cardinality(Load(t)') \in Nat
    BY FiniteCounts DEF Load, Aboard
  <1>3. room[t] \in Nat /\ room'[t] \in Nat
    <2>1. room' \in [Trips -> Rooms]
      BY TypeStep DEF TypeOK
    <2> QED
      BY <2>1, RoomsAreNat DEF TypeOK
  <1>4. CASE ~UNCHANGED <<room, shrunk>>
    <2>1. /\ UNCHANGED <<ship, on, tx, overlapped>>
          /\ room'[t] >= room[t] \/ ~Asked(t)
      BY <1>4, RoomStep
    <2>2. Load(t)' = Load(t)
      BY <2>1 DEF Load, Aboard
    <2>3. CASE room'[t] >= room[t]
      <3>1. \A w \in Workers : tx[w].op = "open" => tx[w].room \in Nat
        BY TxCases, RoomsAreNat
      <3> QED
        BY <1>1, <1>2, <1>3, <2>1, <2>2, <2>3, <3>1
    <2>4. CASE ~Asked(t)
      <3>1. /\ Load(t) = {}
            /\ ~ \E w \in Workers : tx[w].op \in {"open", "assign"} /\ tx[w].trip = t
        BY <2>4 DEF Asked, Busy
      <3>2. Cardinality(Load(t)') = 0
        BY <2>2, <3>1, FS_EmptySet
      <3> QED
        BY <1>3, <2>1, <3>1, <3>2
    <2> QED
      BY <2>1, <2>3, <2>4
  <1>5. ASSUME room' = room, NEW w \in Workers, AssignWrite(w), tx[w].trip = t
        PROVE  Fits(t)'
    <2>1. Load(t)' \subseteq Load(t) \cup {tx[w].row}
      BY <1>5, TxCases DEF AssignWrite, Load, Aboard, TypeOK
    <2>2. Cardinality(Load(t)') <= Cardinality(Load(t)) + 1
      BY <2>1, <1>2, GrowsByOne
    <2>3. Cardinality(Load(t)) + 1 <= room[t]
      BY <1>1, <1>5 DEF AssignWrite
    <2>4. \A v \in Workers : ~(tx'[v].op = "assign" /\ tx'[v].trip = t)
      BY <1>1, <1>5 DEF AssignWrite, Become, Idle, TypeOK
    <2>5. \A v \in Workers : tx'[v].op = "open" => tx'[v] = tx[v]
      BY <1>5 DEF AssignWrite, Become, Idle, TypeOK
    <2> QED
      BY <1>1, <1>2, <1>3, <1>5, <2>2, <2>3, <2>4, <2>5
  <1>6. CASE room' = room /\ ~ \E w \in Workers : AssignWrite(w) /\ tx[w].trip = t
    <2>1. Cardinality(Load(t)') <= Cardinality(Load(t))
      BY <1>2, <1>6, LoadGrows, FS_Subset
    <2>2. ASSUME NEW w \in Workers, tx'[w].op = "open", tx'[w].trip = t
          PROVE  tx'[w].room <= room'[t]
      <3>1. CASE tx'[w] = tx[w]
        BY <1>1, <1>6, <2>2, <3>1
      <3>2. CASE tx'[w] # tx[w]
        <4>1. WorkerStep(w)
          BY <3>2, Frame, OwnStep
        <4>2. tx'[w].room = room[t]
          BY <2>2, <4>1 DEF WorkerStep, CargoStep, CashStep, CloseStep,
                            AssignOpen, AssignRead, AssignWrite, DepartRead,
                            DepartWrite, ConfirmRead, ConfirmWrite, CloseRead,
                            CloseWrite, Crash, Become, TypeOK, Idle
        <4> QED
          BY <1>3, <1>6, <4>2
      <3> QED
        BY <3>1, <3>2
    <2>3. ASSUME NEW w \in Workers, AssignRead(w), tx[w].trip = t
          PROVE  /\ Cardinality(Load(t)) + 1 <= room[t]
                 /\ \A v \in Workers :
                      tx'[v].op = "assign" /\ tx'[v].trip = t => v = w
      <3>1. Cardinality(Load(t)) + 1 <= tx[w].room /\ tx[w].room <= room[t]
        BY <1>1, <2>3 DEF AssignRead
      <3>2. tx[w].room \in Nat
        BY <2>3, TxCases, RoomsAreNat DEF AssignRead
      <3>3. ~ \E v \in Workers : tx[v].op = "assign" /\ tx[v].trip = t
        BY <2>3 DEF AssignRead, Checked, Busy
      <3>4. \A v \in Workers \ {w} : tx'[v] = tx[v]
        BY <2>3 DEF AssignRead, Become, TypeOK
      <3> QED
        BY <1>2, <1>3, <3>1, <3>2, <3>3, <3>4
    <2>4. ASSUME NEW w \in Workers, tx'[w].op = "assign", tx'[w].trip = t,
                 ~ \E v \in Workers : AssignRead(v) /\ tx[v].trip = t
          PROVE  tx[w].op = "assign" /\ tx[w].trip = t
      <3>1. CASE tx'[w] # tx[w]
        <4>1. WorkerStep(w)
          BY <3>1, Frame, OwnStep
        <4> QED
          BY <2>4, <4>1 DEF WorkerStep, CargoStep, CashStep, CloseStep,
                            AssignOpen, AssignRead, AssignWrite, DepartRead,
                            DepartWrite, ConfirmRead, ConfirmWrite, CloseRead,
                            CloseWrite, Crash, Become, TypeOK, Idle
      <3> QED
        BY <2>4, <3>1
    <2>5. \A w \in Workers : tx'[w].op = "assign" /\ tx'[w].trip = t =>
            /\ Cardinality(Load(t)) + 1 <= room[t]
            /\ \A v \in Workers : tx'[v].op = "assign" /\ tx'[v].trip = t => v = w
      <3>1. CASE \E v \in Workers : AssignRead(v) /\ tx[v].trip = t
        BY <2>3, <3>1
      <3>2. CASE ~ \E v \in Workers : AssignRead(v) /\ tx[v].trip = t
        BY <1>1, <2>4, <3>2
      <3> QED
        BY <3>1, <3>2
    <2> QED
      BY <1>1, <1>2, <1>3, <1>6, <2>1, <2>2, <2>5
  <1> QED
    BY <1>4, <1>5, <1>6

(* Cash is added to a shipment's when a payment is confirmed, and else never. *)
LEMMA PaidGrows ==
  ASSUME Base, Next, NEW s \in Shipments,
         ~ \E w \in Workers : ConfirmWrite(w) /\ payFor[tx[w].row] = s
  PROVE  Paid(s)' \subseteq Paid(s)
  <1> USE DEF Base
  <1>1. ASSUME NEW w \in Workers, ConfirmWrite(w)
        PROVE  Paid(s)' \subseteq Paid(s)
    BY <1>1, TxCases DEF ConfirmWrite, Paid, TypeOK
  <1>2. ASSUME NEW p \in Payments,
               RejectCash(p) \/ \E u \in Shipments : RecordCash(p, u)
        PROVE  Paid(s)' \subseteq Paid(s)
    BY <1>2 DEF RejectCash, RecordCash, Paid, TypeOK
  <1>3. CASE UNCHANGED <<pay, payFor>>
    BY <1>3 DEF Paid
  <1> QED
    BY <1>1, <1>2, <1>3, Frame

LEMMA PaidStep ==
  ASSUME Base, PaidFits, Next
  PROVE  PaidFits'
  <1> USE DEF Base
  <1> DEFINE Fits(s) ==
        /\ Cardinality(Paid(s)) <= Charge
        /\ \A w \in Workers : tx[w].op = "confirm" /\ payFor[tx[w].row] = s =>
             /\ Cardinality(Paid(s)) + 1 <= Charge
             /\ \A v \in Workers :
                  tx[v].op = "confirm" /\ payFor[tx[v].row] = s => v = w
  <1> SUFFICES ASSUME NEW s \in Shipments, s \notin overlapped'
               PROVE  Fits(s)'
    BY DEF PaidFits
  <1>1. Fits(s)
    BY HistoriesGrow DEF PaidFits
  <1>2. /\ Paid(s) \in SUBSET Payments /\ IsFiniteSet(Paid(s))
        /\ Cardinality(Paid(s)) \in Nat
        /\ Paid(s)' \in SUBSET Payments /\ Cardinality(Paid(s)') \in Nat
    BY FiniteCounts DEF Paid
  <1>3. Charge \in Nat
    BY LimitsAssumption
  <1>4. ASSUME NEW w \in Workers, ConfirmWrite(w), payFor[tx[w].row] = s
        PROVE  Fits(s)'
    <2>1. Paid(s)' \subseteq Paid(s) \cup {tx[w].row}
      BY <1>4, TxCases DEF ConfirmWrite, Paid, TypeOK
    <2>2. Cardinality(Paid(s)') <= Cardinality(Paid(s)) + 1
      BY <2>1, <1>2, GrowsByOne
    <2>3. Cardinality(Paid(s)) + 1 <= Charge
      BY <1>1, <1>4 DEF ConfirmWrite
    <2>4. \A v \in Workers : ~(tx'[v].op = "confirm" /\ payFor'[tx'[v].row] = s)
      BY <1>1, <1>4 DEF ConfirmWrite, Become, Idle, TypeOK
    <2> QED
      BY <1>2, <1>3, <2>2, <2>3, <2>4
  <1>5. CASE ~ \E w \in Workers : ConfirmWrite(w) /\ payFor[tx[w].row] = s
    <2>1. Cardinality(Paid(s)') <= Cardinality(Paid(s))
      BY <1>2, <1>5, PaidGrows, FS_Subset
    <2>2. ASSUME NEW w \in Workers, NEW p \in Payments,
                 ConfirmRead(w, p), payFor[p] = s
          PROVE  /\ Cardinality(Paid(s)) + 1 <= Charge
                 /\ \A v \in Workers :
                      tx'[v].op = "confirm" /\ payFor'[tx'[v].row] = s => v = w
      <3>1. ~ \E v \in Workers : tx[v].op = "confirm" /\ payFor[tx[v].row] = s
        BY <2>2 DEF ConfirmRead, Decided, Busy
      <3> QED
        BY <2>2, <3>1 DEF ConfirmRead, Become, TypeOK, money
    <2>3. ASSUME NEW w \in Workers, tx'[w].op = "confirm", payFor'[tx'[w].row] = s,
                 ~ \E v \in Workers, p \in Payments :
                     ConfirmRead(v, p) /\ payFor[p] = s
          PROVE  tx[w].op = "confirm" /\ payFor[tx[w].row] = s
      <3>1. CASE tx'[w] # tx[w]
        <4>1. WorkerStep(w)
          BY <3>1, Frame, OwnStep
        <4>2. PICK p \in Payments : ConfirmRead(w, p)
          BY <2>3, <4>1, <3>1 DEF WorkerStep, CargoStep, CashStep, CloseStep,
                                  AssignOpen, AssignRead, AssignWrite,
                                  DepartRead, DepartWrite, ConfirmRead,
                                  ConfirmWrite, CloseRead, CloseWrite, Crash,
                                  Become, TypeOK, Idle
        <4> QED
          BY <2>3, <4>2 DEF ConfirmRead, Become, TypeOK, money
      <3>2. CASE tx'[w] = tx[w]
        <4>1. tx[w].row \in Payments /\ pay[tx[w].row] = "recorded"
          BY <2>3, <3>2, TxCases DEF ReadHolds
        <4>2. payFor'[tx[w].row] = payFor[tx[w].row]
          BY <4>1, Frame DEF RejectCash, RecordCash, ConfirmWrite, TypeOK
        <4> QED
          BY <2>3, <3>2, <4>2
      <3> QED
        BY <3>1, <3>2
    <2>4. \A w \in Workers : tx'[w].op = "confirm" /\ payFor'[tx'[w].row] = s =>
            /\ Cardinality(Paid(s)) + 1 <= Charge
            /\ \A v \in Workers :
                 tx'[v].op = "confirm" /\ payFor'[tx'[v].row] = s => v = w
      <3>1. CASE \E v \in Workers, p \in Payments : ConfirmRead(v, p) /\ payFor[p] = s
        BY <2>2, <3>1
      <3>2. CASE ~ \E v \in Workers, p \in Payments :
                     ConfirmRead(v, p) /\ payFor[p] = s
        BY <1>1, <2>3, <3>2
      <3> QED
        BY <3>1, <3>2
    <2> QED
      BY <1>1, <1>2, <1>3, <2>1, <2>4
  <1> QED
    BY <1>4, <1>5

LEMMA LimitsInvariance == Spec => [](LoadFits /\ PaidFits)
  <1>1. Init => LoadFits /\ PaidFits
    <2> SUFFICES ASSUME Init
                 PROVE  LoadFits /\ PaidFits
      OBVIOUS
    <2>1. \A t \in Trips : Load(t) = {} /\ room[t] = 0
      BY NowhereAssumption DEF Init, Load, Aboard
    <2>2. \A s \in Shipments : Paid(s) = {}
      BY DEF Init, Paid
    <2>3. \A w \in Workers : tx[w].op = "idle"
      BY DEF Init, Idle
    <2> QED
      BY <2>1, <2>2, <2>3, FS_EmptySet, LimitsAssumption DEF LoadFits, PaidFits
  <1>2. Base /\ (LoadFits /\ PaidFits) /\ [Next]_vars => (LoadFits /\ PaidFits)'
    <2>1. CASE UNCHANGED vars
      BY <2>1 DEF vars, cargo, trips, money, history, LoadFits, PaidFits, Load,
                  Aboard, Paid
    <2>2. ASSUME Base, LoadFits, PaidFits, Next
          PROVE  LoadFits' /\ PaidFits'
      BY <2>2, LoadStep, PaidStep
    <2> QED
      BY <2>1, <2>2
  <1> QED
    BY <1>1, <1>2, BaseInvariance, PTL DEF Spec

-----------------------------------------------------------------------------
(* Type correctness, for any finite sets of shipments, trips and payments. *)
THEOREM TypeCorrect == Spec => []TypeOK
  <1>1. Base => TypeOK
    BY DEF Base
  <1> QED
    BY <1>1, BaseInvariance, PTL

(* A trip's vehicle takes its cargo and a shipment is paid for once, for   *)
(* any vehicles and charge, unless two workers made one check at once or   *)
(* the vehicle was replaced by a smaller one under the cargo.              *)
THEOREM LimitsAreKept == Spec => []LimitsHold
  <1>1. LoadFits /\ PaidFits => LimitsHold
    BY DEF LoadFits, PaidFits, LimitsHold
  <1> QED
    BY <1>1, LimitsInvariance, PTL

(* Nothing is in transit, damaged or lost on a closed trip, also when a    *)
(* save of TripDetailView puts back the trip's status.                     *)
THEOREM NothingLeftUnderWay == Spec => []NothingUnderWayOnClosedTrip
  <1>1. CargoRides => NothingUnderWayOnClosedTrip
    BY DEF CargoRides, Riding, OnOpenTrip, NothingUnderWayOnClosedTrip
  <1> QED
    BY <1>1, RidesInvariance, PTL

(* No cash is counted by two settlements.                                  *)
THEOREM SettlementsAreDisjoint == Spec => []CashCountedOnce
  <1>1. CashTraced => CashCountedOnce
    BY DEF CashTraced, CashCountedOnce
  <1> QED
    BY <1>1, TracedInvariance, PTL

-----------------------------------------------------------------------------
(* When the limits hold for every trip and shipment *)

(* No two workers compare with one trip's load, or with the cash paid for  *)
(* one shipment, before either has written.  Locking the trip in           *)
(* assign_trip and the shipment in decide_payment would see to it.         *)
CheckedApart ==
  \A v, w \in Workers :
    v # w => /\ tx[v].op = "assign" /\ tx[w].op = "assign" =>
                  tx[v].trip # tx[w].trip
             /\ tx[v].op = "confirm" /\ tx[w].op = "confirm" =>
                  payFor[tx[v].row] # payFor[tx[w].row]

(* No trip that has cargo, or is being given some, gets a smaller vehicle. *)
(* assign_vehicle and TripDetailView do not see to it.                     *)
RoomStays == \A t \in Trips : Asked(t) => room'[t] >= room[t]

(* LimitsHold without its exceptions. *)
NoLimitExceeded ==
  /\ \A t \in Trips : Cardinality(Load(t)) <= room[t]
  /\ \A s \in Shipments : Cardinality(Paid(s)) <= Charge

(* A check that meets another one breaks CheckedApart as soon as it is     *)
(* made.                                                                   *)
LEMMA ApartCheck ==
  ASSUME Base, Next, CheckedApart'
  PROVE  overlapped' = overlapped
  <1> USE DEF Base
  <1>1. ASSUME NEW w \in Workers, AssignRead(w)
        PROVE  overlapped' = overlapped
    <2>1. /\ tx'[w].op = "assign" /\ tx'[w].trip = tx[w].trip
          /\ \A v \in Workers : v # w => tx'[v] = tx[v]
          /\ tx[w].op = "open"
      BY <1>1 DEF AssignRead, Become, TypeOK
    <2>2. ~Checked(tx[w].trip)
      BY <2>1 DEF Checked, Busy, CheckedApart
    <2> QED
      BY <1>1, <2>2 DEF AssignRead
  <1>2. ASSUME NEW w \in Workers, NEW p \in Payments, ConfirmRead(w, p)
        PROVE  overlapped' = overlapped
    <2>1. /\ tx'[w].op = "confirm" /\ tx'[w].row = p
          /\ \A v \in Workers : v # w => tx'[v] = tx[v]
          /\ payFor' = payFor
      BY <1>2 DEF ConfirmRead, Become, TypeOK, money
    <2>2. tx[w].op = "idle"
      BY <1>2 DEF ConfirmRead, Idle
    <2>3. ~Decided(payFor[p])
      BY <2>1, <2>2 DEF Decided, Busy, CheckedApart
    <2> QED
      BY <1>2, <2>3 DEF ConfirmRead
  <1> QED
    BY <1>1, <1>2, Frame

LEMMA NoneShrunk ==
  ASSUME Base, Next, RoomStays
  PROVE  shrunk' = shrunk
  <1> USE DEF Base
  <1>1. ASSUME NEW t \in Trips, NEW r \in Rooms, SetRoom(t, r)
        PROVE  shrunk' = shrunk
    <2>1. room'[t] = r /\ r \in Nat /\ room[t] \in Nat
      BY <1>1, RoomsAreNat DEF SetRoom, TypeOK
    <2>2. ~(r < room[t] /\ Asked(t))
      BY <2>1 DEF RoomStays
    <2> QED
      BY <1>1, <2>2 DEF SetRoom
  <1>2. \/ UNCHANGED shrunk
        \/ \E t \in Trips, r \in Rooms : SetRoom(t, r)
    BY Frame, FormCases DEF AssignVehicle, EditSave
  <1> QED
    BY <1>1, <1>2

(* As long as no two checks of one limit overlap and no trip gets a        *)
(* smaller vehicle under its cargo, no vehicle has more cargo than it      *)
(* takes and no shipment is paid for twice, whatever the workers do beside *)
(* them and wherever they die.                                             *)
THEOREM ApartKeepsLimits ==
  Spec /\ []CheckedApart /\ [][RoomStays]_vars => []NoLimitExceeded
  <1>1. Init => overlapped = {} /\ shrunk = {}
    BY DEF Init
  <1>2. Base /\ overlapped = {} /\ [Next]_vars /\ CheckedApart' => (overlapped = {})'
    <2>1. CASE UNCHANGED vars
      BY <2>1 DEF vars, history
    <2> QED
      BY <2>1, ApartCheck
  <1>3. Base /\ shrunk = {} /\ [Next]_vars /\ [RoomStays]_vars => (shrunk = {})'
    <2>1. CASE UNCHANGED vars
      BY <2>1 DEF vars, history
    <2> QED
      BY <2>1, NoneShrunk
  <1>4. LoadFits /\ PaidFits /\ overlapped = {} /\ shrunk = {} => NoLimitExceeded
    BY DEF LoadFits, PaidFits, NoLimitExceeded
  <1> QED
    BY <1>1, <1>2, <1>3, <1>4, BaseInvariance, LimitsInvariance, PTL DEF Spec
==============================================================================
