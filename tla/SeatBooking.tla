----------------------------- MODULE SeatBooking -----------------------------
(***************************************************************************)
(* Seat locks, bookings and seat reservations of ONE trip                  *)
(* (backend/apps/bookings).  Every request runs in a worker; a service     *)
(* function under transaction.atomic is one or more steps of its worker,   *)
(* split where PostgreSQL at READ COMMITTED lets another transaction in    *)
(* between a read and the write it justifies.  Writes take effect at the   *)
(* step that commits them.  Only create_booking, transition_trip and the   *)
(* save of TripDetailView take the row lock of the trip; the seat-lock     *)
(* services do not.                                                        *)
(***************************************************************************)
EXTENDS Integers, FiniteSets

CONSTANTS Users,      \* authenticated actors, counter staff or passengers
          Selectors,  \* those whose client takes a seat lock before it books
          Seats,      \* bookable positions of the trip's seat layout
          Requests,   \* client_request_id values, one booking row for each
          Workers,    \* request handlers, each with its database transaction
          NoWorker,   \* the trip row is not locked
          LastStop,   \* the route's stops are 1..LastStop
          LockTTL,    \* SeatLock.DEFAULT_TTL_SECONDS, in ticks
          MaxTime,    \* bound of the clock
          Deadlines   \* the expires_at that clients send, Never for none

ASSUME SelectorsAssumption == Selectors \subseteq Users
ASSUME NoWorkerAssumption == NoWorker \notin Workers
ASSUME LastStopAssumption == LastStop \in Nat /\ LastStop >= 2
ASSUME LockTTLAssumption == LockTTL \in Nat \ {0}
ASSUME MaxTimeAssumption == MaxTime \in Nat \ {0}
ASSUME DeadlinesAssumption == Deadlines \subseteq 1..(MaxTime + 1)

VARIABLES now,        \* the database clock
          salesOpen,  \* trip.status is PLANNED or READY
          tripRow,    \* the worker holding the trip row FOR UPDATE
          lock,       \* bookings_seat_lock, by idempotency key
          booking,    \* bookings_booking, by client_request_id
          resv,       \* status of the seat reservation of a booking on a seat
          paid,       \* bookings with a CONFIRMED payment record
          ticketed,   \* bookings with an active ticket
          tx          \* what each worker's transaction is doing

vars == <<now, salesOpen, tripRow, lock, booking, resv, paid, ticketed, tx>>

-----------------------------------------------------------------------------
(* Rows *)

Times == 0..MaxTime
Never == MaxTime + 1            \* a NULL expires_at: later than every time

(* A reservation runs from a pickup to a later drop-off stop. *)
Segments == {g \in [pickup : 1..LastStop, dropoff : 1..LastStop] :
               g.pickup < g.dropoff}
(* Mutant: only trips boarded at the same stop clash. *)
OverlapAtPickup(g, h) == g.pickup = h.pickup
Overlap(g, h) == g.pickup < h.dropoff /\ g.dropoff > h.pickup

(* Both apps derive the idempotency key of a lock from trip, seat and user *)
(* and so does the server when none is given: the key names seat and user. *)
LockKeys == Seats \X Selectors
LockStatus == {"none", "held", "released", "expired", "consumed"}
LockRow == [status : LockStatus, expires : 0..(MaxTime + LockTTL)]
NoLock == [status |-> "none", expires |-> 0]

BookingStatus == {"none", "reserved", "confirmed", "cancelled", "expired"}
NoBooking == [status |-> "none"]
BookingRow == [status : BookingStatus \ {"none"}, segment : Segments,
               expires : Deadlines]

ResvStatus == {"none", "reserved", "confirmed", "released", "expired"}
Live == {"reserved", "confirmed"}

Idle == [op |-> "idle"]
AcquireTx == [op : {"acquire"}, seat : Seats, user : Selectors, at : Times]
LockTx == [op : {"release", "extend"}, key : LockKeys,
           seen : 0..(MaxTime + LockTTL)]
BookTx == [op : {"book", "reserve"}, request : Requests, user : Users,
           seats : (SUBSET Seats) \ {{}}, segment : Segments, expires : Deadlines,
           at : Times]
IssueTx == [op : {"issue"}, request : Requests]

TypeOK ==
  /\ now \in Times
  /\ salesOpen \in BOOLEAN
  /\ tripRow \in Workers \cup {NoWorker}
  /\ lock \in [LockKeys -> LockRow]
  /\ booking \in [Requests -> BookingRow \cup {NoBooking}]
  /\ resv \in [Requests -> [Seats -> ResvStatus]]
  /\ paid \subseteq Requests
  /\ ticketed \subseteq Requests
  /\ tx \in [Workers -> AcquireTx \cup LockTx \cup BookTx \cup IssueTx \cup {Idle}]

Init ==
  /\ now = 0
  /\ salesOpen = TRUE
  /\ tripRow = NoWorker
  /\ lock = [k \in LockKeys |-> NoLock]
  /\ booking = [r \in Requests |-> NoBooking]
  /\ resv = [r \in Requests |-> [s \in Seats |-> "none"]]
  /\ paid = {}
  /\ ticketed = {}
  /\ tx = [w \in Workers |-> Idle]

-----------------------------------------------------------------------------
(* Queries *)

(* _seat_is_committed with no segment: reserved on any part of the trip. *)
SeatCommitted(s) == \E r \in Requests : resv[r][s] \in Live

(* Mutant: the sweep forgets the TTL. *)
SweptAll(t) ==
  [k \in LockKeys |-> IF lock[k].status = "held"
                      THEN [lock[k] EXCEPT !.status = "expired"] ELSE lock[k]]

(* The lock table after sweep_expired_seat_locks at time t. *)
Swept(t) ==
  [k \in LockKeys |->
     IF lock[k].status = "held" /\ lock[k].expires <= t
     THEN [lock[k] EXCEPT !.status = "expired"] ELSE lock[k]]

Holders(table, s) == {u \in Selectors : table[<<s, u>>].status = "held"}

(* The reservation conflict query of create_booking. *)
SegmentTaken(s, g) ==
  \E r \in Requests : resv[r][s] \in Live /\ Overlap(booking[r].segment, g)

Become(w, t) == tx' = [tx EXCEPT ![w] = t]

-----------------------------------------------------------------------------
(* acquire_seat_lock *)

(* The view finds the trip open for sale and the service reads that no     *)
(* reservation holds the seat.  Nothing is locked.                         *)
SelectSeat(w, u, s) ==
  /\ tx[w] = Idle
  /\ salesOpen
  /\ ~SeatCommitted(s)
  /\ Become(w, [op |-> "acquire", seat |-> s, user |-> u, at |-> now])
  /\ UNCHANGED <<now, salesOpen, tripRow, lock, booking, resv, paid, ticketed>>

(* The seat is reserved: the answer is seat_booked, and the sweep commits. *)
SelectBookedSeat(s) ==
  /\ salesOpen
  /\ SeatCommitted(s)
  /\ lock' = Swept(now)
  /\ UNCHANGED <<now, salesOpen, tripRow, booking, resv, paid, ticketed, tx>>

(* The seat has a holder, or this key's lock was consumed by a booking:    *)
(* the holder's lock or a conflict code is returned and the sweep commits. *)
AcquireAnswered(w) ==
  LET t == tx[w]
      table == Swept(t.at)
  IN /\ t.op = "acquire"
     /\ \/ table[<<t.seat, t.user>>].status = "consumed"
        \/ Holders(table, t.seat) # {}
     /\ lock' = table
     /\ Become(w, Idle)
     /\ UNCHANGED <<now, salesOpen, tripRow, booking, resv, paid, ticketed>>

(* Mutant: the conflict query and the unique index are gone. *)
AcquireUnchecked(w) ==
  LET k == <<tx[w].seat, tx[w].user>>
  IN /\ tx[w].op = "acquire"
     /\ lock[k].status = "none"
     /\ lock' = [lock EXCEPT ![k] = [status |-> "held",
                                     expires |-> now + LockTTL]]
     /\ Become(w, Idle)
     /\ UNCHANGED <<now, salesOpen, tripRow, booking, resv, paid, ticketed>>

(* A new row is inserted; the partial unique index admits one HELD lock,   *)
(* and the check of its foreign key waits for a trip row locked FOR UPDATE. *)
AcquireInserted(w) ==
  LET t == tx[w]
      table == Swept(t.at)
      k == <<t.seat, t.user>>
  IN /\ t.op = "acquire"
     /\ tripRow = NoWorker
     /\ table[k].status = "none"
     /\ Holders(table, t.seat) = {}
     /\ lock' = [table EXCEPT ![k] = [status |-> "held",
                                      expires |-> now + LockTTL]]
     /\ Become(w, Idle)
     /\ UNCHANGED <<now, salesOpen, tripRow, booking, resv, paid, ticketed>>

(* The key's row exists and has ended: full_clean finds the unique         *)
(* idempotency_key in use and raises, and the transaction rolls back.      *)
AcquireKeyReused(w) ==
  LET t == tx[w]
      table == Swept(t.at)
  IN /\ t.op = "acquire"
     /\ table[<<t.seat, t.user>>].status \in {"released", "expired"}
     /\ Holders(table, t.seat) = {}
     /\ Become(w, Idle)
     /\ UNCHANGED <<now, salesOpen, tripRow, lock, booking, resv, paid,
                    ticketed>>

-----------------------------------------------------------------------------
(* release_seat_lock and extend_seat_lock work on the row the view read;   *)
(* neither locks it nor reads it again before the write.                   *)

ReadLock(w, k, op) ==
  /\ tx[w] = Idle
  /\ lock[k].status = "held"
  /\ Become(w, [op |-> op, key |-> k, seen |-> lock[k].expires])
  /\ UNCHANGED <<now, salesOpen, tripRow, lock, booking, resv, paid, ticketed>>

ReleaseLock(w) ==
  /\ tx[w].op = "release"
  /\ lock' = [lock EXCEPT ![tx[w].key].status = "released"]
  /\ Become(w, Idle)
  /\ UNCHANGED <<now, salesOpen, tripRow, booking, resv, paid, ticketed>>

(* Mutant: the whole row read by the view is saved back. *)
ExtendSavesRow(w) ==
  /\ tx[w].op = "extend"
  /\ lock' = [lock EXCEPT ![tx[w].key] =
                [status |-> IF tx[w].seen <= now THEN "expired" ELSE "held",
                 expires |-> now + LockTTL]]
  /\ Become(w, Idle)
  /\ UNCHANGED <<now, salesOpen, tripRow, booking, resv, paid, ticketed>>

(* Mutant: the TTL is added to the old deadline, not to the clock. *)
ExtendAddsUp(w) ==
  /\ tx[w].op = "extend"
  /\ lock' = [lock EXCEPT ![tx[w].key].expires = tx[w].seen + LockTTL]
  /\ Become(w, Idle)
  /\ UNCHANGED <<now, salesOpen, tripRow, booking, resv, paid, ticketed>>

(* Past its TTL the lock is expired; otherwise only expires_at is written. *)
ExtendLock(w) ==
  /\ tx[w].op = "extend"
  /\ lock' = [lock EXCEPT ![tx[w].key] =
                IF tx[w].seen <= now
                THEN [@ EXCEPT !.status = "expired"]
                ELSE [@ EXCEPT !.expires = now + LockTTL]]
  /\ Become(w, Idle)
  /\ UNCHANGED <<now, salesOpen, tripRow, booking, resv, paid, ticketed>>

(* The management command, and every read of the seat map. *)
SweepLocks ==
  /\ Swept(now) # lock
  /\ lock' = Swept(now)
  /\ UNCHANGED <<now, salesOpen, tripRow, booking, resv, paid, ticketed, tx>>

-----------------------------------------------------------------------------
(* create_booking *)

(* No booking has this client_request_id yet (else it is returned as it    *)
(* is, with no change); the transaction goes on to lock the trip.          *)
BookingStart(w, r, u, S, g, e) ==
  /\ tx[w] = Idle
  /\ booking[r] = NoBooking
  /\ S # {}
  /\ Become(w, [op |-> "book", request |-> r, user |-> u, seats |-> S,
                segment |-> g, expires |-> e, at |-> 0])
  /\ UNCHANGED <<now, salesOpen, tripRow, lock, booking, resv, paid, ticketed>>

(* The checks made once the trip row is locked: the trip is on sale, the   *)
(* request id is still unused, nobody else holds a seat after the sweep,   *)
(* and no live reservation overlaps the segment.                           *)
Bookable(t) ==
  /\ salesOpen
  /\ booking[t.request] = NoBooking
  /\ \A s \in t.seats : /\ Holders(Swept(now), s) \subseteq {t.user}
                        /\ ~SegmentTaken(s, t.segment)

(* Mutant: the trip is read without FOR UPDATE. *)
BookingCheckUnlocked(w) ==
  /\ tx[w].op = "book"
  /\ Bookable(tx[w])
  /\ Become(w, [tx[w] EXCEPT !.op = "reserve", !.at = now])
  /\ UNCHANGED <<now, salesOpen, tripRow, lock, booking, resv, paid, ticketed>>

BookingCheck(w) ==
  /\ tx[w].op = "book"
  /\ tripRow = NoWorker
  /\ Bookable(tx[w])
  /\ tripRow' = w
  /\ Become(w, [tx[w] EXCEPT !.op = "reserve", !.at = now])
  /\ UNCHANGED <<now, salesOpen, lock, booking, resv, paid, ticketed>>

(* Mutant: a request that is refused waits for the seat to become free. *)
BookingWaits(w) ==
  /\ tx[w].op = "book"
  /\ tripRow = NoWorker
  /\ ~Bookable(tx[w])
  /\ UNCHANGED vars

(* A check fails: ValidationError rolls everything back, the sweep too. *)
BookingReject(w) ==
  /\ tx[w].op = "book"
  /\ tripRow = NoWorker
  /\ ~Bookable(tx[w])
  /\ Become(w, Idle)
  /\ UNCHANGED <<now, salesOpen, tripRow, lock, booking, resv, paid, ticketed>>

(* The reservations are inserted, the actor's own HELD locks on the seats  *)
(* are consumed, and the commit frees the trip row.                        *)
BookingCommit(w) ==
  LET t == tx[w]
      table == Swept(t.at)
  IN /\ t.op = "reserve"
     /\ booking' = [booking EXCEPT ![t.request] =
                      [status |-> "reserved", segment |-> t.segment,
                       expires |-> t.expires]]
     /\ resv' = [resv EXCEPT ![t.request] =
                   [s \in Seats |-> IF s \in t.seats THEN "reserved"
                                                     ELSE "none"]]
     /\ lock' = [k \in LockKeys |->
                   IF /\ k[1] \in t.seats
                      /\ k[2] = t.user
                      /\ table[k].status = "held"
                   THEN [table[k] EXCEPT !.status = "consumed"]
                   ELSE table[k]]
     /\ tripRow' = NoWorker
     /\ Become(w, Idle)
     /\ UNCHANGED <<now, salesOpen, paid, ticketed>>

(* The worker or its connection dies, or an insert of acquire_seat_lock     *)
(* loses the race for the unique index: the transaction rolls back.        *)
Crash(w) ==
  /\ tx[w] # Idle
  /\ Become(w, Idle)
  /\ tripRow' = IF tripRow = w THEN NoWorker ELSE tripRow
  /\ UNCHANGED <<now, salesOpen, lock, booking, resv, paid, ticketed>>

-----------------------------------------------------------------------------
(* issue_ticket on its own request: it locks the passenger's row, not the  *)
(* booking, whose status and payment it reads before the insert.           *)

IssueRead(w, r) ==
  /\ tx[w] = Idle
  /\ booking[r].status = "confirmed"
  /\ r \in paid \ ticketed
  /\ Become(w, [op |-> "issue", request |-> r])
  /\ UNCHANGED <<now, salesOpen, tripRow, lock, booking, resv, paid, ticketed>>

IssueCommit(w) ==
  /\ tx[w].op = "issue"
  /\ ticketed' = ticketed \cup {tx[w].request}
  /\ Become(w, Idle)
  /\ UNCHANGED <<now, salesOpen, tripRow, lock, booking, resv, paid>>

-----------------------------------------------------------------------------
(* The other transactions on a booking each lock its row first, so each is *)
(* one step.                                                               *)

(* The reservations of r that are in from go to status to. *)
MoveSeats(r, from, to) ==
  resv' = [resv EXCEPT ![r] = [s \in Seats |-> IF resv[r][s] \in from
                                               THEN to ELSE resv[r][s]]]

MoveBooking(r, to) == booking' = [booking EXCEPT ![r].status = to]

(* decide_payment approves the payment, confirms the booking and issues    *)
(* its tickets in one transaction.                                         *)
ConfirmBooking(r) ==
  /\ booking[r].status = "reserved"
  /\ booking[r].expires > now
  /\ MoveBooking(r, "confirmed")
  /\ MoveSeats(r, {"reserved"}, "confirmed")
  /\ paid' = paid \cup {r}
  /\ ticketed' = ticketed \cup {r}
  /\ UNCHANGED <<now, salesOpen, tripRow, lock, tx>>

(* complete_refund cancels the tickets, and the payment is REFUNDED when   *)
(* all of it went back; the booking is left as it is.                      *)
RefundTickets(r) ==
  /\ r \in ticketed
  /\ ticketed' = ticketed \ {r}
  /\ paid' \in {paid, paid \ {r}}
  /\ UNCHANGED <<now, salesOpen, tripRow, lock, booking, resv, tx>>

(* Mutant: only the unconfirmed reservations are released. *)
CancelKeepsConfirmed(r) ==
  /\ booking[r].status \in {"reserved", "confirmed"}
  /\ r \notin ticketed
  /\ MoveBooking(r, "cancelled")
  /\ MoveSeats(r, {"reserved"}, "released")
  /\ UNCHANGED <<now, salesOpen, tripRow, lock, paid, ticketed, tx>>

CancelBooking(r) ==
  /\ booking[r].status \in {"reserved", "confirmed"}
  /\ r \notin ticketed
  /\ MoveBooking(r, "cancelled")
  /\ MoveSeats(r, Live, "released")
  /\ UNCHANGED <<now, salesOpen, tripRow, lock, paid, ticketed, tx>>

(* Mutant: only trips still on sale are looked at. *)
ExpireWhileOpen(r) ==
  /\ salesOpen
  /\ booking[r].status = "reserved"
  /\ booking[r].expires <= now
  /\ MoveBooking(r, "expired")
  /\ MoveSeats(r, {"reserved"}, "expired")
  /\ UNCHANGED <<now, salesOpen, tripRow, lock, paid, ticketed, tx>>

(* process_booking_expiries calls expire_booking for each overdue row. *)
ExpireBooking(r) ==
  /\ booking[r].status = "reserved"
  /\ booking[r].expires <= now
  /\ r \notin paid
  /\ MoveBooking(r, "expired")
  /\ MoveSeats(r, {"reserved"}, "expired")
  /\ UNCHANGED <<now, salesOpen, tripRow, lock, paid, ticketed, tx>>

(* Mutant: the trip is closed without waiting for its row. *)
CloseSalesUnlocked ==
  /\ salesOpen
  /\ salesOpen' = FALSE
  /\ UNCHANGED <<now, tripRow, lock, booking, resv, paid, ticketed, tx>>

(* transition_trip to BOARDING, which locks the trip row. *)
CloseSales ==
  /\ salesOpen
  /\ tripRow = NoWorker
  /\ salesOpen' = FALSE
  /\ UNCHANGED <<now, tripRow, lock, booking, resv, paid, ticketed, tx>>

(* TripDetailView saves every column of a trip row it read without a lock: *)
(* a read from before the boarding puts PLANNED or READY back.             *)
ReopenSales ==
  /\ ~salesOpen
  /\ tripRow = NoWorker
  /\ salesOpen' = TRUE
  /\ UNCHANGED <<now, tripRow, lock, booking, resv, paid, ticketed, tx>>

Tick ==
  /\ now < MaxTime
  /\ now' = now + 1
  /\ UNCHANGED <<salesOpen, tripRow, lock, booking, resv, paid, ticketed, tx>>

-----------------------------------------------------------------------------
StartStep(w) ==
  \/ \E u \in Selectors, s \in Seats : SelectSeat(w, u, s)
  \/ \E k \in LockKeys, op \in {"release", "extend"} : ReadLock(w, k, op)
  \/ \E r \in Requests, u \in Users, S \in SUBSET Seats, g \in Segments,
        e \in Deadlines : BookingStart(w, r, u, S, g, e)
  \/ \E r \in Requests : IssueRead(w, r)

AcquireStep(w) == AcquireAnswered(w) \/ AcquireInserted(w)
                    \/ AcquireKeyReused(w)
LockRowStep(w) == ReleaseLock(w) \/ ExtendLock(w)
BookingStep(w) == BookingCheck(w) \/ BookingReject(w) \/ BookingCommit(w)

(* A transaction under way goes on to its end. *)
FinishStep(w) == AcquireStep(w) \/ LockRowStep(w) \/ BookingStep(w)
                   \/ IssueCommit(w)

BookingRowStep(r) == ConfirmBooking(r) \/ RefundTickets(r)
                       \/ CancelBooking(r) \/ ExpireBooking(r)

Next ==
  \/ \E w \in Workers : StartStep(w) \/ FinishStep(w) \/ Crash(w)
  \/ \E r \in Requests : BookingRowStep(r)
  \/ \E s \in Seats : SelectBookedSeat(s)
  \/ SweepLocks
  \/ CloseSales
  \/ ReopenSales
  \/ Tick

Spec == Init /\ [][Next]_vars

(* Time passes; a running transaction ends, and gets its turn on the trip  *)
(* row, whose waiters PostgreSQL queues; and the worker container of       *)
(* devops/compose.production.yml runs process_booking_expiries for ever.   *)
(* Nothing schedules sweep_expired_seat_locks, and no user has to act.     *)
Fairness ==
  /\ WF_vars(Tick)
  /\ \A w \in Workers : SF_vars(FinishStep(w))
  /\ \A r \in Requests : WF_vars(ExpireBooking(r))

FairSpec == Spec /\ Fairness

-----------------------------------------------------------------------------
(* Properties *)

(* "Reserved Seats MUST NOT be double-booked": two bookings that are live  *)
(* on one seat travel disjoint segments.  No database constraint says so;  *)
(* it rests on create_booking holding the trip row from its conflict query *)
(* to its commit.                                                          *)
NoDoubleBooking ==
  \A q, r \in Requests : \A s \in Seats :
    (q # r /\ resv[q][s] \in Live /\ resv[r][s] \in Live) =>
      ~Overlap(booking[q].segment, booking[r].segment)

(* At most one user holds a seat of the trip, whatever acquire, extend,    *)
(* release and the sweep wrote in between.                                 *)
OneHolderPerSeat == \A s \in Seats : Cardinality(Holders(lock, s)) <= 1

(* "Cancelled Bookings MUST release reserved seats": a booking and all its *)
(* reservations move together, so no seat stays taken by a dead booking    *)
(* and no live booking lost a seat.                                        *)
SeatStatusFor == [none |-> "none", reserved |-> "reserved",
                  confirmed |-> "confirmed", cancelled |-> "released",
                  expired |-> "expired"]
SeatsFollowBooking ==
  \A r \in Requests :
    /\ \A s \in Seats :
         resv[r][s] \in {"none", SeatStatusFor[booking[r].status]}
    /\ booking[r] # NoBooking => \E s \in Seats : resv[r][s] # "none"

(* While the trip's status is past READY no booking appears, not even one  *)
(* whose checks were under way when the sales closed.                      *)
NoSaleAfterClose ==
  [][~salesOpen => \A r \in Requests : booking[r] = NoBooking
                                         => booking'[r] = NoBooking]_vars

(* A hold that ended never comes back: a late extend or release, writing   *)
(* from the row its view read, cannot make the lock HELD again.            *)
EndedHoldStaysEnded ==
  [][\A k \in LockKeys : lock[k].status \in {"released", "expired", "consumed"}
                           => lock'[k].status # "held"]_vars

(* A hold lapses no earlier than its TTL: what takes a HELD lock away      *)
(* before expires_at is a release, a booking by the user who holds it, or  *)
(* an extend that another extend overtook and that judges the lock by the  *)
(* deadline its view read.                                                 *)
HoldLastsItsTTL ==
  [][\A k \in LockKeys :
       (lock[k].status = "held" /\ lock[k].expires > now)
         => \/ lock'[k].status \in {"held", "released"}
            \/ /\ lock'[k].status = "consumed"
               /\ \E w \in Workers : /\ tx[w].op = "reserve"
                                     /\ tx[w].user = k[2]
                                     /\ k[1] \in tx[w].seats
            \/ /\ lock'[k].status = "expired"
               /\ \E w \in Workers : /\ tx[w].op = "extend"
                                     /\ tx[w].key = k
                                     /\ tx[w].seen <= now]_vars

(* A booking with a deadline does not stay reserved: it is paid, cancelled *)
(* or expired by the worker container's loop.                              *)
DeadlineIsEnforced ==
  \A r \in Requests :
    (booking[r].status = "reserved" /\ booking[r].expires # Never)
      ~> booking[r].status # "reserved"

(* Every transaction ends, so the trip row is never locked for good.       *)
TransactionsEnd == \A w \in Workers : tx[w] # Idle ~> tx[w] = Idle

-----------------------------------------------------------------------------
(* SeatBooking implements SeatInventory: the cells a booking owns are the  *)
(* legs of its segment on each seat where its reservation is live.         *)
Legs == 1..(LastStop - 1)
LegsOf(g) == g.pickup..(g.dropoff - 1)

Sold == {x \in Requests \X Seats \X Legs :
           resv[x[1]][x[2]] \in Live /\ x[3] \in LegsOf(booking[x[1]].segment)}

Inventory == INSTANCE SeatInventory WITH Owners <- Requests, sold <- Sold

ImplementsInventory == Inventory!Spec
==============================================================================
