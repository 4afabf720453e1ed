-------------------------- MODULE SeatBookingProofs --------------------------
(***************************************************************************)
(* Theorems of SeatBooking for every number of users, seats, stops and     *)
(* workers: types, no double booking and no sale after boarding began, the *)
(* refinement of SeatInventory, and how a hold of a seat may end.          *)
(***************************************************************************)
EXTENDS SeatBooking, FiniteSetTheorems, TLAPS

USE SelectorsAssumption, NoWorkerAssumption, LastStopAssumption,
    LockTTLAssumption, MaxTimeAssumption, DeadlinesAssumption

-----------------------------------------------------------------------------
(* The sweep and a move of reservations keep the tables well typed. *)
LEMMA SweptType ==
  ASSUME TypeOK, NEW t \in Times
  PROVE  Swept(t) \in [LockKeys -> LockRow]
<1>1. ASSUME NEW k \in LockKeys
      PROVE  (IF lock[k].status = "held" /\ lock[k].expires <= t
              THEN [lock[k] EXCEPT !.status = "expired"] ELSE lock[k]) \in LockRow
  BY DEF TypeOK, LockRow, LockStatus
<1>2. QED
  BY <1>1 DEF Swept

(* What a worker's transaction is, told by its operation. *)
LEMMA TxByOp ==
  ASSUME TypeOK, NEW w \in Workers
  PROVE  /\ tx[w].op = "acquire" => tx[w] \in AcquireTx
         /\ tx[w].op \in {"release", "extend"} => tx[w] \in LockTx
         /\ tx[w].op \in {"book", "reserve"} => tx[w] \in BookTx
  BY DEF TypeOK, AcquireTx, LockTx, BookTx, IssueTx, Idle

LEMMA BookingByStatus ==
  ASSUME TypeOK, NEW r \in Requests
  PROVE  /\ booking[r].status # "none" => booking[r] \in BookingRow
         /\ booking[r] # NoBooking => booking[r].status # "none"
  BY DEF TypeOK, BookingRow, NoBooking, BookingStatus

LEMMA MoveTypes ==
  ASSUME TypeOK, NEW r \in Requests, NEW from, NEW to \in ResvStatus,
         MoveSeats(r, from, to)
  PROVE  resv' \in [Requests -> [Seats -> ResvStatus]]
  BY DEF TypeOK, MoveSeats

LEMMA MoveBookingType ==
  ASSUME TypeOK, NEW r \in Requests, NEW to \in BookingStatus \ {"none"},
         booking[r].status # "none", MoveBooking(r, to)
  PROVE  booking' \in [Requests -> BookingRow \cup {NoBooking}]
<1>1. [booking[r] EXCEPT !.status = to] \in BookingRow
  BY BookingByStatus DEF BookingRow, BookingStatus
<1>2. QED
  BY <1>1 DEF TypeOK, MoveBooking

LEMMA BecomeType ==
  ASSUME TypeOK, NEW w \in Workers,
         NEW t \in AcquireTx \cup LockTx \cup BookTx \cup IssueTx \cup {Idle}, Become(w, t)
  PROVE  tx' \in [Workers -> AcquireTx \cup LockTx \cup BookTx \cup IssueTx \cup {Idle}]
  BY DEF TypeOK, Become

LEMMA TypeStep ==
  ASSUME TypeOK, [Next]_vars
  PROVE  TypeOK'
<1>1. ASSUME NEW w \in Workers, StartStep(w) PROVE TypeOK'
  <2>1. ASSUME NEW u \in Selectors, NEW s \in Seats, SelectSeat(w, u, s)
        PROVE TypeOK'
    <3>1. [op |-> "acquire", seat |-> s, user |-> u, at |-> now] \in AcquireTx
      BY DEF TypeOK, AcquireTx
    <3>2. QED
      BY <2>1, <3>1, BecomeType DEF SelectSeat, TypeOK
  <2>2. ASSUME NEW k \in LockKeys, NEW op \in {"release", "extend"},
               ReadLock(w, k, op)
        PROVE TypeOK'
    <3>1. [op |-> op, key |-> k, seen |-> lock[k].expires] \in LockTx
      BY DEF TypeOK, LockTx, LockRow
    <3>2. QED
      BY <2>2, <3>1, BecomeType DEF ReadLock, TypeOK
  <2>3. ASSUME NEW r \in Requests, NEW u \in Users, NEW S \in SUBSET Seats,
               NEW g \in Segments, NEW e \in Deadlines,
               BookingStart(w, r, u, S, g, e)
        PROVE TypeOK'
    <3>1. S \in (SUBSET Seats) \ {{}} /\ 0 \in Times
      BY <2>3 DEF BookingStart, Times
    <3>2. [op |-> "book", request |-> r, user |-> u, seats |-> S,
           segment |-> g, expires |-> e, at |-> 0] \in BookTx
      BY <3>1 DEF BookTx
    <3>3. QED
      BY <2>3, <3>2, BecomeType DEF BookingStart, TypeOK
  <2>4. ASSUME NEW r \in Requests, IssueRead(w, r) PROVE TypeOK'
    <3>1. [op |-> "issue", request |-> r] \in IssueTx
      BY DEF IssueTx
    <3>2. QED
      BY <2>4, <3>1, BecomeType DEF IssueRead, TypeOK
  <2>5. QED
    BY <1>1, <2>1, <2>2, <2>3, <2>4 DEF StartStep
<1>2. ASSUME NEW w \in Workers, AcquireStep(w) PROVE TypeOK'
  <2>1. Idle \in AcquireTx \cup LockTx \cup BookTx \cup IssueTx \cup {Idle}
    OBVIOUS
  <2>2. tx[w] \in AcquireTx
    BY <1>2, TxByOp DEF AcquireStep, AcquireAnswered, AcquireInserted,
                        AcquireKeyReused
  <2>3. /\ tx[w].at \in Times
        /\ <<tx[w].seat, tx[w].user>> \in LockKeys
        /\ Swept(tx[w].at) \in [LockKeys -> LockRow]
    BY <2>2, SweptType DEF AcquireTx, LockKeys
  <2>4. CASE AcquireAnswered(w)
    BY <2>1, <2>3, <2>4, BecomeType DEF AcquireAnswered, TypeOK
  <2>5. CASE AcquireInserted(w)
    <3>1. [status |-> "held", expires |-> now + LockTTL] \in LockRow
      BY DEF LockRow, LockStatus, TypeOK, Times
    <3>2. QED
      BY <2>1, <2>3, <2>5, <3>1, BecomeType DEF AcquireInserted, TypeOK
  <2>6. CASE AcquireKeyReused(w)
    BY <2>1, <2>6, BecomeType DEF AcquireKeyReused, TypeOK
  <2>7. QED
    BY <1>2, <2>4, <2>5, <2>6 DEF AcquireStep
<1>3. ASSUME NEW w \in Workers, LockRowStep(w) PROVE TypeOK'
  <2>1. Idle \in AcquireTx \cup LockTx \cup BookTx \cup IssueTx \cup {Idle}
    OBVIOUS
  <2>2. tx[w].key \in LockKeys /\ lock[tx[w].key] \in LockRow
    BY <1>3, TxByOp DEF LockRowStep, ReleaseLock, ExtendLock, LockTx, TypeOK
  <2>3. CASE ReleaseLock(w)
    <3>1. [lock[tx[w].key] EXCEPT !.status = "released"] \in LockRow
      BY <2>2 DEF LockRow, LockStatus
    <3>2. QED
      BY <2>1, <2>2, <2>3, <3>1, BecomeType DEF ReleaseLock, TypeOK
  <2>4. CASE ExtendLock(w)
    <3>1. [lock[tx[w].key] EXCEPT !.status = "expired"] \in LockRow
      BY <2>2 DEF LockRow, LockStatus
    <3>2. [lock[tx[w].key] EXCEPT !.expires = now + LockTTL] \in LockRow
      BY <2>2 DEF LockRow, TypeOK, Times
    <3>3. QED
      BY <2>1, <2>2, <2>4, <3>1, <3>2, BecomeType DEF ExtendLock, TypeOK
  <2>5. QED
    BY <1>3, <2>3, <2>4 DEF LockRowStep
<1>4. ASSUME NEW w \in Workers, BookingStep(w) PROVE TypeOK'
  <2>1. tx[w] \in BookTx
    BY <1>4, TxByOp DEF BookingStep, BookingCheck, BookingReject, BookingCommit
  <2>2. CASE BookingCheck(w)
    <3>1. [tx[w] EXCEPT !.op = "reserve", !.at = now] \in BookTx
      BY <2>1 DEF BookTx, TypeOK
    <3>2. QED
      BY <2>2, <3>1, BecomeType DEF BookingCheck, TypeOK
  <2>3. CASE BookingReject(w)
    BY <2>3, BecomeType DEF BookingReject, TypeOK
  <2>4. CASE BookingCommit(w)
    <3> DEFINE t == tx[w]
    <3>1. /\ t.request \in Requests /\ t.segment \in Segments
          /\ t.expires \in Deadlines /\ t.at \in Times
      BY <2>1 DEF BookTx
    <3>2. [status |-> "reserved", segment |-> t.segment,
           expires |-> t.expires] \in BookingRow
      BY <3>1 DEF BookingRow, BookingStatus
    <3>3. booking' \in [Requests -> BookingRow \cup {NoBooking}]
      BY <2>4, <3>1, <3>2 DEF BookingCommit, TypeOK
    <3>4. resv' \in [Requests -> [Seats -> ResvStatus]]
      BY <2>4, <3>1 DEF BookingCommit, TypeOK, ResvStatus
    <3>5. ASSUME NEW k \in LockKeys
          PROVE  (IF k[1] \in t.seats /\ k[2] = t.user
                       /\ Swept(t.at)[k].status = "held"
                  THEN [Swept(t.at)[k] EXCEPT !.status = "consumed"]
                  ELSE Swept(t.at)[k]) \in LockRow
      BY <3>1, SweptType DEF LockRow, LockStatus
    <3>6. lock' \in [LockKeys -> LockRow]
      BY <2>4, <3>5 DEF BookingCommit
    <3>7. QED
      BY <2>4, <3>3, <3>4, <3>6, BecomeType DEF BookingCommit, TypeOK
  <2>5. QED
    BY <1>4, <2>2, <2>3, <2>4 DEF BookingStep
<1>5. ASSUME NEW w \in Workers, Crash(w) \/ IssueCommit(w) PROVE TypeOK'
  <2>1. CASE Crash(w)
    BY <2>1, BecomeType DEF Crash, TypeOK
  <2>2. CASE IssueCommit(w)
    <3>1. tx[w].request \in Requests
      BY <2>2 DEF IssueCommit, TypeOK, IssueTx, AcquireTx, LockTx, BookTx, Idle
    <3>2. QED
      BY <2>2, <3>1, BecomeType DEF IssueCommit, TypeOK
  <2>3. QED
    BY <1>5, <2>1, <2>2
<1>6. ASSUME NEW r \in Requests, BookingRowStep(r) PROVE TypeOK'
  <2>1. CASE ConfirmBooking(r)
    BY <2>1, MoveTypes, MoveBookingType
    DEF ConfirmBooking, TypeOK, ResvStatus, BookingStatus
  <2>2. CASE RefundTickets(r)
    BY <2>2 DEF RefundTickets, TypeOK
  <2>3. CASE CancelBooking(r)
    BY <2>3, MoveTypes, MoveBookingType
    DEF CancelBooking, TypeOK, ResvStatus, BookingStatus
  <2>4. CASE ExpireBooking(r)
    BY <2>4, MoveTypes, MoveBookingType
    DEF ExpireBooking, TypeOK, ResvStatus, BookingStatus
  <2>5. QED
    BY <1>6, <2>1, <2>2, <2>3, <2>4 DEF BookingRowStep
<1>7. ASSUME NEW s \in Seats, SelectBookedSeat(s) PROVE TypeOK'
  BY <1>7, SweptType DEF SelectBookedSeat, TypeOK
<1>8. CASE SweepLocks
  BY <1>8, SweptType DEF SweepLocks, TypeOK
<1>9. CASE CloseSales \/ ReopenSales
  BY <1>9 DEF CloseSales, ReopenSales, TypeOK
<1>10. CASE Tick
  BY <1>10 DEF Tick, TypeOK, Times
<1>11. CASE UNCHANGED vars
  BY <1>11 DEF vars, TypeOK
<1>12. QED
  BY <1>1, <1>2, <1>3, <1>4, <1>5, <1>6, <1>7, <1>8, <1>9, <1>10, <1>11
  DEF Next, FinishStep

(* Type correctness of the tables and of every running transaction. *)
THEOREM TypeCorrect == Spec => []TypeOK
<1>1. Init => TypeOK
  BY DEF Init, TypeOK, Times, NoLock, LockRow, LockStatus, ResvStatus
<1>2. TypeOK /\ [Next]_vars => TypeOK'
  BY TypeStep
<1>3. QED
  BY <1>1, <1>2, PTL DEF Spec

-----------------------------------------------------------------------------
(* The inductive invariant.  Between its check and its commit a booking    *)
(* transaction holds the trip row (RowHeld), so no other booking transaction *)
(* is there, and what it checked still stands (CheckStands); a request     *)
(* without a booking row has no reservation (RowBeforeSeats).              *)
RowHeld == \A w \in Workers : tx[w].op = "reserve" => tripRow = w

CheckStands ==
  \A w \in Workers : tx[w].op = "reserve" =>
    /\ booking[tx[w].request] = NoBooking
    /\ \A s \in tx[w].seats : ~SegmentTaken(s, tx[w].segment)

RowBeforeSeats ==
  \A r \in Requests : booking[r] = NoBooking =>
    \A s \in Seats : resv[r][s] = "none"

SafeInv == TypeOK /\ RowHeld /\ CheckStands /\ RowBeforeSeats /\ NoDoubleBooking

(* Two segments overlap, as the queries compare their ends, exactly when   *)
(* they have a leg in common.                                              *)
LEMMA OverlapIsCommonLeg ==
  ASSUME NEW g \in Segments, NEW h \in Segments
  PROVE  Overlap(g, h) <=> \E l \in Legs : l \in LegsOf(g) /\ l \in LegsOf(h)
<1>1. /\ g.pickup \in 1..LastStop /\ g.dropoff \in 1..LastStop
      /\ g.pickup < g.dropoff
      /\ h.pickup \in 1..LastStop /\ h.dropoff \in 1..LastStop
      /\ h.pickup < h.dropoff
  BY DEF Segments
<1>2. ASSUME NEW l \in Legs, l \in LegsOf(g), l \in LegsOf(h)
      PROVE  Overlap(g, h)
  BY <1>1, <1>2 DEF Legs, LegsOf, Overlap
<1>3. ASSUME Overlap(g, h)
      PROVE  \E l \in Legs : l \in LegsOf(g) /\ l \in LegsOf(h)
  <2>1. CASE g.pickup <= h.pickup
    <3>1. h.pickup \in Legs /\ h.pickup \in LegsOf(g) /\ h.pickup \in LegsOf(h)
      BY <1>1, <1>3, <2>1 DEF Legs, LegsOf, Overlap
    <3>2. QED
      BY <3>1
  <2>2. CASE h.pickup < g.pickup
    <3>1. g.pickup \in Legs /\ g.pickup \in LegsOf(g) /\ g.pickup \in LegsOf(h)
      BY <1>1, <1>3, <2>2 DEF Legs, LegsOf, Overlap
    <3>2. QED
      BY <3>1
  <2>3. QED
    BY <1>1, <2>1, <2>2
<1>4. QED
  BY <1>2, <1>3

(* A step that leaves bookings, reservations and the trip row alone, and   *)
(* brings no transaction to its commit, preserves the invariant.           *)
LEMMA QuietStep ==
  ASSUME SafeInv, TypeOK', UNCHANGED <<booking, resv, tripRow>>,
         \A w \in Workers : tx'[w].op = "reserve" => tx'[w] = tx[w]
  PROVE  SafeInv'
<1>1. RowHeld'
  BY DEF SafeInv, RowHeld
<1>2. CheckStands'
  BY DEF SafeInv, CheckStands, SegmentTaken
<1>3. RowBeforeSeats' /\ NoDoubleBooking'
  BY DEF SafeInv, RowBeforeSeats, NoDoubleBooking
<1>4. QED
  BY <1>1, <1>2, <1>3 DEF SafeInv

(* A step of a booking row that sells no seat preserves the invariant: it  *)
(* keeps the segments and makes no reservation live.                       *)
LEMMA RowStep ==
  ASSUME SafeInv, TypeOK', UNCHANGED <<tripRow, tx>>,
         NEW r \in Requests, booking[r] # NoBooking,
         booking'[r] # NoBooking, booking'[r].segment = booking[r].segment,
         \A s \in Seats : resv'[r][s] \in Live => resv[r][s] \in Live,
         \A q \in Requests \ {r} : booking'[q] = booking[q] /\ resv'[q] = resv[q]
  PROVE  SafeInv'
<1>1. RowHeld'
  BY DEF SafeInv, RowHeld
<1>2. CheckStands'
  <2> SUFFICES ASSUME NEW w \in Workers, tx[w].op = "reserve"
               PROVE  /\ booking'[tx[w].request] = NoBooking
                      /\ \A s \in tx[w].seats :
                           ~SegmentTaken(s, tx[w].segment)'
    BY DEF CheckStands
  <2>1. /\ tx[w].request \in Requests
        /\ tx[w].seats \subseteq Seats
    BY TxByOp DEF SafeInv, BookTx
  <2>2. booking'[tx[w].request] = NoBooking
    BY <2>1 DEF SafeInv, CheckStands
  <2>3. ASSUME NEW s \in tx[w].seats
        PROVE  ~SegmentTaken(s, tx[w].segment)'
    BY <2>1 DEF SafeInv, CheckStands, SegmentTaken
  <2>4. QED
    BY <2>2, <2>3
<1>3. RowBeforeSeats'
  BY DEF SafeInv, RowBeforeSeats
<1>4. NoDoubleBooking'
  BY DEF SafeInv, NoDoubleBooking
<1>5. QED
  BY <1>1, <1>2, <1>3, <1>4 DEF SafeInv

(* The three transactions on an existing booking are such steps. *)
LEMMA BookingRowStepKeeps ==
  ASSUME TypeOK, NEW r \in Requests, BookingRowStep(r)
  PROVE  /\ UNCHANGED <<tripRow, tx>>
         /\ \A q \in Requests \ {r} : booking'[q] = booking[q] /\ resv'[q] = resv[q]
         /\ \/ UNCHANGED <<booking, resv>>
            \/ /\ booking[r] # NoBooking /\ booking'[r] # NoBooking
               /\ booking'[r].segment = booking[r].segment
               /\ \A s \in Seats : resv'[r][s] \in Live => resv[r][s] \in Live
<1>1. ASSUME booking[r].status # "none", NEW b \in BookingStatus \ {"none"},
             MoveBooking(r, b)
      PROVE  /\ booking[r] # NoBooking /\ booking'[r] # NoBooking
             /\ booking'[r].segment = booking[r].segment
             /\ \A q \in Requests \ {r} : booking'[q] = booking[q]
  <2>1. booking[r] \in BookingRow
    BY <1>1, BookingByStatus
  <2>2. booking'[r] = [booking[r] EXCEPT !.status = b]
    BY <1>1 DEF MoveBooking, TypeOK
  <2>3. booking'[r].status = b /\ booking'[r].segment = booking[r].segment
    BY <2>1, <2>2 DEF BookingRow
  <2>4. QED
    BY <1>1, <2>3 DEF NoBooking, MoveBooking, TypeOK
<1>2. CASE ConfirmBooking(r)
  <2>1. \A s \in Seats : resv'[r][s] \in Live => resv[r][s] \in Live
    BY <1>2 DEF ConfirmBooking, MoveSeats, Live, TypeOK
  <2>2. \A q \in Requests \ {r} : resv'[q] = resv[q]
    BY <1>2 DEF ConfirmBooking, MoveSeats, TypeOK
  <2>3. QED
    BY <1>1, <1>2, <2>1, <2>2 DEF ConfirmBooking, BookingStatus
<1>3. CASE RefundTickets(r)
  BY <1>3 DEF RefundTickets
<1>4. CASE CancelBooking(r)
  <2>1. \A s \in Seats : resv'[r][s] \in Live => resv[r][s] \in Live
    BY <1>4 DEF CancelBooking, MoveSeats, Live, TypeOK
  <2>2. \A q \in Requests \ {r} : resv'[q] = resv[q]
    BY <1>4 DEF CancelBooking, MoveSeats, TypeOK
  <2>3. QED
    BY <1>1, <1>4, <2>1, <2>2 DEF CancelBooking, BookingStatus
<1>5. CASE ExpireBooking(r)
  <2>1. \A s \in Seats : resv'[r][s] \in Live => resv[r][s] \in Live
    BY <1>5 DEF ExpireBooking, MoveSeats, Live, TypeOK
  <2>2. \A q \in Requests \ {r} : resv'[q] = resv[q]
    BY <1>5 DEF ExpireBooking, MoveSeats, TypeOK
  <2>3. QED
    BY <1>1, <1>5, <2>1, <2>2 DEF ExpireBooking, BookingStatus
<1>6. QED
  BY <1>2, <1>3, <1>4, <1>5 DEF BookingRowStep

(* The commit of a booking: it alone is past its check, so its reservations *)
(* clash with nobody's.                                                    *)
LEMMA CommitStep ==
  ASSUME SafeInv, TypeOK', NEW w \in Workers, BookingCommit(w)
  PROVE  SafeInv'
<1> DEFINE t == tx[w]
<1>1. /\ t.op = "reserve" /\ t \in BookTx /\ t.request \in Requests
      /\ t.seats \subseteq Seats /\ t.segment \in Segments
  BY TxByOp DEF BookingCommit, SafeInv, BookTx
<1>2. \A v \in Workers : tx'[v].op # "reserve"
  <2> SUFFICES ASSUME NEW v \in Workers, tx'[v].op = "reserve" PROVE FALSE
    OBVIOUS
  <2>1. v # w /\ tx[v].op = "reserve"
    BY DEF BookingCommit, Become, Idle, SafeInv, TypeOK
  <2>2. tripRow = w /\ tripRow = v
    BY <1>1, <2>1 DEF SafeInv, RowHeld
  <2>3. QED
    BY <2>1, <2>2
<1>3. /\ \A q \in Requests \ {t.request} :
           booking'[q] = booking[q] /\ resv'[q] = resv[q]
      /\ booking'[t.request] =
           [status |-> "reserved", segment |-> t.segment, expires |-> t.expires]
      /\ \A s \in Seats :
           resv'[t.request][s] = IF s \in t.seats THEN "reserved" ELSE "none"
  BY <1>1 DEF BookingCommit, SafeInv, TypeOK
<1>4. RowHeld' /\ CheckStands'
  BY <1>2 DEF RowHeld, CheckStands
<1>5. RowBeforeSeats'
  BY <1>1, <1>3 DEF SafeInv, RowBeforeSeats, NoBooking
<1>6. ASSUME NEW q \in Requests, q # t.request, NEW s \in Seats,
             resv'[q][s] \in Live, resv'[t.request][s] \in Live
      PROVE  /\ ~Overlap(booking'[q].segment, booking'[t.request].segment)
             /\ ~Overlap(booking'[t.request].segment, booking'[q].segment)
  <2>1. s \in t.seats /\ resv[q][s] \in Live
    BY <1>3, <1>6 DEF Live
  <2>2. ~Overlap(booking[q].segment, t.segment)
    BY <1>1, <2>1 DEF SafeInv, CheckStands, SegmentTaken
  <2>3. booking[q] \in BookingRow
    BY <2>1, BookingByStatus DEF SafeInv, RowBeforeSeats, Live
  <2>4. /\ booking[q].segment \in Segments
        /\ booking[q].segment.pickup \in Int /\ booking[q].segment.dropoff \in Int
        /\ t.segment.pickup \in Int /\ t.segment.dropoff \in Int
    BY <1>1, <2>3 DEF BookingRow, Segments
  <2>5. ~Overlap(t.segment, booking[q].segment)
    BY <2>2, <2>4 DEF Overlap
  <2>6. QED
    BY <1>3, <1>6, <2>2, <2>5
<1>7. NoDoubleBooking'
  <2> SUFFICES ASSUME NEW q \in Requests, NEW r \in Requests, NEW s \in Seats,
                      q # r, resv'[q][s] \in Live, resv'[r][s] \in Live
               PROVE  ~Overlap(booking'[q].segment, booking'[r].segment)
    BY DEF NoDoubleBooking
  <2>1. CASE q # t.request /\ r # t.request
    BY <1>3, <2>1 DEF SafeInv, NoDoubleBooking
  <2>2. CASE q = t.request \/ r = t.request
    BY <1>6, <2>2
  <2>3. QED
    BY <2>1, <2>2
<1>8. QED
  BY <1>4, <1>5, <1>7 DEF SafeInv

(* Every step preserves the inductive invariant. *)
LEMMA SafeStep ==
  ASSUME SafeInv, TypeOK', [Next]_vars
  PROVE  SafeInv'
<1>1. ASSUME NEW w \in Workers,
             StartStep(w) \/ AcquireStep(w) \/ LockRowStep(w) \/ IssueCommit(w)
      PROVE  SafeInv'
  <2> DEFINE Quiet == /\ UNCHANGED <<booking, resv, tripRow>>
                      /\ \E t : Become(w, t) /\ t.op # "reserve"
  <2>1. Quiet
    <3>1. CASE StartStep(w)
      <4>1. ASSUME NEW u \in Selectors, NEW s \in Seats, SelectSeat(w, u, s)
            PROVE  Quiet
        BY <4>1 DEF SelectSeat
      <4>2. ASSUME NEW k \in LockKeys, NEW op \in {"release", "extend"},
                   ReadLock(w, k, op)
            PROVE  Quiet
        BY <4>2 DEF ReadLock
      <4>3. ASSUME NEW r \in Requests, NEW u \in Users, NEW S \in SUBSET Seats,
                   NEW g \in Segments, NEW e \in Deadlines,
                   BookingStart(w, r, u, S, g, e)
            PROVE  Quiet
        BY <4>3 DEF BookingStart
      <4>4. ASSUME NEW r \in Requests, IssueRead(w, r)
            PROVE  Quiet
        BY <4>4 DEF IssueRead
      <4>5. QED
        BY <3>1, <4>1, <4>2, <4>3, <4>4 DEF StartStep
    <3>2. CASE AcquireStep(w)
      BY <3>2 DEF AcquireStep, AcquireAnswered, AcquireInserted,
                  AcquireKeyReused, Idle
    <3>3. CASE LockRowStep(w)
      BY <3>3 DEF LockRowStep, ReleaseLock, ExtendLock, Idle
    <3>4. CASE IssueCommit(w)
      BY <3>4 DEF IssueCommit, Idle
    <3>5. QED
      BY <1>1, <3>1, <3>2, <3>3, <3>4
  <2>2. \A v \in Workers : tx'[v].op = "reserve" => tx'[v] = tx[v]
    BY <2>1 DEF Become, SafeInv, TypeOK
  <2>3. QED
    BY <2>1, <2>2, QuietStep
<1>2. ASSUME NEW w \in Workers, BookingCheck(w) PROVE SafeInv'
  <2>1. /\ tx[w] \in BookTx /\ tripRow = NoWorker /\ tripRow' = w
        /\ UNCHANGED <<booking, resv>>
        /\ tx' = [tx EXCEPT ![w] = [tx[w] EXCEPT !.op = "reserve", !.at = now]]
    BY <1>2, TxByOp DEF BookingCheck, Become, SafeInv
  <2>2. /\ tx'[w].request = tx[w].request /\ tx'[w].seats = tx[w].seats
        /\ tx'[w].segment = tx[w].segment
    BY <2>1 DEF SafeInv, TypeOK, BookTx
  <2>3. \A v \in Workers : tx'[v].op = "reserve" => v = w
    BY <2>1, NoWorkerAssumption DEF SafeInv, RowHeld, TypeOK
  <2>4. RowHeld'
    BY <2>1, <2>3 DEF RowHeld
  <2>5. CheckStands'
    BY <1>2, <2>1, <2>2, <2>3 DEF CheckStands, BookingCheck, Bookable, SegmentTaken
  <2>6. RowBeforeSeats' /\ NoDoubleBooking'
    BY <2>1 DEF SafeInv, RowBeforeSeats, NoDoubleBooking
  <2>7. QED
    BY <2>4, <2>5, <2>6 DEF SafeInv
<1>3. ASSUME NEW w \in Workers, BookingReject(w) PROVE SafeInv'
  <2>1. UNCHANGED <<booking, resv, tripRow>> /\ Become(w, Idle)
    BY <1>3 DEF BookingReject
  <2>2. \A v \in Workers : tx'[v].op = "reserve" => tx'[v] = tx[v]
    BY <2>1 DEF Become, Idle, SafeInv, TypeOK
  <2>3. QED
    BY <2>1, <2>2, QuietStep
<1>4. ASSUME NEW w \in Workers, Crash(w) PROVE SafeInv'
  <2>1. \A v \in Workers : tx'[v].op = "reserve" => v # w /\ tx'[v] = tx[v]
    BY <1>4 DEF Crash, Become, Idle, SafeInv, TypeOK
  <2>2. RowHeld'
    BY <1>4, <2>1 DEF Crash, SafeInv, RowHeld
  <2>3. CheckStands'
    BY <1>4, <2>1 DEF Crash, SafeInv, CheckStands, SegmentTaken
  <2>4. RowBeforeSeats' /\ NoDoubleBooking'
    BY <1>4 DEF Crash, SafeInv, RowBeforeSeats, NoDoubleBooking
  <2>5. QED
    BY <2>2, <2>3, <2>4 DEF SafeInv
<1>5. ASSUME NEW r \in Requests, BookingRowStep(r) PROVE SafeInv'
  <2>1. CASE UNCHANGED <<booking, resv>>
    BY <1>5, <2>1, BookingRowStepKeeps, QuietStep DEF SafeInv
  <2>2. CASE ~UNCHANGED <<booking, resv>>
    BY <1>5, <2>2, BookingRowStepKeeps, RowStep DEF SafeInv
  <2>3. QED
    BY <2>1, <2>2
<1>6. ASSUME NEW s \in Seats, SelectBookedSeat(s) PROVE SafeInv'
  BY <1>6, QuietStep DEF SelectBookedSeat
<1>7. CASE SweepLocks \/ CloseSales \/ ReopenSales \/ Tick \/ UNCHANGED vars
  BY <1>7, QuietStep DEF SweepLocks, CloseSales, ReopenSales, Tick, vars
<1>8. QED
  BY <1>1, <1>2, <1>3, <1>4, <1>5, <1>6, <1>7, CommitStep
  DEF Next, FinishStep, BookingStep

LEMMA SafeInvHolds == Spec => []SafeInv
<1>1. Init => SafeInv
  <2>1. Init => RowHeld /\ CheckStands /\ RowBeforeSeats /\ NoDoubleBooking
    BY DEF Init, RowHeld, CheckStands, RowBeforeSeats, NoDoubleBooking, Idle, Live
  <2>2. Init => TypeOK
    BY DEF Init, TypeOK, Times, NoLock, LockRow, LockStatus, ResvStatus
  <2>3. QED
    BY <2>1, <2>2 DEF SafeInv
<1>2. SafeInv /\ TypeOK' /\ [Next]_vars => SafeInv'
  BY SafeStep
<1>3. QED
  BY <1>1, <1>2, TypeCorrect, PTL DEF Spec

(* "Reserved Seats MUST NOT be double-booked", for every number of users,  *)
(* seats, stops, requests and workers.                                     *)
THEOREM NeverDoubleBooked == Spec => []NoDoubleBooking
<1>1. SafeInv => NoDoubleBooking
  BY DEF SafeInv
<1>2. QED
  BY <1>1, SafeInvHolds, PTL

-----------------------------------------------------------------------------
(* The refinement: the cells of the live reservations behave as the        *)
(* inventory says.                                                         *)
LEMMA SoldUnchanged ==
  UNCHANGED <<booking, resv>> => UNCHANGED Sold
  BY DEF Sold

(* A commit sells the legs of the booking's segment on its seats. *)
LEMMA CommitSells ==
  ASSUME SafeInv, NEW w \in Workers, BookingCommit(w)
  PROVE  Inventory!Sell(tx[w].request)
<1> DEFINE t == tx[w]  r == t.request
<1>1. /\ t.op = "reserve" /\ t \in BookTx /\ r \in Requests
      /\ t.seats \subseteq Seats /\ t.segment \in Segments
  BY TxByOp DEF BookingCommit, SafeInv, BookTx
<1>2. /\ booking[r] = NoBooking
      /\ \A s \in Seats : resv[r][s] = "none"
      /\ \A s \in t.seats : ~SegmentTaken(s, t.segment)
  BY <1>1 DEF SafeInv, CheckStands, RowBeforeSeats
<1>3. /\ \A q \in Requests \ {r} :
           booking'[q] = booking[q] /\ resv'[q] = resv[q]
      /\ booking'[r].segment = t.segment
      /\ \A s \in Seats :
           resv'[r][s] = IF s \in t.seats THEN "reserved" ELSE "none"
  BY <1>1 DEF BookingCommit, SafeInv, TypeOK
<1>4. \A x \in Sold : x[1] # r
  BY <1>2 DEF Sold, Live
<1>5. Inventory!CellsOf(r) = {}
  BY <1>4 DEF Inventory!CellsOf, Inventory!Cells
<1>6. Sold \subseteq Sold'
  BY <1>3, <1>4 DEF Sold
<1>7. ASSUME NEW x \in Sold' \ Sold
      PROVE  /\ x \in {r} \X Seats \X Legs
             /\ Inventory!Free(<<x[2], x[3]>>)
  <2>1. /\ x \in Requests \X Seats \X Legs /\ resv'[x[1]][x[2]] \in Live
        /\ x[3] \in LegsOf(booking'[x[1]].segment)
    BY DEF Sold
  <2>2. x[1] = r
    BY <1>3, <2>1 DEF Sold
  <2>3. x[2] \in t.seats /\ x[3] \in LegsOf(t.segment) /\ x[3] \in Legs
    BY <1>3, <2>1, <2>2 DEF Live
  <2>4. ASSUME NEW q \in Requests, <<q, x[2], x[3]>> \in Sold
        PROVE  FALSE
    <3>1. resv[q][x[2]] \in Live /\ x[3] \in LegsOf(booking[q].segment)
      BY <2>4 DEF Sold
    <3>2. x[2] \in Seats
      BY <2>1
    <3>3. booking[q] \in BookingRow
      BY <3>1, <3>2, BookingByStatus DEF SafeInv, RowBeforeSeats, Live
    <3>4. Overlap(booking[q].segment, t.segment)
      BY <1>1, <2>3, <3>1, <3>3, OverlapIsCommonLeg DEF BookingRow
    <3>5. QED
      BY <1>2, <2>3, <3>1, <3>4 DEF SegmentTaken
  <2>5. QED
    BY <2>1, <2>2, <2>4 DEF Inventory!Free
<1>8. QED
  BY <1>5, <1>6, <1>7 DEF Inventory!Sell

-----------------------------------------------------------------------------
(* Only the commit of a booking and the transactions on a booking row      *)
(* write bookings and reservations.                                        *)
LEMMA SellingSteps ==
  ASSUME [Next]_vars, ~UNCHANGED <<booking, resv>>
  PROVE  \/ \E w \in Workers : BookingCommit(w)
         \/ \E r \in Requests : BookingRowStep(r)
  BY DEF Next, vars, StartStep, SelectSeat, ReadLock, BookingStart,
    FinishStep, AcquireStep, AcquireAnswered, AcquireInserted,
    AcquireKeyReused, LockRowStep, ReleaseLock, ExtendLock, BookingStep,
    BookingCheck, BookingReject, IssueRead, IssueCommit, Crash,
    SelectBookedSeat, SweepLocks, CloseSales, ReopenSales, Tick

(* A booking and its reservations move together. *)
LEMMA FollowStep ==
  ASSUME SafeInv, SeatsFollowBooking, TypeOK', [Next]_vars
  PROVE  SeatsFollowBooking'
<1>1. CASE UNCHANGED <<booking, resv>>
  BY <1>1 DEF SeatsFollowBooking
<1>2. ASSUME NEW w \in Workers, BookingCommit(w) PROVE SeatsFollowBooking'
  <2> DEFINE t == tx[w]
  <2>1. /\ t \in BookTx /\ t.request \in Requests /\ t.seats # {}
        /\ t.seats \subseteq Seats
    BY <1>2, TxByOp DEF BookingCommit, SafeInv, BookTx
  <2>2. /\ \A q \in Requests \ {t.request} :
             booking'[q] = booking[q] /\ resv'[q] = resv[q]
        /\ booking'[t.request].status = "reserved"
        /\ \A s \in Seats :
             resv'[t.request][s] = IF s \in t.seats THEN "reserved" ELSE "none"
    BY <1>2, <2>1 DEF BookingCommit, SafeInv, TypeOK
  <2>3. QED
    BY <2>1, <2>2 DEF SeatsFollowBooking, SeatStatusFor
<1>3. ASSUME NEW r \in Requests, BookingRowStep(r), ~UNCHANGED <<booking, resv>>
      PROVE  SeatsFollowBooking'
  <2>1. ASSUME NEW b \in {"confirmed", "cancelled", "expired"}, NEW from,
               booking[r].status # "none",
               MoveBooking(r, b), MoveSeats(r, from, SeatStatusFor[b]),
               \A s \in Seats : resv[r][s] \in from \cup {"none"}
        PROVE  SeatsFollowBooking'
    <3>1. booking[r] \in BookingRow
      BY <2>1, BookingByStatus DEF SafeInv
    <3>2. booking'[r].status = b
      BY <2>1, <3>1 DEF MoveBooking, SafeInv, TypeOK, BookingRow
    <3>3. \A q \in Requests \ {r} : booking'[q] = booking[q] /\ resv'[q] = resv[q]
      BY <1>3, BookingRowStepKeeps DEF SafeInv
    <3>4. \A s \in Seats : resv'[r][s] = IF resv[r][s] \in from
                                         THEN SeatStatusFor[b] ELSE resv[r][s]
      BY <2>1 DEF MoveSeats, SafeInv, TypeOK
    <3>5. \A s \in Seats : resv'[r][s] \in {"none", SeatStatusFor[b]}
      BY <2>1, <3>4
    <3>6. \E s \in Seats : resv'[r][s] # "none"
      <4>1. PICK s \in Seats : resv[r][s] # "none"
        BY <2>1, <3>1 DEF SeatsFollowBooking, NoBooking, BookingRow, BookingStatus
      <4>2. resv'[r][s] # "none"
        BY <2>1, <3>4, <4>1 DEF SeatStatusFor
      <4>3. QED
        BY <4>2
    <3>7. QED
      BY <3>2, <3>3, <3>5, <3>6 DEF SeatsFollowBooking
  <2>2. CASE ConfirmBooking(r)
    <3>1. \A s \in Seats : resv[r][s] \in {"reserved"} \cup {"none"}
      BY <2>2 DEF ConfirmBooking, SeatsFollowBooking, SeatStatusFor
    <3>2. QED
      BY <2>1, <2>2, <3>1 DEF ConfirmBooking, SeatStatusFor
  <2>3. CASE CancelBooking(r)
    <3>1. \A s \in Seats : resv[r][s] \in Live \cup {"none"}
      BY <2>3 DEF CancelBooking, SeatsFollowBooking, SeatStatusFor, Live
    <3>2. QED
      BY <2>1, <2>3, <3>1 DEF CancelBooking, SeatStatusFor
  <2>4. CASE ExpireBooking(r)
    <3>1. \A s \in Seats : resv[r][s] \in {"reserved"} \cup {"none"}
      BY <2>4 DEF ExpireBooking, SeatsFollowBooking, SeatStatusFor
    <3>2. QED
      BY <2>1, <2>4, <3>1 DEF ExpireBooking, SeatStatusFor
  <2>5. CASE RefundTickets(r)
    BY <1>3, <2>5 DEF RefundTickets
  <2>6. QED
    BY <1>3, <2>2, <2>3, <2>4, <2>5 DEF BookingRowStep
<1>4. QED
  BY <1>1, <1>2, <1>3, SellingSteps

(* Booking and reservation statuses agree, in every reachable state. *)
THEOREM SeatsAlwaysFollow == Spec => []SeatsFollowBooking
<1>1. Init => SeatsFollowBooking
  BY DEF Init, SeatsFollowBooking, NoBooking
<1>2. SafeInv /\ SeatsFollowBooking /\ TypeOK' /\ [Next]_vars
        => SeatsFollowBooking'
  BY FollowStep
<1>3. QED
  BY <1>1, <1>2, TypeCorrect, SafeInvHolds, PTL DEF Spec

-----------------------------------------------------------------------------
(* A transaction on an existing booking gives back all its cells or none. *)
LEMMA BookingRowStepReturns ==
  ASSUME SafeInv, SeatsFollowBooking, NEW r \in Requests, BookingRowStep(r)
  PROVE  Inventory!Return(r) \/ UNCHANGED Sold
<1>1. \A q \in Requests \ {r} : booking'[q] = booking[q] /\ resv'[q] = resv[q]
  BY BookingRowStepKeeps DEF SafeInv
<1>2. CASE \A s \in Seats : resv'[r][s] \notin Live
  <2>1. Sold' = {x \in Sold : x[1] # r}
    BY <1>1, <1>2 DEF Sold
  <2>2. CASE Inventory!CellsOf(r) = {}
    <3>1. \A x \in Sold : x[1] # r
      <4> SUFFICES ASSUME NEW x \in Sold, x[1] = r PROVE FALSE
        OBVIOUS
      <4>1. <<x[2], x[3]>> \in Inventory!CellsOf(r)
        BY DEF Sold, Inventory!CellsOf, Inventory!Cells
      <4>2. QED
        BY <2>2, <4>1
    <3>2. QED
      BY <2>1, <3>1
  <2>3. QED
    BY <2>1, <2>2 DEF Inventory!Return
<1>3. CASE ConfirmBooking(r)
  <2>1. /\ \A s \in Seats : (resv'[r][s] \in Live) <=> (resv[r][s] \in Live)
        /\ booking'[r].segment = booking[r].segment
    <3>1. booking[r] \in BookingRow
      BY <1>3, BookingByStatus DEF ConfirmBooking, SafeInv
    <3>2. booking'[r].segment = booking[r].segment
      BY <1>3, <3>1 DEF ConfirmBooking, MoveBooking, SafeInv, TypeOK, BookingRow
    <3>3. QED
      BY <1>3, <3>2 DEF ConfirmBooking, MoveSeats, SafeInv, TypeOK, Live
  <2>2. QED
    BY <1>1, <2>1 DEF Sold
<1>4. CASE RefundTickets(r)
  BY <1>4, SoldUnchanged DEF RefundTickets
<1>5. CASE CancelBooking(r)
  BY <1>2, <1>5 DEF CancelBooking, MoveSeats, SafeInv, TypeOK, Live
<1>6. CASE ExpireBooking(r)
  <2>1. \A s \in Seats : resv[r][s] \in {"none", "reserved"}
    BY <1>6 DEF ExpireBooking, SeatsFollowBooking, SeatStatusFor
  <2>2. \A s \in Seats : resv'[r][s] \notin Live
    BY <1>6, <2>1 DEF ExpireBooking, MoveSeats, SafeInv, TypeOK, Live
  <2>3. QED
    BY <1>2, <2>2
<1>7. QED
  BY <1>3, <1>4, <1>5, <1>6 DEF BookingRowStep

(* The seat services implement the inventory: every run of the interleaved *)
(* transactions looks like one that sells and returns whole bookings.      *)
THEOREM Implements == Spec => ImplementsInventory
<1>1. Init => Inventory!Init
  BY DEF Init, Inventory!Init, Sold, Live
<1>2. SafeInv /\ SeatsFollowBooking /\ [Next]_vars => [Inventory!Next]_Sold
  <2> SUFFICES ASSUME SafeInv, SeatsFollowBooking, [Next]_vars
               PROVE  [Inventory!Next]_Sold
    OBVIOUS
  <2>1. CASE UNCHANGED <<booking, resv>>
    BY <2>1, SoldUnchanged
  <2>2. ASSUME NEW w \in Workers, BookingCommit(w) PROVE Inventory!Next
    <3>1. tx[w].request \in Requests
      BY <2>2, TxByOp DEF BookingCommit, SafeInv, BookTx
    <3>2. QED
      BY <2>2, <3>1, CommitSells DEF Inventory!Next
  <2>3. ASSUME NEW r \in Requests, BookingRowStep(r)
        PROVE  [Inventory!Next]_Sold
    BY <2>3, BookingRowStepReturns DEF Inventory!Next
  <2>4. QED
    BY <2>1, <2>2, <2>3, SellingSteps
<1>3. QED
  BY <1>1, <1>2, SafeInvHolds, SeatsAlwaysFollow, PTL
  DEF Spec, ImplementsInventory, Inventory!Spec
-----------------------------------------------------------------------------
(* What the inventory guarantees, shown for every behaviour of the         *)
(* inventory alone and so for whatever implements it.                      *)
Promise == Inventory!TypeOK /\ Inventory!Exclusive

(* A sale takes free cells only, so no cell gets a second owner. *)
LEMMA SaleKeepsPromise ==
  ASSUME NEW o \in Requests, Promise, Inventory!Sell(o)
  PROVE  Promise'
<1>1. Inventory!TypeOK'
  <2> SUFFICES ASSUME NEW x \in Sold'
               PROVE  x \in Requests \X Seats \X Legs
    BY DEF Inventory!TypeOK
  <2>1. CASE x \in Sold
    BY <2>1 DEF Promise, Inventory!TypeOK
  <2>2. CASE x \notin Sold
    <3>1. x \in {o} \X Seats \X Legs
      BY <2>2 DEF Inventory!Sell
    <3> QED
      BY <3>1
  <2> QED
    BY <2>1, <2>2
<1>2. ASSUME NEW x \in Sold' \ Sold, NEW y \in Sold, x[2] = y[2], x[3] = y[3]
      PROVE  FALSE
  <2>1. y \in Requests \X Seats \X Legs
    BY <1>2 DEF Promise, Inventory!TypeOK
  <2>2. <<y[1], x[2], x[3]>> \notin Sold
    BY <1>2, <2>1 DEF Inventory!Sell, Inventory!Free
  <2>3. y = <<y[1], x[2], x[3]>>
    BY <1>2, <2>1
  <2> QED
    BY <1>2, <2>2, <2>3
<1>3. ASSUME NEW x \in Sold', NEW y \in Sold', x[2] = y[2], x[3] = y[3]
      PROVE  x[1] = y[1]
  <2>1. CASE x \in Sold /\ y \in Sold
    BY <1>3, <2>1 DEF Promise, Inventory!Exclusive
  <2>2. CASE x \notin Sold /\ y \notin Sold
    <3>1. x \in {o} \X Seats \X Legs /\ y \in {o} \X Seats \X Legs
      BY <1>3, <2>2 DEF Inventory!Sell
    <3> QED
      BY <3>1
  <2>3. CASE x \notin Sold /\ y \in Sold
    BY <1>2, <1>3, <2>3
  <2>4. CASE x \in Sold /\ y \notin Sold
    BY <1>2, <1>3, <2>4
  <2> QED
    BY <2>1, <2>2, <2>3, <2>4
<1> QED
  BY <1>1, <1>3 DEF Promise, Inventory!Exclusive

LEMMA ReturnKeepsPromise ==
  ASSUME NEW o \in Requests, Promise, Inventory!Return(o)
  PROVE  Promise'
BY DEF Promise, Inventory!TypeOK, Inventory!Exclusive, Inventory!Return

(* No cell of the inventory ever has two owners: nobody is sold a seat in  *)
(* which somebody else sits over a common leg.                             *)
THEOREM NeverSoldTwice == Inventory!Spec => []Inventory!Exclusive
<1>1. Inventory!Init => Promise
  BY DEF Inventory!Init, Promise, Inventory!TypeOK, Inventory!Exclusive
<1>2. Promise /\ [Inventory!Next]_Sold => Promise'
  <2> SUFFICES ASSUME Promise, [Inventory!Next]_Sold
               PROVE  Promise'
    OBVIOUS
  <2>1. CASE UNCHANGED Sold
    BY <2>1 DEF Promise, Inventory!TypeOK, Inventory!Exclusive
  <2>2. CASE Inventory!Next
    BY <2>2, SaleKeepsPromise, ReturnKeepsPromise DEF Inventory!Next
  <2> QED
    BY <2>1, <2>2
<1>3. Promise => Inventory!Exclusive
  BY DEF Promise
<1> QED
  BY <1>1, <1>2, <1>3, PTL DEF Inventory!Spec

-----------------------------------------------------------------------------
(* A seat of the trip has one HELD lock: what its unique index keeps. *)
HolderIsOne ==
  \A s \in Seats : \A u, v \in Selectors :
    lock[<<s, u>>].status = "held" /\ lock[<<s, v>>].status = "held" => u = v

(* A step that makes no lock HELD keeps the holders apart. *)
LEMMA NoNewHolder ==
  ASSUME HolderIsOne,
         \A k \in LockKeys : lock'[k].status = "held" => lock[k].status = "held"
  PROVE  HolderIsOne'
BY DEF HolderIsOne, LockKeys

(* The sweep only takes holds away. *)
LEMMA SweptHolds ==
  ASSUME TypeOK, NEW t, NEW k \in LockKeys, Swept(t)[k].status = "held"
  PROVE  lock[k].status = "held"
BY DEF Swept, TypeOK, LockRow

LEMMA HolderStep ==
  ASSUME TypeOK, HolderIsOne, Next
  PROVE  HolderIsOne'
<1>1. CASE lock' = lock
  BY <1>1 DEF HolderIsOne
<1>2. CASE \E t : lock' = Swept(t)
  BY <1>2, SweptHolds, NoNewHolder
<1>3. ASSUME NEW w \in Workers, AcquireInserted(w)
      PROVE  HolderIsOne'
  <2>1. tx[w] \in AcquireTx
    BY <1>3, TxByOp DEF AcquireInserted
  <2> DEFINE seat == tx[w].seat
             user == tx[w].user
             table == Swept(tx[w].at)
  <2>2. seat \in Seats /\ user \in Selectors
    BY <2>1 DEF AcquireTx
  <2>3. \A k \in LockKeys : k # <<seat, user>> => lock'[k] = table[k]
    BY <1>3 DEF AcquireInserted, Swept
  <2>4. \A u \in Selectors : table[<<seat, u>>].status # "held"
    BY <1>3 DEF AcquireInserted, Holders
  <2> SUFFICES ASSUME NEW s \in Seats, NEW u \in Selectors, NEW v \in Selectors,
                      lock'[<<s, u>>].status = "held",
                      lock'[<<s, v>>].status = "held"
               PROVE  u = v
    BY DEF HolderIsOne
  <2>5. CASE s = seat
    BY <2>2, <2>3, <2>4, <2>5 DEF LockKeys
  <2>6. CASE s # seat
    <3>1. /\ table[<<s, u>>].status = "held" /\ <<s, u>> \in LockKeys
          /\ table[<<s, v>>].status = "held" /\ <<s, v>> \in LockKeys
      BY <2>3, <2>6 DEF LockKeys
    <3>2. lock[<<s, u>>].status = "held" /\ lock[<<s, v>>].status = "held"
      BY <3>1, SweptHolds
    <3> QED
      BY <3>2 DEF HolderIsOne
  <2> QED
    BY <2>5, <2>6
<1>4. ASSUME NEW w \in Workers, LockRowStep(w)
      PROVE  HolderIsOne'
  <2>1. tx[w].key \in LockKeys
    BY <1>4, TxByOp DEF LockRowStep, ReleaseLock, ExtendLock, LockTx
  <2>2. \A k \in LockKeys : lock'[k].status = "held" => lock[k].status = "held"
    BY <1>4, <2>1 DEF LockRowStep, ReleaseLock, ExtendLock, TypeOK, LockRow
  <2> QED
    BY <2>2, NoNewHolder
<1>5. ASSUME NEW w \in Workers, BookingCommit(w)
      PROVE  HolderIsOne'
  <2>1. \A k \in LockKeys : lock'[k].status = "held" =>
          Swept(tx[w].at)[k].status = "held"
    BY <1>5 DEF BookingCommit
  <2> QED
    BY <2>1, SweptHolds, NoNewHolder
<1> QED
  BY <1>1, <1>2, <1>3, <1>4, <1>5
  DEF Next, StartStep, FinishStep, AcquireStep, BookingStep, BookingRowStep,
      SelectSeat, ReadLock, BookingStart, IssueRead, AcquireAnswered,
      AcquireKeyReused, BookingCheck, BookingReject, IssueCommit, Crash,
      ConfirmBooking, RefundTickets, CancelBooking, ExpireBooking,
      SelectBookedSeat, SweepLocks, CloseSales, ReopenSales, Tick

(* No seat is held by two users, whatever acquire, extend, release, the    *)
(* sweep and the bookings wrote between each other's reads and writes.     *)
THEOREM SeatsHaveOneHolder == Spec => []OneHolderPerSeat
<1>1. Init => HolderIsOne
  BY DEF Init, HolderIsOne, NoLock, LockKeys
<1>2. TypeOK /\ HolderIsOne /\ [Next]_vars => HolderIsOne'
  BY HolderStep DEF vars, HolderIsOne
<1>3. HolderIsOne => OneHolderPerSeat
  <2> SUFFICES ASSUME HolderIsOne, NEW s \in Seats
               PROVE  Cardinality(Holders(lock, s)) <= 1
    BY DEF OneHolderPerSeat
  <2>1. CASE Holders(lock, s) = {}
    BY <2>1, FS_EmptySet
  <2>2. CASE Holders(lock, s) # {}
    <3>1. PICK u : u \in Holders(lock, s)
      BY <2>2
    <3>2. Holders(lock, s) = {u}
      BY <3>1 DEF HolderIsOne, Holders
    <3> QED
      BY <3>2, FS_Singleton
  <2> QED
    BY <2>1, <2>2
<1> QED
  BY <1>1, <1>2, <1>3, TypeCorrect, PTL DEF Spec

-----------------------------------------------------------------------------
(* What steps may do to a hold, and to the sale.  A transaction that is    *)
(* about to insert bookings found the trip on sale and holds its row, so   *)
(* sales are still open; and it judges holds by a time that has passed.    *)
SaleIsOpen == \A w \in Workers : tx[w].op = "reserve" => salesOpen

ReadInThePast ==
  \A w \in Workers : tx[w].op \in {"acquire", "reserve"} => tx[w].at <= now

(* Which transactions are about to write after a step. *)
LEMMA WritersAfter ==
  ASSUME TypeOK, Next, NEW v \in Workers, tx'[v].op \in {"acquire", "reserve"}
  PROVE  \/ tx'[v] = tx[v]
         \/ /\ tx'[v].at = now /\ now' = now /\ salesOpen' = salesOpen
            /\ tx'[v].op = "reserve" => salesOpen
<1> DEFINE Goal == \/ tx'[v] = tx[v]
                   \/ /\ tx'[v].at = now /\ now' = now /\ salesOpen' = salesOpen
                      /\ tx'[v].op = "reserve" => salesOpen
<1>1. ASSUME NEW w \in Workers, NEW t, Become(w, t),
             t.op \in {"acquire", "reserve"} =>
               /\ t.at = now /\ now' = now /\ salesOpen' = salesOpen
               /\ t.op = "reserve" => salesOpen
      PROVE  Goal
  BY <1>1 DEF Become, TypeOK
<1>2. ASSUME UNCHANGED tx
      PROVE  Goal
  BY <1>2
<1> HIDE DEF Goal
<1>3. ASSUME NEW w \in Workers, StartStep(w)
      PROVE  Goal
  <2>1. ASSUME NEW u \in Selectors, NEW s \in Seats, SelectSeat(w, u, s)
        PROVE  Goal
    BY <1>1, <2>1 DEF SelectSeat
  <2>2. ASSUME NEW k \in LockKeys, NEW op \in {"release", "extend"}, ReadLock(w, k, op)
        PROVE  Goal
    BY <1>1, <2>2 DEF ReadLock
  <2>3. ASSUME NEW r \in Requests, NEW u \in Users, NEW S \in SUBSET Seats,
               NEW g \in Segments, NEW e \in Deadlines, BookingStart(w, r, u, S, g, e)
        PROVE  Goal
    BY <1>1, <2>3 DEF BookingStart
  <2>4. ASSUME NEW r \in Requests, IssueRead(w, r)
        PROVE  Goal
    BY <1>1, <2>4 DEF IssueRead
  <2> QED
    BY <1>3, <2>1, <2>2, <2>3, <2>4 DEF StartStep
<1>4. ASSUME NEW w \in Workers, Become(w, Idle)
      PROVE  Goal
  BY <1>1, <1>4 DEF Idle
<1>5. ASSUME NEW w \in Workers, BookingCheck(w)
      PROVE  Goal
  <2> DEFINE t == [tx[w] EXCEPT !.op = "reserve", !.at = now]
  <2>1. t.op = "reserve" /\ t.at = now
    BY <1>5, TxByOp DEF BookingCheck, BookTx
  <2>2. Become(w, t) /\ UNCHANGED <<now, salesOpen>> /\ salesOpen
    BY <1>5 DEF BookingCheck, Bookable
  <2> HIDE DEF t
  <2> QED
    BY <1>1, <2>1, <2>2
<1>6. ASSUME NEW w \in Workers, FinishStep(w) \/ Crash(w), ~BookingCheck(w)
      PROVE  Goal
  BY <1>4, <1>6
  DEF FinishStep, AcquireStep, AcquireAnswered, AcquireInserted, AcquireKeyReused,
      LockRowStep, ReleaseLock, ExtendLock, BookingStep, BookingReject,
      BookingCommit, IssueCommit, Crash
<1>7. ASSUME NEW r \in Requests, BookingRowStep(r)
      PROVE  Goal
  BY <1>2, <1>7 DEF BookingRowStep, ConfirmBooking, RefundTickets, CancelBooking,
                    ExpireBooking
<1>8. ASSUME NEW s \in Seats, SelectBookedSeat(s)
      PROVE  Goal
  BY <1>2, <1>8 DEF SelectBookedSeat
<1>9. ASSUME NEW w \in Workers, StartStep(w) \/ FinishStep(w) \/ Crash(w)
      PROVE  Goal
  BY <1>3, <1>5, <1>6, <1>9
<1>10. Goal
  <2>1. CASE \E w \in Workers : StartStep(w) \/ FinishStep(w) \/ Crash(w)
    BY <1>9, <2>1
  <2>2. CASE \E r \in Requests : BookingRowStep(r)
    BY <1>7, <2>2
  <2>3. CASE \E s \in Seats : SelectBookedSeat(s)
    BY <1>8, <2>3
  <2>4. CASE SweepLocks
    BY <1>2, <2>4 DEF SweepLocks
  <2>5. CASE CloseSales \/ ReopenSales
    BY <1>2, <2>5 DEF CloseSales, ReopenSales
  <2>6. CASE Tick
    BY <1>2, <2>6 DEF Tick
  <2> QED
    BY <2>1, <2>2, <2>3, <2>4, <2>5, <2>6 DEF Next
<1> QED
  BY <1>10 DEF Goal

(* Sales close and reopen only when no transaction holds the trip row. *)
LEMMA SalesStay ==
  ASSUME Next, salesOpen' # salesOpen
  PROVE  tripRow = NoWorker
BY DEF Next, StartStep, SelectSeat, ReadLock, BookingStart,
    FinishStep, AcquireStep, AcquireAnswered, AcquireInserted,
    AcquireKeyReused, LockRowStep, ReleaseLock, ExtendLock, BookingStep,
    BookingCheck, BookingReject, BookingCommit, IssueRead, IssueCommit, Crash,
    BookingRowStep, ConfirmBooking, RefundTickets, CancelBooking, ExpireBooking,
    SelectBookedSeat, SweepLocks, CloseSales, ReopenSales, Tick

LEMMA TimeAdvances ==
  ASSUME TypeOK, Next
  PROVE  now <= now'
<1>1. now' = now \/ now' = now + 1
  BY DEF Next, StartStep, SelectSeat, ReadLock, BookingStart,
    FinishStep, AcquireStep, AcquireAnswered, AcquireInserted,
    AcquireKeyReused, LockRowStep, ReleaseLock, ExtendLock, BookingStep,
    BookingCheck, BookingReject, BookingCommit, IssueRead, IssueCommit, Crash,
    BookingRowStep, ConfirmBooking, RefundTickets, CancelBooking, ExpireBooking,
    SelectBookedSeat, SweepLocks, CloseSales, ReopenSales, Tick
<1> QED
  BY <1>1 DEF TypeOK, Times

LEMMA WritersAreCurrent == Spec => [](SafeInv /\ SaleIsOpen /\ ReadInThePast)
<1>1. Init => SaleIsOpen /\ ReadInThePast
  BY DEF Init, Idle, SaleIsOpen, ReadInThePast
<1>2. SafeInv /\ (SaleIsOpen /\ ReadInThePast) /\ [Next]_vars
        => (SaleIsOpen /\ ReadInThePast)'
  <2>1. CASE UNCHANGED vars
    BY <2>1 DEF vars, SaleIsOpen, ReadInThePast
  <2>2. ASSUME SafeInv, SaleIsOpen, ReadInThePast, Next
        PROVE  SaleIsOpen'
    <3> SUFFICES ASSUME NEW v \in Workers, tx'[v].op = "reserve"
                 PROVE  salesOpen'
      BY DEF SaleIsOpen
    <3>1. CASE tx'[v] = tx[v]
      <4>1. salesOpen /\ tripRow = v
        BY <2>2, <3>1 DEF SaleIsOpen, SafeInv, RowHeld
      <4>2. tripRow # NoWorker
        BY <4>1
      <4> QED
        BY <2>2, <4>1, <4>2, SalesStay
    <3>2. CASE tx'[v] # tx[v]
      BY <2>2, <3>2, WritersAfter DEF SafeInv
    <3> QED
      BY <3>1, <3>2
  <2>3. ASSUME SafeInv, SaleIsOpen, ReadInThePast, Next
        PROVE  ReadInThePast'
    <3> SUFFICES ASSUME NEW v \in Workers, tx'[v].op \in {"acquire", "reserve"}
                 PROVE  tx'[v].at <= now'
      BY DEF ReadInThePast
    <3>1. now \in Nat /\ now' \in Nat /\ now <= now'
      <4>1. TypeOK'
        BY <2>3, TypeStep DEF SafeInv
      <4> QED
        BY <2>3, <4>1, TimeAdvances DEF SafeInv, TypeOK, Times
    <3>2. CASE tx'[v] = tx[v]
      <4>1. tx[v].at <= now /\ tx[v].at \in Nat
        BY <2>3, <3>2, TxByOp DEF ReadInThePast, SafeInv, AcquireTx, BookTx, Times
      <4> QED
        BY <3>1, <3>2, <4>1
    <3>3. CASE tx'[v] # tx[v]
      BY <2>3, <3>1, <3>3, WritersAfter DEF SafeInv
    <3> QED
      BY <3>2, <3>3
  <2> QED
    BY <2>1, <2>2, <2>3
<1> QED
  BY <1>1, <1>2, SafeInvHolds, PTL DEF Spec

(* No booking appears once the trip boards, however late its checks ended. *)
THEOREM NothingSoldAfterClose == Spec => NoSaleAfterClose
<1>1. ASSUME SafeInv, SaleIsOpen, [Next]_vars, ~salesOpen,
             NEW r \in Requests, booking[r] = NoBooking
      PROVE  booking'[r] = NoBooking
  <2>1. ASSUME NEW w \in Workers, BookingCommit(w)
        PROVE  FALSE
    BY <1>1, <2>1 DEF BookingCommit, SaleIsOpen
  <2>2. ASSUME NEW q \in Requests, BookingRowStep(q)
        PROVE  booking'[r] = NoBooking
    BY <1>1, <2>2, BookingRowStepKeeps DEF SafeInv
  <2> QED
    BY <1>1, <2>1, <2>2, SellingSteps
<1>2. SafeInv /\ SaleIsOpen /\ [Next]_vars
        => [~salesOpen => \A r \in Requests : booking[r] = NoBooking
                                                => booking'[r] = NoBooking]_vars
  BY <1>1
<1> QED
  BY <1>2, WritersAreCurrent, PTL DEF Spec, NoSaleAfterClose

(* All that can happen to a lock in one step. *)
LEMMA LockFates ==
  ASSUME TypeOK, ReadInThePast, Next, NEW k \in LockKeys
  PROVE  \/ lock'[k] = lock[k]
         \/ /\ lock[k].status = "held" /\ lock[k].expires <= now
            /\ lock'[k].status \in {"expired", "consumed"}
         \/ lock[k].status = "none" /\ lock'[k].status = "held"
         \/ lock'[k].status = "released"
         \/ lock'[k].status = lock[k].status
         \/ /\ lock'[k].status = "consumed"
            /\ \E w \in Workers : tx[w].op = "reserve" /\ tx[w].user = k[2]
                                    /\ k[1] \in tx[w].seats
         \/ /\ lock'[k].status = "expired"
            /\ \E w \in Workers : tx[w].op = "extend" /\ tx[w].key = k
                                    /\ tx[w].seen <= now
<1>1. ASSUME NEW t \in Times, t <= now
      PROVE  \/ Swept(t)[k] = lock[k]
             \/ /\ lock[k].status = "held" /\ lock[k].expires <= now
                /\ Swept(t)[k].status = "expired"
  <2>1. lock[k] \in LockRow /\ now \in Times
    BY DEF TypeOK
  <2>2. lock[k].expires <= t => lock[k].expires <= now
    BY <1>1, <2>1 DEF LockRow, Times
  <2>3. [lock[k] EXCEPT !.status = "expired"].status = "expired"
    BY <2>1 DEF LockRow
  <2> QED
    BY <2>2, <2>3 DEF Swept
<1>2. now \in Times /\ now <= now
  BY DEF TypeOK, Times
<1>3. ASSUME NEW w \in Workers, tx[w].op \in {"acquire", "reserve"}
      PROVE  tx[w].at \in Times /\ tx[w].at <= now
  BY <1>3, TxByOp DEF ReadInThePast, AcquireTx, BookTx
<1>4. CASE lock' = lock
  BY <1>4
<1>5. CASE lock' = Swept(now)
  BY <1>1, <1>2, <1>5
<1>6. ASSUME NEW w \in Workers, AcquireAnswered(w)
      PROVE  \/ lock'[k] = lock[k]
             \/ /\ lock[k].status = "held" /\ lock[k].expires <= now
                /\ lock'[k].status = "expired"
  BY <1>1, <1>3, <1>6 DEF AcquireAnswered
<1>7. ASSUME NEW w \in Workers, AcquireInserted(w)
      PROVE  \/ lock'[k] = lock[k]
             \/ /\ lock[k].status = "held" /\ lock[k].expires <= now
                /\ lock'[k].status = "expired"
             \/ lock[k].status = "none" /\ lock'[k].status = "held"
  <2> DEFINE table == Swept(tx[w].at)
             key == <<tx[w].seat, tx[w].user>>
  <2>1. \/ table[k] = lock[k]
        \/ /\ lock[k].status = "held" /\ lock[k].expires <= now
           /\ table[k].status = "expired"
    BY <1>1, <1>3, <1>7 DEF AcquireInserted
  <2>2. CASE k # key
    <3>1. lock'[k] = table[k]
      BY <1>7, <2>2 DEF AcquireInserted, Swept
    <3> QED
      BY <2>1, <3>1
  <2>3. CASE k = key
    <3>1. table[k].status = "none"
      BY <1>7, <2>3 DEF AcquireInserted
    <3>2. lock'[k].status = "held"
      BY <1>7, <2>3 DEF AcquireInserted, Swept
    <3> QED
      BY <2>1, <3>1, <3>2
  <2> QED
    BY <2>2, <2>3
<1>8. ASSUME NEW w \in Workers, LockRowStep(w)
      PROVE  \/ lock'[k] = lock[k]
             \/ lock'[k].status = "released"
             \/ lock'[k].status = lock[k].status
             \/ /\ lock'[k].status = "expired"
                /\ tx[w].op = "extend" /\ tx[w].key = k /\ tx[w].seen <= now
  <2>1. tx[w].key \in LockKeys
    BY <1>8, TxByOp DEF LockRowStep, ReleaseLock, ExtendLock, LockTx
  <2>2. CASE ReleaseLock(w)
    BY <2>1, <2>2 DEF ReleaseLock, TypeOK, LockRow
  <2>3. CASE ExtendLock(w)
    BY <2>1, <2>3 DEF ExtendLock, TypeOK, LockRow
  <2> QED
    BY <1>8, <2>2, <2>3 DEF LockRowStep
<1>9. ASSUME NEW w \in Workers, BookingCommit(w)
      PROVE  \/ lock'[k] = lock[k]
             \/ /\ lock[k].status = "held" /\ lock[k].expires <= now
                /\ lock'[k].status \in {"expired", "consumed"}
             \/ /\ lock'[k].status = "consumed" /\ tx[w].op = "reserve"
                /\ tx[w].user = k[2] /\ k[1] \in tx[w].seats
  <2> DEFINE table == Swept(tx[w].at)
  <2>1. \/ table[k] = lock[k]
        \/ /\ lock[k].status = "held" /\ lock[k].expires <= now
           /\ table[k].status = "expired"
    BY <1>1, <1>3, <1>9 DEF BookingCommit
  <2>2. CASE k[1] \in tx[w].seats /\ k[2] = tx[w].user /\ table[k].status = "held"
    <3>1. table[k] \in LockRow
      BY <1>3, <1>9, SweptType DEF BookingCommit
    <3>2. lock'[k] = [table[k] EXCEPT !.status = "consumed"]
      BY <1>9, <2>2 DEF BookingCommit
    <3>3. lock'[k].status = "consumed"
      BY <3>1, <3>2 DEF LockRow
    <3> QED
      BY <1>9, <2>2, <3>3 DEF BookingCommit
  <2>3. CASE ~(k[1] \in tx[w].seats /\ k[2] = tx[w].user /\ table[k].status = "held")
    <3>1. lock'[k] = table[k]
      BY <1>9, <2>3 DEF BookingCommit
    <3> QED
      BY <2>1, <3>1
  <2> QED
    BY <2>2, <2>3
<1>10. \/ lock' = lock \/ lock' = Swept(now)
       \/ \E w \in Workers : \/ AcquireAnswered(w) \/ AcquireInserted(w)
                             \/ LockRowStep(w) \/ BookingCommit(w)
  BY DEF Next, StartStep, SelectSeat, ReadLock, BookingStart,
    FinishStep, AcquireStep, AcquireKeyReused, BookingStep,
    BookingCheck, BookingReject, IssueRead, IssueCommit, Crash,
    BookingRowStep, ConfirmBooking, RefundTickets, CancelBooking, ExpireBooking,
    SelectBookedSeat, SweepLocks, CloseSales, ReopenSales, Tick
<1> QED
  BY <1>4, <1>5, <1>6, <1>7, <1>8, <1>9, <1>10

(* A hold that ended never comes back, whatever a late extend or release   *)
(* writes from the row its view read.                                      *)
THEOREM EndedHoldsStayEnded == Spec => EndedHoldStaysEnded
<1>1. TypeOK /\ ReadInThePast /\ [Next]_vars
        => [\A k \in LockKeys : lock[k].status \in {"released", "expired", "consumed"}
                                  => lock'[k].status # "held"]_vars
  BY LockFates DEF vars
<1> QED
  BY <1>1, TypeCorrect, WritersAreCurrent, PTL DEF Spec, EndedHoldStaysEnded

(* No sweep, booking or extend takes a hold away from its holder before    *)
(* its TTL has passed, except as the property names.                       *)
THEOREM HoldsLastTheirTTL == Spec => HoldLastsItsTTL
<1>1. ASSUME TypeOK, ReadInThePast, Next, NEW k \in LockKeys,
             lock[k].status = "held", lock[k].expires > now
      PROVE  \/ lock'[k].status \in {"held", "released"}
             \/ /\ lock'[k].status = "consumed"
                /\ \E w \in Workers : /\ tx[w].op = "reserve"
                                      /\ tx[w].user = k[2]
                                      /\ k[1] \in tx[w].seats
             \/ /\ lock'[k].status = "expired"
                /\ \E w \in Workers : /\ tx[w].op = "extend"
                                      /\ tx[w].key = k
                                      /\ tx[w].seen <= now
  <2>1. ~(lock[k].expires <= now)
    BY <1>1 DEF TypeOK, LockRow, Times
  <2> QED
    BY <1>1, <2>1, LockFates
<1> DEFINE Kept ==
      \A k \in LockKeys :
       (lock[k].status = "held" /\ lock[k].expires > now)
         => \/ lock'[k].status \in {"held", "released"}
            \/ /\ lock'[k].status = "consumed"
               /\ \E w \in Workers : /\ tx[w].op = "reserve"
                                     /\ tx[w].user = k[2]
                                     /\ k[1] \in tx[w].seats
            \/ /\ lock'[k].status = "expired"
               /\ \E w \in Workers : /\ tx[w].op = "extend"
                                     /\ tx[w].key = k
                                     /\ tx[w].seen <= now
<1>2. TypeOK /\ ReadInThePast /\ [Next]_vars => [Kept]_vars
  BY <1>1
<1> QED
  BY <1>2, TypeCorrect, WritersAreCurrent, PTL DEF Spec, HoldLastsItsTTL
==============================================================================
