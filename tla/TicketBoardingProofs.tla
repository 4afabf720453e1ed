------------------------- MODULE TicketBoardingProofs -------------------------
(***************************************************************************)
(* Proofs about TicketBoarding, for any number of tickets of a traveller   *)
(* and of gate workers.  The counts the properties speak of follow from    *)
(* two facts about pairs: one ticket is active, one has a record.          *)
(***************************************************************************)
EXTENDS TicketBoarding, FiniteSetTheorems, TLAPS

(* What the unique index on active tickets keeps. *)
ActiveIsOne ==
  \A t, u \in Tickets : ticket[t] \in Active /\ ticket[u] \in Active => t = u

(* What the unique index on boarding records keeps. *)
RecordIsOne ==
  \A t, u \in Tickets : record[t] # "none" /\ record[u] # "none" => t = u

IInv ==
  /\ TypeOK
  /\ ActiveIsOne
  /\ RecordIsOne
  /\ ClosingStaysTrue

-----------------------------------------------------------------------------
(* A set without two elements counts one at most. *)
LEMMA OneAtMost ==
  ASSUME NEW S, \A x, y \in S : x = y
  PROVE  Cardinality(S) <= 1
  <1>1. CASE S = {}
    BY <1>1, FS_EmptySet
  <1>2. CASE S # {}
    <2>1. PICK x : S = {x}
      BY <1>2
    <2> QED
      BY <2>1, FS_Singleton
  <1> QED
    BY <1>1, <1>2

(* A closing counts tickets, so its counts are in range. *)
LEMMA CountsInRange ==
  ASSUME NEW S \in SUBSET Tickets
  PROVE  Cardinality(S) \in 0..Cardinality(Tickets)
  <1>1. /\ IsFiniteSet(S)
        /\ Cardinality(S) <= Cardinality(Tickets)
    BY FS_Subset, TicketsAssumption
  <1>2. Cardinality(S) \in Nat /\ Cardinality(Tickets) \in Nat
    BY <1>1, FS_CardinalityType, TicketsAssumption
  <1> QED
    BY <1>1, <1>2

-----------------------------------------------------------------------------
LEMMA InitIInv ==
  ASSUME Init
  PROVE  IInv
  <1>1. closing \subseteq Closing
    BY DEF Init
  <1>2. past \subseteq TripStatus \ {"closed"}
    BY DEF Init, TripStatus, Following
  <1>3. TypeOK
    BY <1>1, <1>2 DEF Init, TypeOK, TicketStatus, RecordStatus, RefundStatus,
                TripStatus, Following
  <1>4. ActiveIsOne /\ RecordIsOne /\ ClosingStaysTrue
    BY DEF Init, ActiveIsOne, RecordIsOne, ClosingStaysTrue, Active
  <1> QED
    BY <1>3, <1>4 DEF IInv

-----------------------------------------------------------------------------
(* Tickets: the records stay as they are. *)

LEMMA IssueTicketStep ==
  ASSUME IInv, NEW t \in Tickets, IssueTicket(t)
  PROVE  IInv'
  <1>1. TypeOK'
    BY DEF IInv, IssueTicket, SetTicket, TypeOK, TicketStatus
  <1>2. ActiveIsOne'
    BY DEF IInv, IssueTicket, SetTicket, TypeOK, ActiveIsOne, OthersActive
  <1>3. RecordIsOne' /\ ClosingStaysTrue'
    BY DEF IInv, IssueTicket, RecordIsOne, ClosingStaysTrue, Boarded
  <1> QED
    BY <1>1, <1>2, <1>3 DEF IInv

LEMMA ReissueTicketStep ==
  ASSUME IInv, NEW t \in Tickets, NEW u \in Tickets, ReissueTicket(t, u)
  PROVE  IInv'
  <1>1. TypeOK'
    BY DEF IInv, ReissueTicket, TypeOK, TicketStatus
  <1>2. ActiveIsOne'
    BY DEF IInv, ReissueTicket, TypeOK, ActiveIsOne, Active
  <1>3. RecordIsOne' /\ ClosingStaysTrue'
    BY DEF IInv, ReissueTicket, RecordIsOne, ClosingStaysTrue, Boarded
  <1> QED
    BY <1>1, <1>2, <1>3 DEF IInv

LEMMA OpenRefundStep ==
  ASSUME IInv, NEW t \in Tickets, OpenRefund(t)
  PROVE  IInv'
  <1>1. TypeOK'
    BY DEF IInv, OpenRefund, TypeOK, RefundStatus
  <1>2. ActiveIsOne' /\ RecordIsOne' /\ ClosingStaysTrue'
    BY DEF IInv, OpenRefund, ActiveIsOne, RecordIsOne, ClosingStaysTrue, Boarded
  <1> QED
    BY <1>1, <1>2 DEF IInv

LEMMA CompleteRefundStep ==
  ASSUME IInv, NEW t \in Tickets, CompleteRefund(t)
  PROVE  IInv'
  <1>1. TypeOK'
    BY DEF IInv, CompleteRefund, SetTicket, TypeOK, RefundStatus, TicketStatus
  <1>2. ActiveIsOne'
    BY DEF IInv, CompleteRefund, SetTicket, TypeOK, ActiveIsOne, Active
  <1>3. RecordIsOne' /\ ClosingStaysTrue'
    BY DEF IInv, CompleteRefund, RecordIsOne, ClosingStaysTrue, Boarded
  <1> QED
    BY <1>1, <1>2, <1>3 DEF IInv

LEMMA CancelBookingStep ==
  ASSUME IInv, CancelBooking
  PROVE  IInv'
  BY DEF IInv, CancelBooking, TypeOK, ActiveIsOne, RecordIsOne, ClosingStaysTrue,
         Boarded

-----------------------------------------------------------------------------
(* The gate's view *)

LEMMA ViewReadStep ==
  ASSUME IInv, NEW w \in Workers, NEW t \in Tickets, ViewRead(w, t)
  PROVE  IInv'
  <1>1. TypeOK'
    BY DEF IInv, ViewRead, Become, TypeOK, ViewTx
  <1>2. ActiveIsOne' /\ RecordIsOne' /\ ClosingStaysTrue'
    BY DEF IInv, ViewRead, ActiveIsOne, RecordIsOne, ClosingStaysTrue, Boarded
  <1> QED
    BY <1>1, <1>2 DEF IInv

LEMMA ViewWriteStep ==
  ASSUME IInv, NEW w \in Workers, ViewWrite(w)
  PROVE  IInv'
  <1>1. tx[w] \in ViewTx
    BY DEF IInv, ViewWrite, TypeOK, Idle
  <1>2. tx[w].ticket \in Tickets
    BY <1>1 DEF ViewTx
  <1>3. TypeOK'
    BY <1>2 DEF IInv, ViewWrite, SetTicket, Become, TypeOK, TicketStatus
  <1>4. ActiveIsOne'
    BY <1>2 DEF IInv, ViewWrite, SetTicket, TypeOK, ActiveIsOne, OthersActive
  <1>5. RecordIsOne' /\ ClosingStaysTrue'
    BY DEF IInv, ViewWrite, RecordIsOne, ClosingStaysTrue, Boarded
  <1> QED
    BY <1>3, <1>4, <1>5 DEF IInv

LEMMA ViewFailsStep ==
  ASSUME IInv, NEW w \in Workers, ViewFails(w)
  PROVE  IInv'
  <1>1. TypeOK'
    BY DEF IInv, ViewFails, Become, TypeOK
  <1>2. ActiveIsOne' /\ RecordIsOne' /\ ClosingStaysTrue'
    BY DEF IInv, ViewFails, ActiveIsOne, RecordIsOne, ClosingStaysTrue, Boarded
  <1> QED
    BY <1>1, <1>2 DEF IInv

-----------------------------------------------------------------------------
(* Boarding *)

LEMMA ValidateBoardingStep ==
  ASSUME IInv, NEW t \in Tickets, ValidateBoarding(t)
  PROVE  IInv'
  <1>1. TypeOK'
    BY DEF IInv, ValidateBoarding, SetRecord, SetTicket, TypeOK, TicketStatus,
           RecordStatus
  <1>2. ActiveIsOne'
    BY DEF IInv, ValidateBoarding, SetTicket, TypeOK, ActiveIsOne, Active
  <1>3. RecordIsOne'
    BY DEF IInv, ValidateBoarding, SetRecord, TypeOK, RecordIsOne
  <1>4. ClosingStaysTrue'
    BY DEF ValidateBoarding, Admitting, ClosingStaysTrue
  <1> QED
    BY <1>1, <1>2, <1>3, <1>4 DEF IInv

LEMMA BoardPassengerStep ==
  ASSUME IInv, NEW t \in Tickets, BoardPassenger(t)
  PROVE  IInv'
  <1>1. TypeOK'
    BY DEF IInv, BoardPassenger, SetRecord, SetTicket, TypeOK, TicketStatus,
           RecordStatus
  <1>2. ActiveIsOne'
    BY DEF IInv, BoardPassenger, SetTicket, TypeOK, ActiveIsOne, Active
  <1>3. RecordIsOne'
    BY DEF IInv, BoardPassenger, SetRecord, TypeOK, RecordIsOne
  <1>4. ClosingStaysTrue'
    BY DEF BoardPassenger, Admitting, ClosingStaysTrue
  <1> QED
    BY <1>1, <1>2, <1>3, <1>4 DEF IInv

-----------------------------------------------------------------------------
(* The trip *)

LEMMA TransitionTripStep ==
  ASSUME IInv, TransitionTrip
  PROVE  IInv'
  <1>1. trip' \in {"boarding", "departed", "in_progress", "arrived"}
    BY DEF TransitionTrip, Following
  <1>2. TypeOK'
    BY <1>1 DEF IInv, TransitionTrip, TypeOK, TripStatus, Following
  <1>3. ActiveIsOne' /\ RecordIsOne' /\ ClosingStaysTrue'
    BY <1>1 DEF IInv, TransitionTrip, ActiveIsOne, RecordIsOne, ClosingStaysTrue
  <1> QED
    BY <1>2, <1>3 DEF IInv

LEMMA EditTripStep ==
  ASSUME IInv, EditTrip
  PROVE  IInv'
  <1>1. trip' \in TripStatus \ {"closed"}
    BY DEF IInv, EditTrip, TypeOK
  <1>2. TypeOK'
    BY <1>1 DEF IInv, EditTrip, TypeOK
  <1>3. ActiveIsOne' /\ RecordIsOne' /\ ClosingStaysTrue'
    BY <1>1 DEF IInv, EditTrip, ActiveIsOne, RecordIsOne, ClosingStaysTrue
  <1> QED
    BY <1>2, <1>3 DEF IInv

LEMMA CloseTripStep ==
  ASSUME IInv, CloseTrip
  PROVE  IInv'
  <1>1. closing' \subseteq Closing
    <2>1. /\ Cardinality({t \in Tickets : ticket[t] \notin {"none", "cancelled"}})
               \in 0..Cardinality(Tickets)
          /\ Cardinality(Boarded) \in 0..Cardinality(Tickets)
      BY CountsInRange DEF Boarded
    <2> QED
      BY <2>1 DEF CloseTrip, Closing
  <1>2. TypeOK'
    BY <1>1 DEF IInv, CloseTrip, TypeOK, TripStatus
  <1>3. ActiveIsOne' /\ RecordIsOne'
    BY DEF IInv, CloseTrip, ActiveIsOne, RecordIsOne
  <1>4. Boarded' = Boarded
    BY DEF CloseTrip, Boarded
  <1>5. ClosingStaysTrue'
    BY <1>4 DEF CloseTrip, ClosingStaysTrue
  <1> QED
    BY <1>2, <1>3, <1>5 DEF IInv

-----------------------------------------------------------------------------
LEMMA NextIInv ==
  ASSUME IInv, [Next]_vars
  PROVE  IInv'
  <1>1. CASE UNCHANGED vars
    BY <1>1 DEF vars, IInv, TypeOK, ActiveIsOne, RecordIsOne, ClosingStaysTrue,
                Boarded
  <1>2. ASSUME NEW t \in Tickets, TicketStep(t)
        PROVE  IInv'
    BY <1>2, IssueTicketStep, ReissueTicketStep, OpenRefundStep,
       CompleteRefundStep, ValidateBoardingStep, BoardPassengerStep
    DEF TicketStep
  <1>3. ASSUME NEW w \in Workers, GateStep(w)
        PROVE  IInv'
    BY <1>3, ViewReadStep, ViewWriteStep, ViewFailsStep DEF GateStep
  <1>4. CASE Next
    BY <1>2, <1>3, <1>4, CancelBookingStep, TransitionTripStep, EditTripStep,
       CloseTripStep
    DEF Next
  <1> QED
    BY <1>1, <1>4

LEMMA Invariance == Spec => []IInv
  <1>1. Init => IInv
    BY InitIInv
  <1>2. IInv /\ [Next]_vars => IInv'
    BY NextIInv
  <1> QED
    BY <1>1, <1>2, PTL DEF Spec

(* Type correctness, for any finite set of tickets and any gate workers. *)
THEOREM TypeCorrect == Spec => []TypeOK
  <1>1. IInv => TypeOK
    BY DEF IInv
  <1> QED
    BY <1>1, Invariance, PTL

(* A traveller never has two active tickets for one entitlement. *)
THEOREM TicketsAreUnique == Spec => []OneActiveTicket
  <1>1. IInv => OneActiveTicket
    BY OneAtMost DEF IInv, ActiveIsOne, OneActiveTicket
  <1> QED
    BY <1>1, Invariance, PTL

(* A traveller boards a trip once, whatever tickets replace each other. *)
THEOREM TravellersBoardOnce == Spec => []BoardsOnce
  <1>1. IInv => BoardsOnce
    BY OneAtMost DEF IInv, RecordIsOne, BoardsOnce, Boarded
  <1> QED
    BY <1>1, Invariance, PTL

(* While a trip is closed the boarded count of its closing is true, and    *)
(* nobody is left validated and not boarded.                               *)
THEOREM ClosingsStayTrue == Spec => []ClosingStaysTrue
  <1>1. IInv => ClosingStaysTrue
    BY DEF IInv
  <1> QED
    BY <1>1, Invariance, PTL

(* Nobody comes aboard on a ticket while another one is active. *)
THEOREM ReplacedTicketsStayOut == Spec => ReplacedTicketStaysOut
  <1> DEFINE A == \A t \in Tickets :
                    (record[t] # "boarded" /\ record'[t] = "boarded")
                      => OthersActive(t) = {}
  <1>1. IInv /\ [Next]_vars => [A]_vars
    <2> SUFFICES ASSUME IInv, Next, NEW t \in Tickets,
                        record[t] # "boarded", record'[t] = "boarded"
                 PROVE  OthersActive(t) = {}
      OBVIOUS
    <2>1. BoardPassenger(t)
      <3>1. record' # record
        OBVIOUS
      <3>2. PICK u \in Tickets : ValidateBoarding(u) \/ BoardPassenger(u)
        BY <3>1 DEF Next, TicketStep, GateStep, IssueTicket, OpenRefund,
                    CompleteRefund, ReissueTicket, ViewRead, ViewWrite,
                    ViewFails, CancelBooking, TransitionTrip, EditTrip, CloseTrip
      <3> QED
        BY <3>2 DEF ValidateBoarding, BoardPassenger, SetRecord, IInv, TypeOK
    <2>2. ticket[t] \in Active
      BY <2>1 DEF BoardPassenger, Active
    <2> QED
      BY <2>2 DEF IInv, ActiveIsOne, OthersActive
  <1> QED
    BY <1>1, Invariance, PTL DEF Spec, ReplacedTicketStaysOut
==============================================================================
