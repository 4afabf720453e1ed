---------------------------- MODULE TicketBoarding ----------------------------
(***************************************************************************)
(* The tickets of ONE booked traveller, from issue to boarding, and the    *)
(* closing of the trip (backend/apps/ticketing, boarding and operations).  *)
(* The services lock the rows they decide on, so each is one step.  The    *)
(* gate's TicketValidateActionView runs outside a transaction: it reads    *)
(* the ticket in one step of its worker and writes it in another.          *)
(***************************************************************************)
EXTENDS Integers, FiniteSets

CONSTANTS Tickets,   \* ticket rows of the booking passenger
          Workers    \* request handlers of the gate's validate view

ASSUME TicketsAssumption == IsFiniteSet(Tickets)

VARIABLES trip,      \* status of the trip
          past,      \* statuses an edit may have read: those the trip has had
          entitled,  \* the booking is CONFIRMED and so is its payment
          ticket,    \* status of each ticket
          record,    \* status of the boarding record of each ticket
          refund,    \* the refund of each ticket
          closing,   \* the TripClosing row, if there is one
          tx         \* what each worker is doing

vars == <<trip, past, entitled, ticket, record, refund, closing, tx>>

-----------------------------------------------------------------------------
(* TRANSITIONS of the trip; nothing in the code sets DELAYED. *)
Following == [ready |-> "boarding", boarding |-> "departed",
              departed |-> "in_progress", in_progress |-> "arrived"]
TripStatus == DOMAIN Following \cup {"arrived", "closed"}

(* Terminal boarding while BOARDING, roadside boarding on the way. *)
Admitting == {"boarding", "departed", "in_progress"}

TicketStatus == {"none", "issued", "validated", "boarded", "cancelled",
                 "reissued"}
Active == {"issued", "validated", "boarded"}
RecordStatus == {"none", "validated", "boarded"}
RefundStatus == {"none", "open", "completed"}

Closing == [passengers : 0..Cardinality(Tickets),
            boarded : 0..Cardinality(Tickets)]

Idle == [op |-> "idle"]
ViewTx == [op : {"validate"}, ticket : Tickets]

TypeOK ==
  /\ trip \in TripStatus
  /\ past \subseteq TripStatus \ {"closed"}
  /\ entitled \in BOOLEAN
  /\ ticket \in [Tickets -> TicketStatus]
  /\ record \in [Tickets -> RecordStatus]
  /\ refund \in [Tickets -> RefundStatus]
  /\ closing \subseteq Closing
  /\ tx \in [Workers -> ViewTx \cup {Idle}]

Init ==
  /\ trip = "ready"
  /\ past = {"ready"}
  /\ entitled = TRUE
  /\ ticket = [t \in Tickets |-> "none"]
  /\ record = [t \in Tickets |-> "none"]
  /\ refund = [t \in Tickets |-> "none"]
  /\ closing = {}
  /\ tx = [w \in Workers |-> Idle]

-----------------------------------------------------------------------------
SetTicket(t, s) == ticket' = [ticket EXCEPT ![t] = s]
SetRecord(t, s) == record' = [record EXCEPT ![t] = s]
Become(w, x) == tx' = [tx EXCEPT ![w] = x]

OthersActive(t) == {u \in Tickets \ {t} : ticket[u] \in Active}
Boarded == {t \in Tickets : record[t] = "boarded"}

-----------------------------------------------------------------------------
(* Tickets *)

(* issue_ticket *)
IssueTicket(t) ==
  /\ entitled
  /\ ticket[t] = "none"
  /\ OthersActive(t) = {}
  /\ SetTicket(t, "issued")
  /\ UNCHANGED <<trip, past, entitled, record, refund, closing, tx>>

(* reissue_ticket: t is revoked and u replaces it. *)
ReissueTicket(t, u) ==
  /\ ticket[t] \in {"issued", "validated"}
  /\ ticket[u] = "none"
  /\ ticket' = [ticket EXCEPT ![t] = "reissued", ![u] = "issued"]
  /\ UNCHANGED <<trip, past, entitled, record, refund, closing, tx>>

(* request_refund, decide_refund and mark_refund_paid; a refund that is    *)
(* refused leaves no trace here.                                           *)
OpenRefund(t) ==
  /\ ticket[t] \notin {"none", "boarded"}
  /\ refund[t] = "none"
  /\ refund' = [refund EXCEPT ![t] = "open"]
  /\ UNCHANGED <<trip, past, entitled, ticket, record, closing, tx>>

(* complete_refund saves the ticket as CANCELLED whatever it has become,   *)
(* and leaves the boarding record alone; the payment stays CONFIRMED when  *)
(* only part of it went back.                                              *)
CompleteRefund(t) ==
  /\ refund[t] = "open"
  /\ refund' = [refund EXCEPT ![t] = "completed"]
  /\ SetTicket(t, "cancelled")
  /\ entitled' \in {entitled, FALSE}
  /\ UNCHANGED <<trip, past, record, closing, tx>>

(* cancel_booking *)
CancelBooking ==
  /\ entitled
  /\ \A t \in Tickets : ticket[t] \notin Active
  /\ entitled' = FALSE
  /\ UNCHANGED <<trip, past, ticket, record, refund, closing, tx>>

-----------------------------------------------------------------------------
(* The gate's view, which the app's ticket scanner calls *)

ViewRead(w, t) ==
  /\ tx[w] = Idle
  /\ ticket[t] = "issued"
  /\ Become(w, [op |-> "validate", ticket |-> t])
  /\ UNCHANGED <<trip, past, entitled, ticket, record, refund, closing>>

(* Mutant: the unique index on active tickets is gone. *)
ViewWriteUnindexed(w) ==
  /\ tx[w].op = "validate"
  /\ SetTicket(tx[w].ticket, "validated")
  /\ Become(w, Idle)
  /\ UNCHANGED <<trip, past, entitled, record, refund, closing>>

(* Whatever the ticket has become it is VALIDATED now, unless the unique   *)
(* index finds another active ticket of the traveller.                     *)
ViewWrite(w) ==
  /\ tx[w].op = "validate"
  /\ OthersActive(tx[w].ticket) = {}
  /\ SetTicket(tx[w].ticket, "validated")
  /\ Become(w, Idle)
  /\ UNCHANGED <<trip, past, entitled, record, refund, closing>>

(* The index refuses the write, or the worker dies before it. *)
ViewFails(w) ==
  /\ tx[w] # Idle
  /\ Become(w, Idle)
  /\ UNCHANGED <<trip, past, entitled, ticket, record, refund, closing>>

-----------------------------------------------------------------------------
(* Boarding *)

(* Mutant: the index on (trip, passenger) is gone. *)
ValidateEachTicket(t) ==
  /\ trip \in Admitting
  /\ ticket[t] = "issued"
  /\ record[t] = "none"
  /\ SetRecord(t, "validated")
  /\ SetTicket(t, "validated")
  /\ UNCHANGED <<trip, past, entitled, refund, closing, tx>>

(* Mutant: roadside travellers are admitted at the last stop too. *)
ValidateOnArrival(t) ==
  /\ trip \notin {"ready"}
  /\ ticket[t] = "issued"
  /\ \A u \in Tickets : record[u] = "none"
  /\ SetRecord(t, "validated")
  /\ SetTicket(t, "validated")
  /\ UNCHANGED <<trip, past, entitled, refund, closing, tx>>

(* validate_boarding locks the trip and the ticket; one ticket has one     *)
(* record, and a traveller one VALIDATED or BOARDED record on the trip.    *)
ValidateBoarding(t) ==
  /\ trip \in Admitting
  /\ ticket[t] = "issued"
  /\ \A u \in Tickets : record[u] = "none"
  /\ SetRecord(t, "validated")
  /\ SetTicket(t, "validated")
  /\ UNCHANGED <<trip, past, entitled, refund, closing, tx>>

(* Mutant: the state of the ticket is not looked at. *)
BoardOnRecord(t) ==
  /\ trip \in Admitting
  /\ record[t] = "validated"
  /\ SetRecord(t, "boarded")
  /\ SetTicket(t, "boarded")
  /\ UNCHANGED <<trip, past, entitled, refund, closing, tx>>

(* board_passenger locks the record, its ticket and the trip. *)
BoardPassenger(t) ==
  /\ trip \in Admitting
  /\ record[t] = "validated"
  /\ ticket[t] = "validated"
  /\ SetRecord(t, "boarded")
  /\ SetTicket(t, "boarded")
  /\ UNCHANGED <<trip, past, entitled, refund, closing, tx>>

-----------------------------------------------------------------------------
(* The trip *)

TransitionTrip ==
  /\ trip \in DOMAIN Following
  /\ trip' = Following[trip]
  /\ past' = past \cup {Following[trip]}
  /\ UNCHANGED <<entitled, ticket, record, refund, closing, tx>>

(* TripDetailView saves every column of a row it read without a lock, a    *)
(* closed one being refused: an earlier status comes back with it.         *)
EditTrip ==
  /\ trip' \in past
  /\ UNCHANGED <<past, entitled, ticket, record, refund, closing, tx>>

(* close_trip locks the trip; the counts are stored with the closing, of   *)
(* which a trip has one.                                                   *)
CloseTrip ==
  /\ trip = "arrived"
  /\ closing = {}
  /\ \A t \in Tickets : record[t] # "validated"
  /\ trip' = "closed"
  /\ closing' = {[passengers |-> Cardinality({t \in Tickets :
                                    ticket[t] \notin {"none", "cancelled"}}),
                  boarded |-> Cardinality(Boarded)]}
  /\ UNCHANGED <<past, entitled, ticket, record, refund, tx>>

-----------------------------------------------------------------------------
TicketStep(t) ==
  \/ IssueTicket(t) \/ OpenRefund(t) \/ CompleteRefund(t)
  \/ \E u \in Tickets : ReissueTicket(t, u)
  \/ ValidateBoarding(t) \/ BoardPassenger(t)

GateStep(w) == (\E t \in Tickets : ViewRead(w, t)) \/ ViewWrite(w) \/ ViewFails(w)

Next ==
  \/ \E t \in Tickets : TicketStep(t)
  \/ \E w \in Workers : GateStep(w)
  \/ CancelBooking \/ TransitionTrip \/ EditTrip \/ CloseTrip

Spec == Init /\ [][Next]_vars

-----------------------------------------------------------------------------
(* Properties *)

(* "Duplicate active tickets MUST NOT exist for the same travel            *)
(* entitlement", whatever issue, reissue, refunds and the gate's stale     *)
(* writes do between them.                                                 *)
OneActiveTicket == Cardinality({t \in Tickets : ticket[t] \in Active}) <= 1

(* "A passenger MUST NOT board the same trip more than once": a traveller  *)
(* who boarded on one ticket and got another, after a refund, stays out.   *)
BoardsOnce == Cardinality(Boarded) <= 1

(* "Trip closing MUST finalize operational statistics": so long as the     *)
(* trip stays closed the boarded count of its closing is true and nobody   *)
(* is left between gate and seat.  Only a save of TripDetailView, from a   *)
(* row read before the closing, opens the trip to boarding again.          *)
ClosingStaysTrue ==
  trip = "closed" => /\ \E c \in closing : c.boarded = Cardinality(Boarded)
                     /\ \A t \in Tickets : record[t] # "validated"

(* A replaced ticket does not bring its traveller aboard while the         *)
(* replacement is out: boarding takes the one ticket that is active.       *)
ReplacedTicketStaysOut ==
  [][\A t \in Tickets : (record[t] # "boarded" /\ record'[t] = "boarded")
                          => OthersActive(t) = {}]_vars
==============================================================================
