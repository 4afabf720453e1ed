---------------------------- MODULE BookingPayment ----------------------------
(***************************************************************************)
(* The payments of ONE booking with one traveller: recording, the decision *)
(* of the company, the payment provider's webhook and its reconciliation,  *)
(* and refunds (backend/apps/payments).  A service function that locks the *)
(* payment is one step.  decide_refund and complete_refund lock only the   *)
(* refund, so what they read of the payment can be stale when they write:  *)
(* each is a read and a write of its worker.                               *)
(***************************************************************************)
EXTENDS Integers, FiniteSets

CONSTANTS Payments,   \* payment records made for the booking
          Refunds,    \* refund requests that can be made
          Workers,    \* request handlers that decide or complete refunds
          Price,      \* the amount of each payment record
          Events,     \* event_ids of the provider
          NoPayment   \* the booking has no authorization reference

ASSUME RefundsAssumption == IsFiniteSet(Refunds)
ASSUME PriceAssumption == Price \in Nat \ {0}
ASSUME NoPaymentAssumption == NoPayment \notin Payments

VARIABLES booking,    \* status of the booking
          reference,  \* booking.authorization_reference
          ticket,     \* the traveller's latest ticket
          payment,    \* status of each payment record
          intent,     \* status of the provider's intent for each payment
          events,     \* webhook events already processed
          refund,     \* the refund requests
          tx          \* what each worker is doing

vars == <<booking, reference, ticket, payment, intent, events, refund, tx>>

-----------------------------------------------------------------------------
BookingStatus == {"reserved", "confirmed", "cancelled", "expired"}
TicketStatus == {"none", "issued", "boarded", "cancelled"}
ActiveTicket == {"issued", "boarded"}

(* RECORDED and SUBMITTED are treated alike: both await a decision. *)
PaymentStatus == {"none", "awaiting", "confirmed", "rejected", "refunded"}
Kept == {"confirmed", "refunded"}

ProviderStatus == {"succeeded", "failed", "pending"}
IntentStatus == ProviderStatus \cup {"none"}

RefundStatus == {"none", "requested", "approved", "rejected", "paid",
                 "completed"}
Allocating == {"approved", "paid", "completed"}
RefundRow == [status : RefundStatus, payment : Payments \cup {NoPayment},
              ticketed : BOOLEAN, requested : 0..Price, approved : 0..Price]
NoRefund == [status |-> "none", payment |-> NoPayment, ticketed |-> FALSE,
             requested |-> 0, approved |-> 0]

Idle == [op |-> "idle"]
ApproveTx == [op : {"approve"}, refund : Refunds, amount : 1..Price]
CompleteTx == [op : {"complete"}, refund : Refunds, seen : PaymentStatus]

TypeOK ==
  /\ booking \in BookingStatus
  /\ reference \in Payments \cup {NoPayment}
  /\ ticket \in TicketStatus
  /\ payment \in [Payments -> PaymentStatus]
  /\ intent \in [Payments -> IntentStatus]
  /\ events \subseteq Events
  /\ refund \in [Refunds -> RefundRow]
  /\ tx \in [Workers -> ApproveTx \cup CompleteTx \cup {Idle}]

Init ==
  /\ booking = "reserved"
  /\ reference = NoPayment
  /\ ticket = "none"
  /\ payment = [p \in Payments |-> "none"]
  /\ intent = [p \in Payments |-> "none"]
  /\ events = {}
  /\ refund = [f \in Refunds |-> NoRefund]
  /\ tx = [w \in Workers |-> Idle]

-----------------------------------------------------------------------------
Become(w, t) == tx' = [tx EXCEPT ![w] = t]

(* The sum of the amounts of S, as the number of their units: each unit is *)
(* a pair of whose it is and which one it is.                              *)
Total(amount, S) == Cardinality(UNION {{x} \X (1..amount[x]) : x \in S})

Approved == [f \in Refunds |-> refund[f].approved]

AllocatedTo(p) ==
  {f \in Refunds : refund[f].payment = p /\ refund[f].status \in Allocating}

Allocated(p) == Total(Approved, AllocatedTo(p))

(* Mutant: refunds that are paid out no longer count. *)
BalanceForgetsPaid(p, s) ==
  (IF s \in Kept THEN Price ELSE 0)
    - Total(Approved, {f \in AllocatedTo(p) : refund[f].status = "approved"})

(* _confirmed_refundable_balance of a payment p last seen in status s. *)
Balance(p, s) == (IF s \in Kept THEN Price ELSE 0) - Allocated(p)

(* No worker holds the row lock of the refund. *)
Unlocked(f) == f \notin {tx[w].refund : w \in {v \in Workers : tx[v] # Idle}}

-----------------------------------------------------------------------------
(* create_payment does not ask what became of the booking. *)
CreatePayment(p) ==
  /\ payment[p] = "none"
  /\ payment' = [payment EXCEPT ![p] = "awaiting"]
  /\ UNCHANGED <<booking, reference, ticket, intent, events, refund, tx>>

(* Mutant: a booking that can no longer be confirmed is passed over. *)
ApproveAnyway(p) ==
  /\ payment[p] = "awaiting"
  /\ payment' = [payment EXCEPT ![p] = "confirmed"]
  /\ IF booking = "reserved"
     THEN booking' = "confirmed" /\ reference' = p /\ ticket' = "issued"
     ELSE UNCHANGED <<booking, reference, ticket>>
  /\ UNCHANGED <<intent, events, refund, tx>>

(* decide_payment, approving: one transaction confirms the payment and the *)
(* booking and issues the ticket; it rolls back unless the booking is      *)
(* RESERVED.                                                               *)
ApprovePayment(p) ==
  /\ payment[p] = "awaiting"
  /\ booking = "reserved"
  /\ payment' = [payment EXCEPT ![p] = "confirmed"]
  /\ booking' = "confirmed"
  /\ reference' = p
  /\ ticket' = "issued"
  /\ UNCHANGED <<intent, events, refund, tx>>

RejectPayment(p) ==
  /\ payment[p] = "awaiting"
  /\ payment' = [payment EXCEPT ![p] = "rejected"]
  /\ UNCHANGED <<booking, reference, ticket, intent, events, refund, tx>>

CancelBooking ==
  /\ booking \in {"reserved", "confirmed"}
  /\ ticket \notin ActiveTicket
  /\ booking' = "cancelled"
  /\ UNCHANGED <<reference, ticket, payment, intent, events, refund, tx>>

(* expire_booking, past the deadline. *)
ExpireBooking ==
  /\ booking = "reserved"
  /\ \A p \in Payments : payment[p] # "confirmed"
  /\ booking' = "expired"
  /\ UNCHANGED <<reference, ticket, payment, intent, events, refund, tx>>

(* issue_ticket on its own request. *)
IssueTicket ==
  /\ booking = "confirmed"
  /\ reference # NoPayment
  /\ payment[reference] = "confirmed"
  /\ ticket \notin ActiveTicket
  /\ ticket' = "issued"
  /\ UNCHANGED <<booking, reference, payment, intent, events, refund, tx>>

BoardTicket ==
  /\ ticket = "issued"
  /\ ticket' = "boarded"
  /\ UNCHANGED <<booking, reference, payment, intent, events, refund, tx>>

-----------------------------------------------------------------------------
(* The provider *)

InitiateIntent(p) ==
  /\ payment[p] # "none"
  /\ intent[p] = "none"
  /\ intent' = [intent EXCEPT ![p] = "pending"]
  /\ UNCHANGED <<booking, reference, ticket, payment, events, refund, tx>>

(* The provider's answer s for payment p; success puts the record back to  *)
(* SUBMITTED whatever its status.  "pending" stands for PENDING and        *)
(* REQUIRES_RECONCILIATION.                                                *)
ProviderSays(p, s) ==
  /\ intent' = [intent EXCEPT ![p] = s]
  /\ payment' = IF s = "succeeded"
                THEN [payment EXCEPT ![p] = "awaiting"] ELSE payment

(* Events arrive late and in any order.  An event_id counts once, but the  *)
(* provider may say the same again under another one.                      *)
Webhook(e, p, s) ==
  /\ intent[p] # "none"
  /\ e \notin events
  /\ events' = events \cup {e}
  /\ ProviderSays(p, s)
  /\ UNCHANGED <<booking, reference, ticket, refund, tx>>

(* reconcile_payment_intent asks the adapter about an open intent. *)
Reconcile(p, s) ==
  /\ intent[p] = "pending"
  /\ ProviderSays(p, s)
  /\ UNCHANGED <<booking, reference, ticket, events, refund, tx>>

-----------------------------------------------------------------------------
(* Refunds *)

RequestRefund(f, p, a, t) ==
  /\ refund[f].status = "none"
  /\ payment[p] \in Kept
  /\ a <= Balance(p, payment[p])
  /\ t => ticket \in {"issued", "cancelled"}
  /\ refund' = [refund EXCEPT ![f] = [status |-> "requested", payment |-> p,
                  ticketed |-> t, requested |-> a, approved |-> 0]]
  /\ UNCHANGED <<booking, reference, ticket, payment, intent, events, tx>>

(* decide_refund locks the refund and finds the balance sufficient. *)
ApproveRead(w, f, a) ==
  LET p == refund[f].payment
  IN /\ tx[w] = Idle
     /\ refund[f].status = "requested"
     /\ Unlocked(f)
     /\ a <= refund[f].requested
     /\ a <= Balance(p, payment[p])
     /\ Become(w, [op |-> "approve", refund |-> f, amount |-> a])
     /\ UNCHANGED <<booking, reference, ticket, payment, intent, events, refund>>

ApproveWrite(w) ==
  /\ tx[w].op = "approve"
  /\ refund' = [refund EXCEPT ![tx[w].refund].status = "approved",
                              ![tx[w].refund].approved = tx[w].amount]
  /\ Become(w, Idle)
  /\ UNCHANGED <<booking, reference, ticket, payment, intent, events>>

(* Mutant: a refund may be rejected after it was approved. *)
RejectAnyRefund(f) ==
  /\ refund[f].status \in {"requested", "approved"}
  /\ Unlocked(f)
  /\ refund' = [refund EXCEPT ![f].status = "rejected"]
  /\ UNCHANGED <<booking, reference, ticket, payment, intent, events, tx>>

RejectRefund(f) ==
  /\ refund[f].status = "requested"
  /\ Unlocked(f)
  /\ refund' = [refund EXCEPT ![f].status = "rejected"]
  /\ UNCHANGED <<booking, reference, ticket, payment, intent, events, tx>>

MarkRefundPaid(f) ==
  /\ refund[f].status = "approved"
  /\ refund' = [refund EXCEPT ![f].status = "paid"]
  /\ UNCHANGED <<booking, reference, ticket, payment, intent, events, tx>>

CompleteRead(w, f) ==
  /\ tx[w] = Idle
  /\ refund[f].status = "paid"
  /\ Unlocked(f)
  /\ Become(w, [op |-> "complete", refund |-> f,
                seen |-> payment[refund[f].payment]])
  /\ UNCHANGED <<booking, reference, ticket, payment, intent, events, refund>>

(* Mutant: any completed refund makes the payment REFUNDED. *)
CompleteAlways(w) ==
  LET f == tx[w].refund
  IN /\ tx[w].op = "complete"
     /\ refund' = [refund EXCEPT ![f].status = "completed"]
     /\ ticket' = IF refund[f].ticketed THEN "cancelled" ELSE ticket
     /\ payment' = [payment EXCEPT ![refund[f].payment] = "refunded"]
     /\ Become(w, Idle)
     /\ UNCHANGED <<booking, reference, intent, events>>

(* The whole ticket row is saved as CANCELLED; the payment is REFUNDED     *)
(* once nothing of it remains.                                             *)
CompleteWrite(w) ==
  LET f == tx[w].refund
      p == refund[f].payment
  IN /\ tx[w].op = "complete"
     /\ refund' = [refund EXCEPT ![f].status = "completed"]
     /\ ticket' = IF refund[f].ticketed THEN "cancelled" ELSE ticket
     /\ payment' = IF Balance(p, tx[w].seen) = 0
                   THEN [payment EXCEPT ![p] = "refunded"] ELSE payment
     /\ Become(w, Idle)
     /\ UNCHANGED <<booking, reference, intent, events>>

(* A worker dies and its transaction rolls back. *)
Crash(w) ==
  /\ tx[w] # Idle
  /\ Become(w, Idle)
  /\ UNCHANGED <<booking, reference, ticket, payment, intent, events, refund>>

-----------------------------------------------------------------------------
PaymentStep(p) ==
  \/ CreatePayment(p) \/ ApprovePayment(p) \/ RejectPayment(p)
  \/ InitiateIntent(p)
  \/ \E s \in ProviderStatus :
       Reconcile(p, s) \/ \E e \in Events : Webhook(e, p, s)

RefundStep(f) ==
  \/ \E p \in Payments, a \in 1..Price, t \in BOOLEAN : RequestRefund(f, p, a, t)
  \/ RejectRefund(f) \/ MarkRefundPaid(f)

WorkerStep(w) ==
  \/ \E f \in Refunds : CompleteRead(w, f) \/ \E a \in 1..Price : ApproveRead(w, f, a)
  \/ ApproveWrite(w) \/ CompleteWrite(w) \/ Crash(w)

Next ==
  \/ \E p \in Payments : PaymentStep(p)
  \/ \E f \in Refunds : RefundStep(f)
  \/ \E w \in Workers : WorkerStep(w)
  \/ CancelBooking \/ ExpireBooking \/ IssueTicket \/ BoardTicket

Spec == Init /\ [][Next]_vars

-----------------------------------------------------------------------------
(* Properties *)

(* Money that was accepted bought the booking: a payment the company keeps *)
(* is the one its booking was confirmed with, so no customer pays twice    *)
(* and none pays for a booking that was cancelled or had expired.          *)
MoneyBuysBooking ==
  \A p \in Payments : payment[p] \in Kept =>
    reference = p /\ booking \in {"confirmed", "cancelled"}

(* "Refund exceeds the confirmed refundable balance" (the refusal of       *)
(* decide_refund): the refunds approved for a payment never add up to more *)
(* than the customer paid.                                                 *)
RefundsWithinPayment == \A p \in Payments : Allocated(p) <= Price

(* Of a payment shown as REFUNDED nothing is left to refund: all of it is  *)
(* approved, paid out or completed, though complete_refund takes what is   *)
(* left from a payment row it has not locked.  It need not have gone back  *)
(* yet, for an approved refund that is not paid counts as well.            *)
RefundedMeansNothingLeft ==
  \A p \in Payments : payment[p] = "refunded" => Allocated(p) = Price

-----------------------------------------------------------------------------
(* BookingPayment implements BookingAccount.  What is promised back of a   *)
(* payment is what its refunds allocate, paid out or not.                  *)
Stage == CASE booking = "reserved" -> "open"
           [] booking = "confirmed" -> "bought"
           [] booking \in {"cancelled", "expired"} -> "ended"

Account == INSTANCE BookingAccount
  WITH stage <- Stage, buyer <- reference,
       promised <- [p \in Payments |-> Allocated(p)]

(* The booking is bought once, while it is open, and money is promised     *)
(* back in steps that add up to no more than the price: no approval of a   *)
(* refund is taken back, and nothing else promises money.                  *)
ImplementsAccount == Account!Spec
==============================================================================
