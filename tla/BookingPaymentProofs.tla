------------------------- MODULE BookingPaymentProofs -------------------------
(***************************************************************************)
(* Proofs about BookingPayment for any number of payments, refunds and     *)
(* workers and any price.  Accepted money bought the booking, and stays    *)
(* with it: what the company keeps, and every refund, belongs to the one   *)
(* payment the booking was confirmed with.  Refunds stay within their      *)
(* payment as long as no two of one payment are decided at once.           *)
(***************************************************************************)
EXTENDS BookingPayment, FiniteSetTheorems, TLAPS

(* The booking was confirmed with p, and may have been cancelled since. *)
Bought(p) == reference = p /\ booking \in {"confirmed", "cancelled"}

(* A refund is made of the payment that bought the booking. *)
RefundsAreBought ==
  \A f \in Refunds : refund[f].status # "none" =>
    refund[f].payment \in Payments /\ Bought(refund[f].payment)

(* A worker approves or completes a refund that was requested. *)
WorkIsOnRefunds ==
  \A w \in Workers : tx[w] # Idle => refund[tx[w].refund].status # "none"

IInv ==
  /\ TypeOK
  /\ MoneyBuysBooking
  /\ RefundsAreBought
  /\ WorkIsOnRefunds

-----------------------------------------------------------------------------
LEMMA TxCases ==
  ASSUME TypeOK, NEW w \in Workers
  PROVE  /\ tx[w].op = "approve" =>
              tx[w].refund \in Refunds /\ tx[w].amount \in 1..Price
         /\ tx[w].op = "complete" => tx[w].refund \in Refunds
         /\ tx[w].op \in {"approve", "complete"} => tx[w] # Idle
         /\ tx[w] # Idle => tx[w].refund \in Refunds
  BY DEF TypeOK, ApproveTx, CompleteTx, Idle

LEMMA InitIInv ==
  ASSUME Init
  PROVE  IInv
  <1>1. NoRefund \in RefundRow
    BY PriceAssumption DEF NoRefund, RefundRow, RefundStatus
  <1>2. TypeOK
    BY <1>1 DEF Init, TypeOK, BookingStatus, TicketStatus, PaymentStatus,
                IntentStatus
  <1>3. MoneyBuysBooking /\ RefundsAreBought /\ WorkIsOnRefunds
    BY DEF Init, MoneyBuysBooking, Kept, RefundsAreBought, NoRefund,
           WorkIsOnRefunds
  <1> QED
    BY <1>2, <1>3 DEF IInv

-----------------------------------------------------------------------------
(* Payments and the booking *)

LEMMA PaymentStepKeeps ==
  ASSUME IInv, NEW p \in Payments, PaymentStep(p)
  PROVE  IInv'
  <1> USE DEF IInv
  <1>1. CASE CreatePayment(p) \/ RejectPayment(p)
    <2>1. TypeOK'
      BY <1>1 DEF CreatePayment, RejectPayment, TypeOK, PaymentStatus
    <2>2. MoneyBuysBooking'
      BY <1>1 DEF CreatePayment, RejectPayment, TypeOK, MoneyBuysBooking, Kept
    <2>3. RefundsAreBought' /\ WorkIsOnRefunds'
      BY <1>1 DEF CreatePayment, RejectPayment, RefundsAreBought, Bought,
                  WorkIsOnRefunds
    <2> QED
      BY <2>1, <2>2, <2>3
  <1>2. CASE ApprovePayment(p)
    <2>1. TypeOK'
      BY <1>2 DEF ApprovePayment, TypeOK, PaymentStatus, BookingStatus,
                  TicketStatus
    <2>2. \A q \in Payments : payment[q] \notin Kept
      BY <1>2 DEF ApprovePayment, MoneyBuysBooking
    <2>3. MoneyBuysBooking'
      BY <1>2, <2>2 DEF ApprovePayment, TypeOK, MoneyBuysBooking
    <2>4. \A f \in Refunds : refund[f].status = "none"
      BY <1>2 DEF ApprovePayment, RefundsAreBought, Bought
    <2>5. RefundsAreBought' /\ WorkIsOnRefunds'
      BY <1>2, <2>4 DEF ApprovePayment, RefundsAreBought, WorkIsOnRefunds
    <2> QED
      BY <2>1, <2>3, <2>5
  <1>3. CASE InitiateIntent(p)
    BY <1>3 DEF InitiateIntent, TypeOK, IntentStatus, ProviderStatus,
                MoneyBuysBooking, RefundsAreBought, Bought, WorkIsOnRefunds
  <1>4. ASSUME NEW s \in ProviderStatus,
               Reconcile(p, s) \/ \E e \in Events : Webhook(e, p, s)
        PROVE  IInv'
    <2>1. /\ ProviderSays(p, s)
          /\ events' \subseteq events \cup Events
          /\ UNCHANGED <<booking, reference, ticket, refund, tx>>
      BY <1>4 DEF Webhook, Reconcile
    <2>2. TypeOK'
      BY <2>1 DEF ProviderSays, TypeOK, IntentStatus, PaymentStatus
    <2>3. \A q \in Payments : payment'[q] \in Kept => payment[q] \in Kept
      BY <2>1 DEF ProviderSays, TypeOK, Kept
    <2>4. MoneyBuysBooking' /\ RefundsAreBought' /\ WorkIsOnRefunds'
      BY <2>1, <2>3 DEF MoneyBuysBooking, RefundsAreBought, Bought,
                        WorkIsOnRefunds
    <2> QED
      BY <2>2, <2>4
  <1> QED
    BY <1>1, <1>2, <1>3, <1>4 DEF PaymentStep

LEMMA BookingStepKeeps ==
  ASSUME IInv, CancelBooking \/ ExpireBooking \/ IssueTicket \/ BoardTicket
  PROVE  IInv'
  <1> USE DEF IInv
  <1>1. TypeOK'
    BY DEF CancelBooking, ExpireBooking, IssueTicket, BoardTicket, TypeOK,
           BookingStatus, TicketStatus
  <1>2. \A p \in Payments : Bought(p) => Bought(p)'
    BY DEF Bought, CancelBooking, ExpireBooking, IssueTicket, BoardTicket
  <1>3. UNCHANGED <<payment, refund, tx>>
    BY DEF CancelBooking, ExpireBooking, IssueTicket, BoardTicket
  <1>4. MoneyBuysBooking' /\ RefundsAreBought' /\ WorkIsOnRefunds'
    BY <1>2, <1>3 DEF MoneyBuysBooking, RefundsAreBought, Bought, WorkIsOnRefunds
  <1> QED
    BY <1>1, <1>4

-----------------------------------------------------------------------------
(* Refunds: booking and reference stay as they are. *)

LEMMA RefundStepKeeps ==
  ASSUME IInv, NEW f \in Refunds, RefundStep(f)
  PROVE  IInv'
  <1> USE DEF IInv
  <1>1. ASSUME NEW p \in Payments, NEW a \in 1..Price, NEW t \in BOOLEAN,
               RequestRefund(f, p, a, t)
        PROVE  IInv'
    <2> DEFINE row == [status |-> "requested", payment |-> p, ticketed |-> t,
                       requested |-> a, approved |-> 0]
    <2>1. row \in RefundRow /\ row.status = "requested" /\ row.payment = p
      <3>1. a \in 0..Price /\ 0 \in 0..Price
        BY PriceAssumption
      <3>2. row \in RefundRow
        BY <3>1, Zenon DEF RefundRow, RefundStatus
      <3> QED
        BY <3>2
    <2>2. refund' = [refund EXCEPT ![f] = row]
      BY <1>1 DEF RequestRefund
    <2> HIDE DEF row
    <2>3. TypeOK'
      BY <1>1, <2>1, <2>2 DEF RequestRefund, TypeOK
    <2>4. Bought(p) /\ Bought(p)'
      BY <1>1 DEF RequestRefund, MoneyBuysBooking, Bought
    <2>5. MoneyBuysBooking' /\ RefundsAreBought' /\ WorkIsOnRefunds'
      BY <1>1, <2>1, <2>2, <2>4, TxCases
      DEF RequestRefund, MoneyBuysBooking, RefundsAreBought, Bought,
          WorkIsOnRefunds, TypeOK
    <2> QED
      BY <2>3, <2>5
  <1>2. CASE RejectRefund(f) \/ MarkRefundPaid(f)
    <2>1. /\ refund' \in [Refunds -> RefundRow]
          /\ \A g \in Refunds : /\ refund'[g].payment = refund[g].payment
                                /\ refund'[g].status = "none"
                                     <=> refund[g].status = "none"
      BY <1>2 DEF RejectRefund, MarkRefundPaid, TypeOK, RefundRow, RefundStatus
    <2>2. UNCHANGED <<booking, reference, ticket, payment, intent, events, tx>>
      BY <1>2 DEF RejectRefund, MarkRefundPaid
    <2>3. TypeOK' /\ MoneyBuysBooking'
      BY <2>1, <2>2 DEF TypeOK, MoneyBuysBooking
    <2>4. RefundsAreBought' /\ WorkIsOnRefunds'
      BY <2>1, <2>2, TxCases DEF RefundsAreBought, Bought, WorkIsOnRefunds
    <2> QED
      BY <2>3, <2>4
  <1> QED
    BY <1>1, <1>2 DEF RefundStep

LEMMA ReadKeeps ==
  ASSUME IInv, NEW w \in Workers, NEW f \in Refunds,
         CompleteRead(w, f) \/ \E a \in 1..Price : ApproveRead(w, f, a)
  PROVE  IInv'
  <1> USE DEF IInv
  <1>1. UNCHANGED <<booking, reference, ticket, payment, intent, events, refund>>
    BY DEF CompleteRead, ApproveRead
  <1>2. refund[f].status # "none" /\ refund[f].payment \in Payments
    BY DEF CompleteRead, ApproveRead, RefundsAreBought
  <1>3. /\ tx' = [tx EXCEPT ![w] = tx'[w]] /\ tx'[w].refund = f
        /\ tx'[w] \in ApproveTx \cup CompleteTx
    <2>1. ASSUME NEW a \in 1..Price, ApproveRead(w, f, a)
          PROVE  /\ tx' = [tx EXCEPT ![w] = tx'[w]] /\ tx'[w].refund = f
                 /\ tx'[w] \in ApproveTx \cup CompleteTx
      BY <2>1 DEF ApproveRead, Become, ApproveTx, TypeOK
    <2>2. CASE CompleteRead(w, f)
      BY <1>2, <2>2 DEF CompleteRead, Become, CompleteTx, TypeOK
    <2> QED
      BY <2>1, <2>2
  <1>4. TypeOK' /\ MoneyBuysBooking' /\ RefundsAreBought'
    BY <1>1, <1>3 DEF TypeOK, MoneyBuysBooking, RefundsAreBought, Bought
  <1>5. WorkIsOnRefunds'
    BY <1>1, <1>2, <1>3 DEF WorkIsOnRefunds, TypeOK
  <1> QED
    BY <1>4, <1>5

LEMMA WriteKeeps ==
  ASSUME IInv, NEW w \in Workers, ApproveWrite(w) \/ CompleteWrite(w)
  PROVE  IInv'
  <1> USE DEF IInv
  <1> DEFINE f == tx[w].refund
             p == refund[f].payment
  <1>1. /\ f \in Refunds /\ refund[f].status # "none"
        /\ refund[f] \in RefundRow /\ p \in Payments /\ Bought(p)
    BY TxCases DEF ApproveWrite, CompleteWrite, WorkIsOnRefunds,
                   RefundsAreBought, TypeOK
  <1>2. \A v \in Workers : tx'[v] # Idle => tx'[v] = tx[v]
    BY DEF ApproveWrite, CompleteWrite, Become, TypeOK
  <1>3. tx' \in [Workers -> ApproveTx \cup CompleteTx \cup {Idle}]
    BY DEF ApproveWrite, CompleteWrite, Become, TypeOK
  <1>4. /\ refund' \in [Refunds -> RefundRow]
        /\ \A g \in Refunds : /\ refund'[g].payment = refund[g].payment
                              /\ refund[g].status # "none"
                                   => refund'[g].status # "none"
                              /\ refund'[g].status # "none"
                                   => refund[g].status # "none"
    <2>1. CASE ApproveWrite(w)
      <3>1. tx[w].amount \in 0..Price
        BY <2>1, TxCases, PriceAssumption DEF ApproveWrite
      <3> QED
        BY <1>1, <2>1, <3>1 DEF ApproveWrite, TypeOK, RefundRow, RefundStatus
    <2>2. CASE CompleteWrite(w)
      BY <1>1, <2>2 DEF CompleteWrite, TypeOK, RefundRow, RefundStatus
    <2> QED
      BY <2>1, <2>2
  <1>5. /\ payment' \in [Payments -> PaymentStatus]
        /\ \A q \in Payments : payment'[q] = payment[q] \/ q = p
        /\ ticket' \in TicketStatus
        /\ UNCHANGED <<booking, reference, intent, events>>
    BY <1>1 DEF ApproveWrite, CompleteWrite, TypeOK, PaymentStatus, TicketStatus
  <1>6. TypeOK'
    BY <1>3, <1>4, <1>5 DEF TypeOK
  <1>7. MoneyBuysBooking'
    BY <1>1, <1>5 DEF MoneyBuysBooking, Bought
  <1>8. RefundsAreBought' /\ WorkIsOnRefunds'
    BY <1>2, <1>4, <1>5, TxCases DEF RefundsAreBought, Bought, WorkIsOnRefunds
  <1> QED
    BY <1>6, <1>7, <1>8

LEMMA CrashKeeps ==
  ASSUME IInv, NEW w \in Workers, Crash(w)
  PROVE  IInv'
  <1>1. TypeOK'
    BY DEF IInv, Crash, Become, TypeOK
  <1>2. MoneyBuysBooking' /\ RefundsAreBought'
    BY DEF IInv, Crash, MoneyBuysBooking, RefundsAreBought, Bought
  <1>3. WorkIsOnRefunds'
    BY DEF IInv, Crash, Become, WorkIsOnRefunds, TypeOK
  <1> QED
    BY <1>1, <1>2, <1>3 DEF IInv

-----------------------------------------------------------------------------
LEMMA Invariance == Spec => []IInv
  <1>1. Init => IInv
    BY InitIInv
  <1>2. IInv /\ [Next]_vars => IInv'
    <2>1. CASE UNCHANGED vars
      BY <2>1 DEF vars, IInv, TypeOK, MoneyBuysBooking, RefundsAreBought, Bought,
                  WorkIsOnRefunds
    <2>2. ASSUME IInv, Next
          PROVE  IInv'
      BY <2>2, PaymentStepKeeps, BookingStepKeeps, RefundStepKeeps, ReadKeeps,
         WriteKeeps, CrashKeeps DEF Next, WorkerStep
    <2> QED
      BY <2>1, <2>2
  <1> QED
    BY <1>1, <1>2, PTL DEF Spec

(* Type correctness, for any payments, refunds, workers and price. *)
THEOREM TypeCorrect == Spec => []TypeOK
  <1>1. IInv => TypeOK
    BY DEF IInv
  <1> QED
    BY <1>1, Invariance, PTL

(* A payment the company keeps is the one that bought the booking, however *)
(* decisions, provider events, refunds and cancellations mix: nobody pays  *)
(* twice, or for a booking that had been cancelled or had expired.         *)
THEOREM MoneyAlwaysBuys == Spec => []MoneyBuysBooking
  <1>1. IInv => MoneyBuysBooking
    BY DEF IInv
  <1> QED
    BY <1>1, Invariance, PTL

-----------------------------------------------------------------------------
(* Sums of amounts *)

UnitsOf(amount, S) == UNION {{x} \X (1..amount[x]) : x \in S}

(* The units of one more member are new ones. *)
LEMMA UnitsAdd ==
  ASSUME NEW amount, NEW S, NEW x, x \notin S
  PROVE  /\ UnitsOf(amount, S \cup {x}) = UnitsOf(amount, S) \cup ({x} \X (1..amount[x]))
         /\ UnitsOf(amount, S) \cap ({x} \X (1..amount[x])) = {}
  BY DEF UnitsOf

LEMMA UnitsOfOne ==
  ASSUME NEW n \in Nat, NEW x
  PROVE  IsFiniteSet({x} \X (1..n)) /\ Cardinality({x} \X (1..n)) = n
  <1>1. IsFiniteSet({x}) /\ Cardinality({x}) = 1
    BY FS_Singleton
  <1>2. IsFiniteSet(1..n) /\ Cardinality(1..n) = IF 1 > n THEN 0 ELSE n - 1 + 1
    BY FS_Interval
  <1>3. Cardinality(1..n) = n
    BY <1>2
  <1>4. /\ IsFiniteSet({x} \X (1..n))
        /\ Cardinality({x} \X (1..n)) = Cardinality({x}) * Cardinality(1..n)
    BY <1>1, <1>2, FS_Product
  <1> QED
    BY <1>1, <1>3, <1>4

LEMMA UnitsFinite ==
  ASSUME NEW S, IsFiniteSet(S), NEW most \in Nat,
         NEW amount, \A x \in S : amount[x] \in 0..most
  PROVE  IsFiniteSet(UnitsOf(amount, S))
  <1>1. IsFiniteSet(1..most)
    BY FS_Interval
  <1>2. IsFiniteSet(S \X (1..most))
    BY <1>1, FS_Product
  <1>3. UnitsOf(amount, S) \subseteq S \X (1..most)
    BY DEF UnitsOf
  <1> QED
    BY <1>2, <1>3, FS_Subset

LEMMA TotalAdd ==
  ASSUME NEW S, IsFiniteSet(S), NEW x, x \notin S, NEW most \in Nat,
         NEW amount, \A y \in S \cup {x} : amount[y] \in 0..most
  PROVE  Total(amount, S \cup {x}) = Total(amount, S) + amount[x]
  <1> DEFINE old == UnitsOf(amount, S)
             new == {x} \X (1..amount[x])
  <1>1. amount[x] \in Nat
    OBVIOUS
  <1>2. IsFiniteSet(new) /\ Cardinality(new) = amount[x]
    BY <1>1, UnitsOfOne
  <1>3. IsFiniteSet(old)
    BY UnitsFinite
  <1>4. old \cap new = {} /\ UnitsOf(amount, S \cup {x}) = old \cup new
    BY UnitsAdd
  <1>5. Total(amount, S) = Cardinality(old)
    BY DEF Total, UnitsOf
  <1>6. Total(amount, S \cup {x}) = Cardinality(old \cup new)
    BY <1>4 DEF Total, UnitsOf
  <1> HIDE DEF old, new
  <1>7. Cardinality(old \cup new) = Cardinality(old) + Cardinality(new)
    <2>1. Cardinality(old \cap new) = 0
      BY <1>4, FS_EmptySet
    <2>2. Cardinality(old) \in Nat /\ Cardinality(new) \in Nat
      BY <1>2, <1>3, FS_CardinalityType
    <2>3. Cardinality(old \cup new)
            = Cardinality(old) + Cardinality(new) - Cardinality(old \cap new)
      BY <1>2, <1>3, FS_Union
    <2> QED
      BY <2>1, <2>2, <2>3
  <1> QED
    BY <1>2, <1>5, <1>6, <1>7

LEMMA TotalIsNat ==
  ASSUME NEW S, IsFiniteSet(S), NEW most \in Nat,
         NEW amount, \A x \in S : amount[x] \in 0..most
  PROVE  Total(amount, S) \in Nat
  BY UnitsFinite, FS_CardinalityType DEF Total, UnitsOf

LEMMA TotalSame ==
  ASSUME NEW S, NEW amount, NEW other, \A x \in S : amount[x] = other[x]
  PROVE  Total(amount, S) = Total(other, S)
  <1>1. UnitsOf(amount, S) = UnitsOf(other, S)
    BY DEF UnitsOf
  <1> QED
    BY <1>1 DEF Total, UnitsOf

(* A sum is no less than each of its amounts. *)
LEMMA TotalAtLeast ==
  ASSUME NEW S, IsFiniteSet(S), NEW x \in S, NEW most \in Nat,
         NEW amount, \A y \in S : amount[y] \in 0..most
  PROVE  amount[x] <= Total(amount, S)
  <1> DEFINE T == S \ {x}
  <1>1. IsFiniteSet(T) /\ S = T \cup {x} /\ x \notin T
    BY FS_RemoveElement
  <1>2. \A y \in T \cup {x} : amount[y] \in 0..most
    OBVIOUS
  <1> HIDE DEF T
  <1>3. Total(amount, T) \in Nat
    BY <1>1, <1>2, TotalIsNat
  <1>4. Total(amount, T \cup {x}) = Total(amount, T) + amount[x]
    BY <1>1, <1>2, TotalAdd
  <1> QED
    BY <1>1, <1>2, <1>3, <1>4

-----------------------------------------------------------------------------
(* The lock of a refund *)

(* One worker at a time holds the row lock of a refund ... *)
OneLock ==
  \A v, w \in Workers :
    tx[v] # Idle /\ tx[w] # Idle /\ tx[v].refund = tx[w].refund => v = w

(* ... and the refund keeps, until it writes, the status it has read. *)
LockedAsRead ==
  \A w \in Workers :
    /\ tx[w].op = "approve" => refund[tx[w].refund].status = "requested"
    /\ tx[w].op = "complete" => refund[tx[w].refund].status = "paid"

(* A refund that counts is one of a positive amount. *)
AmountsCount ==
  \A f \in Refunds : refund[f].status \in Allocating => refund[f].approved \in 1..Price

LockInv == OneLock /\ LockedAsRead /\ AmountsCount

LEMMA UnlockedMeans ==
  ASSUME NEW f, Unlocked(f), NEW w \in Workers, tx[w] # Idle
  PROVE  tx[w].refund # f
  BY DEF Unlocked

LEMMA TxOps ==
  ASSUME TypeOK, NEW w \in Workers
  PROVE  tx[w] # Idle <=> tx[w].op \in {"approve", "complete"}
  BY DEF TypeOK, ApproveTx, CompleteTx, Idle

LEMMA RefundStepKeepsLock ==
  ASSUME IInv, LockInv, NEW f \in Refunds, RefundStep(f)
  PROVE  LockInv'
  <1> USE DEF IInv, LockInv
  <1>1. UNCHANGED tx
    BY DEF RefundStep, RequestRefund, RejectRefund, MarkRefundPaid
  <1>2. \A w \in Workers : tx[w] # Idle =>
          refund'[tx[w].refund].status = refund[tx[w].refund].status
    <2> SUFFICES ASSUME NEW w \in Workers, tx[w] # Idle
                 PROVE  refund'[tx[w].refund].status = refund[tx[w].refund].status
      OBVIOUS
    <2>1. tx[w].refund # f
      <3>1. refund[tx[w].refund].status \in {"requested", "paid"}
        BY TxOps DEF LockedAsRead
      <3> QED
        BY <3>1, UnlockedMeans
        DEF RefundStep, RequestRefund, RejectRefund, MarkRefundPaid
    <2> QED
      BY <2>1, TxCases
      DEF RefundStep, RequestRefund, RejectRefund, MarkRefundPaid, TypeOK
  <1>3. OneLock' /\ LockedAsRead'
    BY <1>1, <1>2, TxOps DEF OneLock, LockedAsRead
  <1>4. \A g \in Refunds :
          \/ refund'[g] = refund[g]
          \/ refund'[g].status \in {"requested", "rejected"}
          \/ refund[g].status = "approved" /\ refund'[g].approved = refund[g].approved
    BY DEF RefundStep, RequestRefund, RejectRefund, MarkRefundPaid, TypeOK, RefundRow
  <1>5. AmountsCount'
    BY <1>4 DEF AmountsCount, Allocating
  <1> QED
    BY <1>3, <1>5

LEMMA ReadKeepsLock ==
  ASSUME IInv, LockInv, NEW w \in Workers, NEW f \in Refunds,
         CompleteRead(w, f) \/ \E a \in 1..Price : ApproveRead(w, f, a)
  PROVE  LockInv'
  <1> USE DEF IInv, LockInv
  <1>1. UNCHANGED refund /\ Unlocked(f)
    BY DEF CompleteRead, ApproveRead
  <1>2. /\ \A v \in Workers \ {w} : tx'[v] = tx[v]
        /\ tx'[w].refund = f
        /\ \/ tx'[w].op = "approve" /\ refund[f].status = "requested"
           \/ tx'[w].op = "complete" /\ refund[f].status = "paid"
    BY DEF CompleteRead, ApproveRead, Become, TypeOK
  <1>3. OneLock'
    BY <1>1, <1>2, UnlockedMeans DEF OneLock
  <1>4. LockedAsRead' /\ AmountsCount'
    BY <1>1, <1>2 DEF LockedAsRead, AmountsCount
  <1> QED
    BY <1>3, <1>4

LEMMA WriteKeepsLock ==
  ASSUME IInv, LockInv, NEW w \in Workers, ApproveWrite(w) \/ CompleteWrite(w)
  PROVE  LockInv'
  <1> USE DEF IInv, LockInv
  <1>1. tx[w] # Idle /\ tx[w].refund \in Refunds
    BY TxCases DEF ApproveWrite, CompleteWrite
  <1>2. tx' = [tx EXCEPT ![w] = Idle]
    BY DEF ApproveWrite, CompleteWrite, Become
  <1>3. \A v \in Workers : tx'[v].op \in {"approve", "complete"} \/ tx'[v] # Idle
                             => v # w /\ tx'[v] = tx[v]
    BY <1>2 DEF TypeOK, Idle
  <1>4. \A v \in Workers : tx'[v] # Idle => tx[v].refund # tx[w].refund
    BY <1>1, <1>3 DEF OneLock
  <1>5. \A g \in Refunds : g # tx[w].refund => refund'[g] = refund[g]
    BY <1>1 DEF ApproveWrite, CompleteWrite, TypeOK
  <1>6. OneLock'
    BY <1>3 DEF OneLock
  <1>7. LockedAsRead'
    <2> SUFFICES ASSUME NEW v \in Workers, tx'[v].op \in {"approve", "complete"}
                 PROVE  tx'[v] = tx[v] /\ refund'[tx[v].refund] = refund[tx[v].refund]
      BY DEF LockedAsRead
    <2>1. v # w /\ tx'[v] = tx[v] /\ tx[v] # Idle
      BY <1>3 DEF Idle
    <2> QED
      BY <2>1, <1>4, <1>5, TxCases
  <1>8. AmountsCount'
    <2>1. refund'[tx[w].refund].approved \in 1..Price
      <3>1. CASE ApproveWrite(w)
        BY <1>1, <3>1, TxCases DEF ApproveWrite, TypeOK, RefundRow
      <3>2. CASE CompleteWrite(w)
        BY <1>1, <3>2 DEF CompleteWrite, LockedAsRead, AmountsCount, Allocating,
                          TypeOK, RefundRow
      <3> QED
        BY <3>1, <3>2
    <2> QED
      BY <1>5, <2>1 DEF AmountsCount
  <1> QED
    BY <1>6, <1>7, <1>8

LEMMA LockInvariance == Spec => [](IInv /\ LockInv)
  <1>1. Init => LockInv
    BY DEF Init, Idle, NoRefund, LockInv, OneLock, LockedAsRead, AmountsCount, Allocating
  <1>2. IInv /\ LockInv /\ [Next]_vars => LockInv'
    <2>1. CASE UNCHANGED vars
      BY <2>1 DEF vars, LockInv, OneLock, LockedAsRead, AmountsCount
    <2>2. ASSUME IInv, LockInv, UNCHANGED <<refund, tx>>
          PROVE  LockInv'
      BY <2>2 DEF LockInv, OneLock, LockedAsRead, AmountsCount
    <2>3. ASSUME IInv, LockInv, NEW w \in Workers, Crash(w)
          PROVE  LockInv'
      BY <2>3 DEF IInv, TypeOK, Crash, Become, Idle, LockInv, OneLock,
                  LockedAsRead, AmountsCount
    <2>4. ASSUME NEW p \in Payments, PaymentStep(p)
          PROVE  UNCHANGED <<refund, tx>>
      BY <2>4 DEF PaymentStep, CreatePayment, ApprovePayment, RejectPayment,
                  InitiateIntent, Webhook, Reconcile
    <2>5. ASSUME CancelBooking \/ ExpireBooking \/ IssueTicket \/ BoardTicket
          PROVE  UNCHANGED <<refund, tx>>
      BY <2>5 DEF CancelBooking, ExpireBooking, IssueTicket, BoardTicket
    <2>6. ASSUME IInv, LockInv, Next
          PROVE  LockInv'
      BY <2>2, <2>3, <2>4, <2>5, <2>6, RefundStepKeepsLock, ReadKeepsLock,
         WriteKeepsLock DEF Next, WorkerStep
    <2> QED
      BY <2>1, <2>6
  <1> QED
    BY <1>1, <1>2, Invariance, PTL DEF Spec

-----------------------------------------------------------------------------
(* What is allocated of a payment *)

LEMMA AllocatedType ==
  ASSUME TypeOK, NEW p
  PROVE  /\ IsFiniteSet(AllocatedTo(p))
         /\ \A f \in AllocatedTo(p) : Approved[f] \in 0..Price
         /\ Allocated(p) \in Nat
         /\ \A f \in AllocatedTo(p) : refund[f].approved <= Allocated(p)
  <1>1. IsFiniteSet(AllocatedTo(p))
    BY RefundsAssumption, FS_Subset DEF AllocatedTo
  <1>2. /\ Price \in Nat
        /\ \A f \in AllocatedTo(p) : /\ Approved[f] \in 0..Price
                                     /\ Approved[f] = refund[f].approved
    BY PriceAssumption DEF AllocatedTo, Approved, TypeOK, RefundRow
  <1>3. Allocated(p) \in Nat
    BY <1>1, <1>2, TotalIsNat DEF Allocated
  <1>4. \A f \in AllocatedTo(p) : Approved[f] <= Allocated(p)
    BY <1>1, <1>2, TotalAtLeast DEF Allocated
  <1> QED
    BY <1>1, <1>2, <1>3, <1>4

(* Nothing becomes allocated, and what is stays so. *)
SameAllocations ==
  \A f \in Refunds :
    /\ refund'[f].status \in Allocating <=> refund[f].status \in Allocating
    /\ refund[f].status \in Allocating =>
         refund'[f].payment = refund[f].payment /\ refund'[f].approved = refund[f].approved

LEMMA AllocatedSame ==
  ASSUME SameAllocations, NEW p
  PROVE  Allocated(p)' = Allocated(p)
  <1>1. AllocatedTo(p)' = AllocatedTo(p)
    BY DEF SameAllocations, AllocatedTo
  <1>2. \A f \in AllocatedTo(p) : Approved[f] = Approved'[f]
    BY DEF SameAllocations, AllocatedTo, Approved
  <1>3. Total(Approved, AllocatedTo(p)) = Total(Approved', AllocatedTo(p))
    BY <1>2, TotalSame
  <1> QED
    BY <1>1, <1>3 DEF Allocated

(* An approval adds its amount to its payment, and to no other. *)
LEMMA ApproveAdds ==
  ASSUME IInv, LockInv, NEW w \in Workers, ApproveWrite(w), NEW p
  PROVE  Allocated(p)' = IF refund[tx[w].refund].payment = p
                         THEN Allocated(p) + tx[w].amount ELSE Allocated(p)
  <1> DEFINE f == tx[w].refund
             old == AllocatedTo(p)
  <1>1. /\ TypeOK /\ Price \in Nat /\ f \in Refunds
        /\ tx[w].amount \in 0..Price /\ refund[f].status = "requested"
    BY TxCases, PriceAssumption DEF IInv, LockInv, LockedAsRead, ApproveWrite
  <1>2. f \notin old /\ old \subseteq Refunds
    BY <1>1 DEF AllocatedTo, Allocating
  <1>3. /\ refund'[f].payment = refund[f].payment
        /\ refund'[f].status = "approved" /\ refund'[f].approved = tx[w].amount
        /\ \A g \in Refunds \ {f} : refund'[g] = refund[g]
    BY <1>1 DEF ApproveWrite, TypeOK, RefundRow
  <1>4. Approved'[f] = tx[w].amount /\ \A g \in old : Approved'[g] = Approved[g]
    BY <1>1, <1>2, <1>3 DEF Approved
  <1>5. Total(Approved', old) = Allocated(p)
    BY <1>4, TotalSame DEF Allocated
  <1>6. CASE refund[f].payment = p
    <2>1. AllocatedTo(p)' = old \cup {f}
      BY <1>1, <1>3, <1>6 DEF AllocatedTo, Allocating
    <2>2. IsFiniteSet(old) /\ \A g \in old \cup {f} : Approved'[g] \in 0..Price
      BY <1>1, <1>4, AllocatedType
    <2> HIDE DEF old, f
    <2>3. Total(Approved', old \cup {f}) = Total(Approved', old) + Approved'[f]
      BY <1>1, <1>2, <2>2, TotalAdd
    <2>4. Allocated(p)' = Total(Approved', old \cup {f})
      BY <2>1 DEF Allocated
    <2> QED
      BY <1>4, <1>5, <1>6, <2>3, <2>4 DEF f
  <1>7. CASE refund[f].payment # p
    <2>1. AllocatedTo(p)' = old
      BY <1>1, <1>3, <1>7 DEF AllocatedTo, Allocating
    <2> QED
      BY <1>5, <1>7, <2>1 DEF Allocated
  <1> QED
    BY <1>6, <1>7

(* Only an approval allocates. *)
LEMMA OnlyApprovalsAllocate ==
  ASSUME IInv, LockInv, Next, \A w \in Workers : ~ApproveWrite(w)
  PROVE  SameAllocations
  <1> USE DEF IInv, LockInv
  <1>1. ASSUME UNCHANGED refund
        PROVE  SameAllocations
    BY <1>1 DEF SameAllocations
  <1>2. ASSUME NEW f \in Refunds, RefundStep(f)
        PROVE  SameAllocations
    BY <1>2 DEF RefundStep, RequestRefund, RejectRefund, MarkRefundPaid,
                SameAllocations, Allocating, TypeOK, RefundRow
  <1>3. ASSUME NEW w \in Workers, CompleteWrite(w)
        PROVE  SameAllocations
    <2>1. tx[w].refund \in Refunds /\ refund[tx[w].refund].status = "paid"
      BY <1>3, TxCases DEF CompleteWrite, LockedAsRead
    <2> QED
      BY <1>3, <2>1 DEF CompleteWrite, SameAllocations, Allocating, TypeOK, RefundRow
  <1>4. ASSUME NEW w \in Workers, WorkerStep(w), ~CompleteWrite(w)
        PROVE  UNCHANGED refund
    BY <1>4 DEF WorkerStep, CompleteRead, ApproveRead, Crash
  <1>5. ASSUME NEW p \in Payments, PaymentStep(p)
        PROVE  UNCHANGED refund
    BY <1>5 DEF PaymentStep, CreatePayment, ApprovePayment, RejectPayment,
                InitiateIntent, Webhook, Reconcile
  <1>6. ASSUME CancelBooking \/ ExpireBooking \/ IssueTicket \/ BoardTicket
        PROVE  UNCHANGED refund
    BY <1>6 DEF CancelBooking, ExpireBooking, IssueTicket, BoardTicket
  <1> QED
    BY <1>1, <1>2, <1>3, <1>4, <1>5, <1>6 DEF Next

-----------------------------------------------------------------------------
(* Refunds stay within their payment when no two of one payment are being  *)
(* approved at once, which nothing in the code sees to.                    *)

DecidedAlone ==
  \A v, w \in Workers :
    /\ tx[v].op = "approve" /\ tx[w].op = "approve"
    /\ refund[tx[v].refund].payment = refund[tx[w].refund].payment
    => v = w

(* There is still room for the amount a worker is about to approve. *)
RoomLeft ==
  \A w \in Workers, p \in Payments :
    tx[w].op = "approve" /\ refund[tx[w].refund].payment = p
      => Allocated(p) + tx[w].amount <= Price

SumsInv == RoomLeft /\ RefundsWithinPayment /\ RefundedMeansNothingLeft

(* The payment of a refund that a worker holds. *)
LEMMA HeldRefund ==
  ASSUME IInv, NEW w \in Workers, tx[w].op \in {"approve", "complete"}
  PROVE  /\ tx[w].refund \in Refunds
         /\ refund[tx[w].refund].payment \in Payments
         /\ Allocated(refund[tx[w].refund].payment) \in Nat
         /\ tx[w].op = "approve" => tx[w].amount \in 1..Price
  <1>1. tx[w].refund \in Refunds /\ tx[w] # Idle
    BY TxCases DEF IInv
  <1> QED
    BY <1>1, TxCases, AllocatedType DEF IInv, WorkIsOnRefunds, RefundsAreBought

(* The row of a refund in hand names one payment throughout. *)
LEMMA PaymentOfHeldStays ==
  ASSUME IInv, LockInv, Next, NEW w \in Workers, tx[w] # Idle
  PROVE  refund'[tx[w].refund].payment = refund[tx[w].refund].payment
  <1> DEFINE g == tx[w].refund
  <1>1. g \in Refunds /\ refund[g].status # "none" /\ TypeOK
    BY TxCases DEF IInv, WorkIsOnRefunds
  <1>2. ASSUME NEW f \in Refunds, RefundStep(f)
        PROVE  refund'[g].payment = refund[g].payment
    BY <1>1, <1>2 DEF RefundStep, RequestRefund, RejectRefund, MarkRefundPaid,
                      TypeOK, RefundRow
  <1>3. ASSUME NEW v \in Workers, WorkerStep(v)
        PROVE  refund'[g].payment = refund[g].payment
    <2>1. ASSUME ApproveWrite(v) \/ CompleteWrite(v)
          PROVE  refund'[g].payment = refund[g].payment
      <3>1. tx[v].refund \in Refunds
        BY <1>1, <2>1, TxCases DEF ApproveWrite, CompleteWrite
      <3> HIDE DEF g
      <3> QED
        BY <1>1, <2>1, <3>1 DEF ApproveWrite, CompleteWrite, TypeOK, RefundRow
    <2>2. ASSUME ~(ApproveWrite(v) \/ CompleteWrite(v))
          PROVE  UNCHANGED refund
      BY <1>3, <2>2 DEF WorkerStep, CompleteRead, ApproveRead, Crash
    <2> QED
      BY <2>1, <2>2
  <1>4. ASSUME NEW p \in Payments, PaymentStep(p)
        PROVE  UNCHANGED refund
    BY <1>4 DEF PaymentStep, CreatePayment, ApprovePayment, RejectPayment,
                InitiateIntent, Webhook, Reconcile
  <1>5. ASSUME CancelBooking \/ ExpireBooking \/ IssueTicket \/ BoardTicket
        PROVE  UNCHANGED refund
    BY <1>5 DEF CancelBooking, ExpireBooking, IssueTicket, BoardTicket
  <1> QED
    BY <1>2, <1>3, <1>4, <1>5 DEF Next

(* Who approves after a step approved before it, or has just read. *)
LEMMA ApproversAfter ==
  ASSUME TypeOK, Next, NEW w \in Workers, tx'[w].op = "approve"
  PROVE  \/ tx'[w] = tx[w]
         \/ \E f \in Refunds, a \in 1..Price :
              ApproveRead(w, f, a) /\ tx'[w].refund = f /\ tx'[w].amount = a
  <1>1. ASSUME NEW v \in Workers, WorkerStep(v)
        PROVE  \/ tx'[w] = tx[w]
               \/ \E f \in Refunds, a \in 1..Price :
                    ApproveRead(w, f, a) /\ tx'[w].refund = f /\ tx'[w].amount = a
    <2>1. CASE v # w
      BY <1>1, <2>1 DEF WorkerStep, CompleteRead, ApproveRead, ApproveWrite,
                        CompleteWrite, Crash, Become, TypeOK
    <2>2. CASE v = w
      <3>1. ASSUME NEW f \in Refunds, NEW a \in 1..Price, ApproveRead(w, f, a)
            PROVE  tx'[w].refund = f /\ tx'[w].amount = a
        BY <3>1 DEF ApproveRead, Become, TypeOK
      <3>2. ASSUME NEW f \in Refunds, CompleteRead(w, f)
            PROVE  FALSE
        BY <3>2 DEF CompleteRead, Become, TypeOK
      <3>3. ASSUME ApproveWrite(w) \/ CompleteWrite(w) \/ Crash(w)
            PROVE  FALSE
        BY <3>3 DEF ApproveWrite, CompleteWrite, Crash, Become, TypeOK, Idle
      <3> QED
        BY <1>1, <2>2, <3>1, <3>2, <3>3 DEF WorkerStep
    <2> QED
      BY <2>1, <2>2
  <1>2. ASSUME NEW p \in Payments, PaymentStep(p)
        PROVE  UNCHANGED tx
    BY <1>2 DEF PaymentStep, CreatePayment, ApprovePayment, RejectPayment,
                InitiateIntent, Webhook, Reconcile
  <1>3. ASSUME NEW f \in Refunds, RefundStep(f)
        PROVE  UNCHANGED tx
    BY <1>3 DEF RefundStep, RequestRefund, RejectRefund, MarkRefundPaid
  <1>4. ASSUME CancelBooking \/ ExpireBooking \/ IssueTicket \/ BoardTicket
        PROVE  UNCHANGED tx
    BY <1>4 DEF CancelBooking, ExpireBooking, IssueTicket, BoardTicket
  <1> QED
    BY <1>1, <1>2, <1>3, <1>4 DEF Next

(* A payment becomes REFUNDED only when a completion finds nothing left. *)
LEMMA BecomesRefunded ==
  ASSUME TypeOK, Next, NEW p \in Payments,
         payment'[p] = "refunded", payment[p] # "refunded"
  PROVE  \E w \in Workers :
           /\ CompleteWrite(w) /\ refund[tx[w].refund].payment = p
           /\ Balance(p, tx[w].seen) = 0
  <1>1. ASSUME NEW q \in Payments, PaymentStep(q)
        PROVE  FALSE
    BY <1>1 DEF PaymentStep, CreatePayment, ApprovePayment, RejectPayment,
                InitiateIntent, Webhook, Reconcile, ProviderSays, TypeOK
  <1>2. ASSUME NEW f \in Refunds, RefundStep(f)
        PROVE  FALSE
    BY <1>2 DEF RefundStep, RequestRefund, RejectRefund, MarkRefundPaid
  <1>3. ASSUME CancelBooking \/ ExpireBooking \/ IssueTicket \/ BoardTicket
        PROVE  FALSE
    BY <1>3 DEF CancelBooking, ExpireBooking, IssueTicket, BoardTicket
  <1>4. ASSUME NEW w \in Workers, WorkerStep(w)
        PROVE  /\ CompleteWrite(w) /\ refund[tx[w].refund].payment = p
               /\ Balance(p, tx[w].seen) = 0
    BY <1>4 DEF WorkerStep, CompleteRead, ApproveRead, ApproveWrite, CompleteWrite,
                Crash, TypeOK
  <1> QED
    BY <1>1, <1>2, <1>3, <1>4 DEF Next

(* The balance found zero by a completion: all of the payment is allocated. *)
LEMMA NothingLeft ==
  ASSUME IInv, LockInv, NEW w \in Workers, CompleteWrite(w),
         Balance(refund[tx[w].refund].payment, tx[w].seen) = 0
  PROVE  Allocated(refund[tx[w].refund].payment) = Price
  <1> DEFINE f == tx[w].refund
             p == refund[f].payment
  <1>1. TypeOK /\ f \in Refunds /\ refund[f].status = "paid" /\ Price \in Nat
    BY TxCases, PriceAssumption DEF IInv, LockInv, LockedAsRead, CompleteWrite
  <1>2. f \in AllocatedTo(p) /\ refund[f].approved \in 1..Price
    BY <1>1 DEF AllocatedTo, Allocating, LockInv, AmountsCount
  <1>3. Allocated(p) \in Nat /\ refund[f].approved <= Allocated(p)
    BY <1>1, <1>2, AllocatedType
  <1>4. (IF tx[w].seen \in Kept THEN Price ELSE 0) - Allocated(p) = 0
    BY DEF Balance
  <1> QED
    BY <1>1, <1>2, <1>3, <1>4

LEMMA SumsStep ==
  ASSUME IInv, LockInv, SumsInv, DecidedAlone, Next
  PROVE  SumsInv'
  <1>1. TypeOK /\ Price \in Nat /\ \A p : Allocated(p) \in Nat
    BY AllocatedType, PriceAssumption DEF IInv
  <1>2. ASSUME NEW p \in Payments, payment'[p] = "refunded"
        PROVE  Allocated(p) = Price
    BY <1>1, <1>2, BecomesRefunded, NothingLeft DEF SumsInv, RefundedMeansNothingLeft
  <1>3. ASSUME NEW w \in Workers, NEW f \in Refunds, NEW a \in 1..Price,
               ApproveRead(w, f, a)
        PROVE  Allocated(refund[f].payment) + a <= Price
    BY <1>1, <1>3 DEF ApproveRead, Balance
  <1>4. CASE \A w \in Workers : ~ApproveWrite(w)
    <2>1. \A p : Allocated(p)' = Allocated(p)
      BY <1>4, OnlyApprovalsAllocate, AllocatedSame
    <2>2. RefundsWithinPayment' /\ RefundedMeansNothingLeft'
      BY <1>2, <2>1 DEF SumsInv, RefundsWithinPayment, RefundedMeansNothingLeft
    <2>3. ASSUME NEW w \in Workers, NEW p \in Payments,
                 tx'[w].op = "approve", refund'[tx'[w].refund].payment = p
          PROVE  Allocated(p) + tx'[w].amount <= Price
      <3>1. CASE tx'[w] = tx[w]
        <4>1. tx[w] # Idle /\ tx[w].op = "approve"
          BY <2>3, <3>1 DEF Idle
        <4>2. refund[tx[w].refund].payment = p
          BY <2>3, <3>1, <4>1, PaymentOfHeldStays
        <4> QED
          BY <3>1, <4>1, <4>2 DEF SumsInv, RoomLeft
      <3>2. ASSUME NEW f \in Refunds, NEW a \in 1..Price, ApproveRead(w, f, a),
                   tx'[w].refund = f, tx'[w].amount = a
            PROVE  Allocated(p) + tx'[w].amount <= Price
        BY <1>3, <2>3, <3>2 DEF ApproveRead
      <3> QED
        BY <1>1, <2>3, <3>1, <3>2, ApproversAfter
    <2>4. RoomLeft'
      BY <2>1, <2>3 DEF RoomLeft
    <2> QED
      BY <2>2, <2>4 DEF SumsInv
  <1>5. ASSUME NEW w \in Workers, ApproveWrite(w)
        PROVE  SumsInv'
    <2> DEFINE f == tx[w].refund
               q == refund[f].payment
    <2>1. tx[w].op = "approve" /\ tx[w] # Idle /\ UNCHANGED payment
      BY <1>5 DEF ApproveWrite, Idle
    <2>2. f \in Refunds /\ q \in Payments /\ tx[w].amount \in 1..Price
      BY <2>1, HeldRefund
    <2>3. Allocated(q) + tx[w].amount <= Price
      BY <2>1, <2>2 DEF SumsInv, RoomLeft
    <2>4. \A p : Allocated(p)' = IF q = p THEN Allocated(p) + tx[w].amount
                                 ELSE Allocated(p)
      BY <1>5, ApproveAdds
    <2> HIDE DEF f, q
    <2>5. RefundsWithinPayment'
      BY <1>1, <2>2, <2>3, <2>4 DEF SumsInv, RefundsWithinPayment
    <2>6. RefundedMeansNothingLeft'
      BY <1>1, <1>2, <2>1, <2>2, <2>3, <2>4 DEF RefundedMeansNothingLeft
    <2>7. RoomLeft'
      <3> SUFFICES ASSUME NEW v \in Workers, NEW p \in Payments,
                          tx'[v].op = "approve", refund'[tx'[v].refund].payment = p
                   PROVE  Allocated(p)' + tx'[v].amount <= Price
        BY DEF RoomLeft
      <3>1. tx'[v] = tx[v] /\ v # w
        BY <1>1, <1>5 DEF ApproveWrite, Become, Idle, TypeOK
      <3>2. tx[v] # Idle /\ tx[v].op = "approve"
        BY <3>1 DEF Idle
      <3>3. refund[tx[v].refund].payment = p
        BY <3>1, <3>2, PaymentOfHeldStays
      <3>4. p # q
        BY <2>1, <3>1, <3>2, <3>3 DEF DecidedAlone, q, f
      <3> QED
        BY <2>4, <3>1, <3>2, <3>3, <3>4 DEF SumsInv, RoomLeft
    <2> QED
      BY <2>5, <2>6, <2>7 DEF SumsInv
  <1> QED
    BY <1>4, <1>5

LEMMA InitAllocatesNothing ==
  ASSUME Init, NEW p
  PROVE  Allocated(p) = 0
  <1>1. AllocatedTo(p) = {}
    BY DEF Init, NoRefund, AllocatedTo, Allocating
  <1>2. UNION {{x} \X (1..Approved[x]) : x \in AllocatedTo(p)} = {}
    BY <1>1
  <1> QED
    BY <1>2, FS_EmptySet DEF Allocated, Total

LEMMA SumsInvariance == Spec /\ []DecidedAlone => []SumsInv
  <1>1. Init => SumsInv
    <2> SUFFICES ASSUME Init
                 PROVE  SumsInv
      OBVIOUS
    <2>1. \A p : Allocated(p) = 0
      BY InitAllocatesNothing
    <2> QED
      BY <2>1, PriceAssumption
      DEF Init, Idle, SumsInv, RoomLeft, RefundsWithinPayment,
          RefundedMeansNothingLeft
  <1>2. IInv /\ LockInv /\ SumsInv /\ DecidedAlone /\ [Next]_vars => SumsInv'
    <2>1. CASE UNCHANGED vars
      BY <2>1 DEF vars, SumsInv, RoomLeft, RefundsWithinPayment,
                  RefundedMeansNothingLeft, Allocated, AllocatedTo, Approved
    <2> QED
      BY <2>1, SumsStep
  <1> QED
    BY <1>1, <1>2, LockInvariance, PTL DEF Spec

(* "Refund exceeds the confirmed refundable balance": as long as no two    *)
(* refunds of one payment are being approved at once, however many workers *)
(* decide refunds of different payments, reject, pay, complete and crash,  *)
(* and whatever the provider says meanwhile, the refunds of a payment      *)
(* never add up to more than its price.                                    *)
THEOREM RefundsStayWithinPayment ==
  Spec /\ []DecidedAlone => []RefundsWithinPayment
  <1>1. SumsInv => RefundsWithinPayment
    BY DEF SumsInv
  <1> QED
    BY <1>1, SumsInvariance, PTL

(* Under the same condition a payment is REFUNDED only when nothing of it  *)
(* is left to refund, although complete_refund computes what remains from  *)
(* a payment it has not locked.  Part of it may be approved and not paid.  *)
THEOREM RefundedLeavesNothing ==
  Spec /\ []DecidedAlone => []RefundedMeansNothingLeft
  <1>1. SumsInv => RefundedMeansNothingLeft
    BY DEF SumsInv
  <1> QED
    BY <1>1, SumsInvariance, PTL

-----------------------------------------------------------------------------
(* The refinement of BookingAccount *)

(* What does not approve a refund moves no money, and the booking is       *)
(* bought, ended or left alone.                                            *)
LEMMA BookingMoves ==
  ASSUME IInv, Next, SameAllocations
  PROVE  Account!Next \/ UNCHANGED Account!account
  <1>1. \A p : Allocated(p)' = Allocated(p)
    BY AllocatedSame
  <1>2. [p \in Payments |-> Allocated(p)]' = [p \in Payments |-> Allocated(p)]
    BY <1>1
  <1>3. ASSUME NEW p \in Payments, ApprovePayment(p)
        PROVE  Account!Buy(p)
    BY <1>2, <1>3 DEF ApprovePayment, Account!Buy, Stage
  <1>4. ASSUME CancelBooking \/ ExpireBooking
        PROVE  Account!End
    BY <1>2, <1>4 DEF CancelBooking, ExpireBooking, Account!End, Stage
  <1>5. \/ UNCHANGED <<booking, reference>>
        \/ \E p \in Payments : ApprovePayment(p)
        \/ CancelBooking \/ ExpireBooking
    BY DEF Next, PaymentStep, RefundStep, WorkerStep, CreatePayment,
           RejectPayment, InitiateIntent, Webhook, Reconcile, RequestRefund,
           RejectRefund, MarkRefundPaid, CompleteRead, ApproveRead,
           ApproveWrite, CompleteWrite, Crash, IssueTicket, BoardTicket
  <1>6. UNCHANGED <<booking, reference>> => UNCHANGED Account!account
    BY <1>2 DEF Account!account, Stage
  <1> QED
    BY <1>3, <1>4, <1>5, <1>6 DEF Account!Next

(* An approval promises its amount back to the payment that bought the     *)
(* booking: only that one has refunds, and there is room for the amount.   *)
LEMMA ApprovalPromises ==
  ASSUME IInv, LockInv, SumsInv, NEW w \in Workers, ApproveWrite(w)
  PROVE  Account!Next
  <1> DEFINE p == refund[tx[w].refund].payment
             a == tx[w].amount
             money == [q \in Payments |-> Allocated(q)]
  <1>1. tx[w].op = "approve" /\ UNCHANGED <<booking, reference>>
    BY DEF ApproveWrite
  <1>2. p \in Payments /\ a \in 1..Price /\ Allocated(p) \in Nat
    BY <1>1, HeldRefund
  <1>3. reference = p
    <2>1. tx[w].refund \in Refunds /\ refund[tx[w].refund].status # "none"
      BY <1>1, HeldRefund DEF IInv, WorkIsOnRefunds, Idle
    <2> QED
      BY <2>1 DEF IInv, RefundsAreBought, Bought
  <1>4. Allocated(p) + a <= Price
    BY <1>1, <1>2 DEF SumsInv, RoomLeft
  <1>5. \A q : Allocated(q)' = IF p = q THEN Allocated(q) + a ELSE Allocated(q)
    BY ApproveAdds
  <1> HIDE DEF p, a
  <1>6. money[p] = Allocated(p) /\ money'[p] = Allocated(p) + a
    BY <1>2, <1>5
  <1>7. money' = [money EXCEPT ![p] = money'[p]]
    BY <1>2, <1>5, <1>6
  <1>8. money[p] < money'[p] /\ money'[p] <= Price
    BY <1>2, <1>4, <1>6, PriceAssumption
  <1>9. UNCHANGED <<Stage, reference>>
    BY <1>1 DEF Stage
  <1>10. Account!Promise(p)
    BY <1>3, <1>7, <1>8, <1>9 DEF Account!Promise
  <1> QED
    BY <1>2, <1>10 DEF Account!Next

LEMMA InitIsOpen ==
  ASSUME Init
  PROVE  Account!Init
  <1>1. \A p : Allocated(p) = 0
    BY InitAllocatesNothing
  <1> QED
    BY <1>1 DEF Init, Account!Init, Stage

(* BookingPayment implements BookingAccount as long as no two refunds of   *)
(* one payment are being approved at once: approving a payment is Buy,     *)
(* cancellation and expiry are End, the commit of an approval is Promise,  *)
(* and all the rest, the provider's events and crashes included, stutters. *)
THEOREM FollowsAccount == Spec /\ []DecidedAlone => ImplementsAccount
  <1>1. Init => Account!Init
    BY InitIsOpen
  <1>2. IInv /\ LockInv /\ SumsInv /\ [Next]_vars
          => [Account!Next]_(Account!account)
    <2> SUFFICES ASSUME IInv, LockInv, SumsInv, [Next]_vars
                 PROVE  [Account!Next]_(Account!account)
      OBVIOUS
    <2>1. CASE UNCHANGED vars
      BY <2>1 DEF vars, Account!account, Stage, Allocated, AllocatedTo, Approved
    <2>2. CASE Next
      BY <2>2, BookingMoves, ApprovalPromises, OnlyApprovalsAllocate
    <2> QED
      BY <2>1, <2>2
  <1> QED
    BY <1>1, <1>2, LockInvariance, SumsInvariance, PTL
    DEF Spec, ImplementsAccount, Account!Spec

(* With one manager at a time the condition is always met: requests,       *)
(* payouts, completions and provider events between the read and the write *)
(* of an approval, and workers that die, do no harm: no more is approved   *)
(* than was paid, and REFUNDED means that there is nothing left to refund. *)
THEOREM OneManagerKeepsAccount ==
  ASSUME \A v, w \in Workers : v = w
  PROVE  Spec => ImplementsAccount /\ []RefundedMeansNothingLeft
  <1>1. DecidedAlone
    BY DEF DecidedAlone
  <1> QED
    BY <1>1, FollowsAccount, RefundedLeavesNothing, PTL

-----------------------------------------------------------------------------
(* What the account guarantees, shown from the steps of BookingAccount     *)
(* alone and so for whatever implements it.                                *)
OnlyBuyerIsRefunded == \A p \in Payments : p # reference => Allocated(p) = 0

AccountInv ==
  /\ Stage = "open" => reference = NoPayment
  /\ OnlyBuyerIsRefunded
  /\ RefundsWithinPayment

(* The account alone implies that refunds stay within the payment and that *)
(* no other payment than the one that bought the booking is refunded.      *)
THEOREM AccountIsKept ==
  ImplementsAccount => [](OnlyBuyerIsRefunded /\ RefundsWithinPayment)
  <1> DEFINE money == [p \in Payments |-> Allocated(p)]
  <1>1. Account!Init => AccountInv
    <2> SUFFICES ASSUME Account!Init
                 PROVE  AccountInv
      OBVIOUS
    <2>1. \A p \in Payments : Allocated(p) = money[p] /\ money[p] = 0
      BY DEF Account!Init
    <2> QED
      BY <2>1, PriceAssumption
      DEF Account!Init, AccountInv, OnlyBuyerIsRefunded, RefundsWithinPayment
  <1>2. AccountInv /\ [Account!Next]_(Account!account) => AccountInv'
    <2> SUFFICES ASSUME AccountInv, [Account!Next]_(Account!account)
                 PROVE  AccountInv'
      OBVIOUS
    <2>1. \A p \in Payments : /\ Allocated(p) = money[p]
                              /\ Allocated(p)' = money'[p]
      OBVIOUS
    <2>2. ASSUME money' = money, UNCHANGED reference, Stage' = Stage \/ Stage' = "ended"
          PROVE  AccountInv'
      BY <2>1, <2>2 DEF AccountInv, OnlyBuyerIsRefunded, RefundsWithinPayment
    <2>3. ASSUME NEW p \in Payments, Account!Buy(p)
          PROVE  AccountInv'
      <3>1. /\ money' = money /\ reference' = p
            /\ Stage = "open" /\ Stage' = "bought"
        BY <2>3 DEF Account!Buy
      <3>2. \A q \in Payments : Allocated(q)' = Allocated(q) /\ Allocated(q) = 0
        BY <2>1, <3>1, NoPaymentAssumption DEF AccountInv, OnlyBuyerIsRefunded
      <3> QED
        BY <3>1, <3>2, PriceAssumption
        DEF AccountInv, OnlyBuyerIsRefunded, RefundsWithinPayment
    <2>4. ASSUME NEW p \in Payments, Account!Promise(p)
          PROVE  AccountInv'
      <3>1. /\ reference = p /\ UNCHANGED <<Stage, reference>>
            /\ money'[p] <= Price
            /\ money' = [money EXCEPT ![p] = money'[p]]
        BY <2>4 DEF Account!Promise
      <3>2. \A q \in Payments : q # p => Allocated(q)' = Allocated(q)
        BY <2>1, <3>1
      <3> QED
        BY <2>1, <3>1, <3>2 DEF AccountInv, OnlyBuyerIsRefunded, RefundsWithinPayment
    <2>5. Account!End => AccountInv'
      BY <2>2 DEF Account!End
    <2> QED
      BY <2>2, <2>3, <2>4, <2>5 DEF Account!Next, Account!account
  <1>3. AccountInv => OnlyBuyerIsRefunded /\ RefundsWithinPayment
    BY DEF AccountInv
  <1> QED
    BY <1>1, <1>2, <1>3, PTL DEF ImplementsAccount, Account!Spec
==============================================================================
