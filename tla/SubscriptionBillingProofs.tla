---------------------- MODULE SubscriptionBillingProofs ----------------------
(***************************************************************************)
(* Proofs about SubscriptionBilling: as long as no deadline pass has saved *)
(* an old row, no time is billed twice and what is paid is served.  An     *)
(* open invoice begins where the row's period ends, which only the         *)
(* approval of that invoice moves.                                         *)
(***************************************************************************)
EXTENDS SubscriptionBilling, TLAPS

(* A company has one open invoice at a time. *)
OneOpen ==
  \A i, j \in Invoices :
    invoice[i].status \in Open /\ invoice[j].status \in Open => i = j

(* A pass works with the time at which it read, or an earlier one. *)
PassIsPast ==
  /\ pass # Sleeping => pass.time \in Nat /\ pass.time <= now
  /\ pass.at = "read" => pass.row \in Row

(* The row, as long as no pass has put an old one back. *)
RowInOrder ==
  ~overwritten =>
    /\ sub.grace = sub.ends + Grace
    /\ \A i \in Invoices : invoice[i].status \in Open => invoice[i].from = sub.ends

(* Every invoice is for a period. *)
PeriodsLast ==
  \A i \in Invoices : invoice[i].from <= invoice[i].to

IInv ==
  /\ TypeOK
  /\ OneOpen
  /\ PassIsPast
  /\ RowInOrder
  /\ PeriodsLast
  /\ BilledOnce
  /\ PaidTimeIsServed

-----------------------------------------------------------------------------
LEMMA InitIInv ==
  ASSUME TimesAssumption, Init
  PROVE  IInv
  <1>1. PICK s \in {"trial", "active"} :
          sub = [status |-> s, ends |-> Period, grace |-> Period + Grace]
    BY DEF Init
  <1>2. Period \in Nat /\ Grace \in Nat /\ MaxTime \in Nat
    BY DEF TimesAssumption
  <1>3. sub \in Row
    BY <1>1, <1>2 DEF Row, SubStatus, Watched
  <1>4. NoInvoice \in Invoice
    BY DEF NoInvoice, Invoice, InvoiceStatus, Open
  <1>5. TypeOK
    <2>1. now \in 0..MaxTime /\ invoice \in [Invoices -> Invoice]
      BY <1>2, <1>4 DEF Init
    <2>2. pass \in Read \cup Saved \cup {Sleeping} /\ overwritten \in BOOLEAN
      BY DEF Init
    <2> QED
      BY <1>3, <2>1, <2>2 DEF TypeOK
  <1>6. \A i \in Invoices :
          /\ invoice[i].status = "none"
          /\ invoice[i].from = 0 /\ invoice[i].to = 0
    BY DEF Init, NoInvoice
  <1>7. OneOpen /\ PassIsPast /\ RowInOrder /\ PeriodsLast
    BY <1>1, <1>6
    DEF Init, OneOpen, Open, PassIsPast, Sleeping, RowInOrder, PeriodsLast
  <1>8. BilledOnce /\ PaidTimeIsServed
    BY <1>1, <1>6 DEF BilledOnce, Open, PaidTimeIsServed
  <1> QED
    BY <1>5, <1>7, <1>8 DEF IInv

(* The numbers of invoices and of the row are numbers. *)
LEMMA Numbers ==
  ASSUME TypeOK, TimesAssumption
  PROVE  /\ now \in Nat /\ Period \in Nat /\ Grace \in Nat /\ DueIn \in Nat
         /\ sub.ends \in Nat /\ sub.grace \in Nat
         /\ \A i \in Invoices : /\ invoice[i].from \in Nat
                                /\ invoice[i].to \in Nat
                                /\ invoice[i].due \in Nat
  BY DEF TypeOK, TimesAssumption, Row, Invoice

-----------------------------------------------------------------------------
LEMMA TickStep ==
  ASSUME IInv, TimesAssumption, Tick
  PROVE  IInv'
  <1> USE DEF IInv
  <1>1. /\ now' = now + 1 /\ now < MaxTime
        /\ UNCHANGED <<sub, invoice, pass, overwritten>>
    BY DEF Tick
  <1>2. TypeOK'
    BY <1>1 DEF TypeOK, TimesAssumption
  <1>3. PassIsPast' /\ OneOpen' /\ RowInOrder' /\ PeriodsLast'
    BY <1>1, Numbers DEF PassIsPast, OneOpen, RowInOrder, PeriodsLast
  <1>4. BilledOnce' /\ PaidTimeIsServed'
    BY <1>1, Numbers DEF BilledOnce, PaidTimeIsServed
  <1> QED
    BY <1>2, <1>3, <1>4

LEMMA IssueStep ==
  ASSUME IInv, TimesAssumption, NEW i \in Invoices, Issue(i)
  PROVE  IInv'
  <1> DEFINE new == [status |-> "issued", from |-> sub.ends,
                     to |-> sub.ends + Period, due |-> now + DueIn]
  <1> USE DEF IInv
  <1>1. /\ invoice' = [invoice EXCEPT ![i] = new]
        /\ \A j \in Invoices : invoice[j].status \notin Open
        /\ UNCHANGED <<now, sub, pass, overwritten>>
    BY DEF Issue
  <1>2. new \in Invoice
    BY Numbers DEF Invoice, InvoiceStatus, Open
  <1>3. TypeOK'
    BY <1>1, <1>2 DEF TypeOK
  <1>4. /\ invoice'[i] = new
        /\ \A j \in Invoices : j # i => invoice'[j] = invoice[j]
    BY <1>1 DEF TypeOK
  <1>5. OneOpen' /\ PassIsPast'
    BY <1>1, <1>4 DEF OneOpen, PassIsPast
  <1>6. RowInOrder' /\ PeriodsLast'
    BY <1>1, <1>4, Numbers DEF RowInOrder, PeriodsLast
  <1>7. PaidTimeIsServed'
    BY <1>1, <1>4 DEF PaidTimeIsServed
  <1>8. BilledOnce'
    BY <1>1, <1>4, Numbers DEF BilledOnce, PaidTimeIsServed, Open
  <1> QED
    BY <1>3, <1>5, <1>6, <1>7, <1>8

(* Submit and Refuse: the invoice stays open, nothing else changes. *)
LEMMA StaysOpenStep ==
  ASSUME IInv, TimesAssumption, NEW i \in Invoices, Submit(i) \/ Refuse(i)
  PROVE  IInv'
  <1> USE DEF IInv
  <1>1. PICK s \in Open : invoice' = [invoice EXCEPT ![i].status = s]
    BY DEF Submit, Refuse, SetInvoice, Open
  <1>2. /\ invoice[i].status \in Open
        /\ UNCHANGED <<now, sub, pass, overwritten>>
    BY DEF Submit, Refuse, Open
  <1>3. /\ invoice'[i].status = s
        /\ \A j \in Invoices :
             /\ j # i => invoice'[j].status = invoice[j].status
             /\ invoice'[j].from = invoice[j].from
             /\ invoice'[j].to = invoice[j].to
    BY <1>1 DEF TypeOK, Invoice
  <1>4. TypeOK'
    BY <1>1, <1>2 DEF TypeOK, Invoice, InvoiceStatus, Open
  <1>5. OneOpen' /\ PassIsPast' /\ RowInOrder' /\ PeriodsLast'
    BY <1>2, <1>3 DEF OneOpen, PassIsPast, RowInOrder, PeriodsLast
  <1>6. PaidTimeIsServed'
    BY <1>2, <1>3 DEF PaidTimeIsServed, Open
  <1>7. BilledOnce'
    BY <1>2, <1>3 DEF BilledOnce
  <1> QED
    BY <1>4, <1>5, <1>6, <1>7

LEMMA ApproveStep ==
  ASSUME IInv, TimesAssumption, NEW i \in Invoices, Approve(i)
  PROVE  IInv'
  <1> USE DEF IInv
  <1>1. /\ invoice[i].status = "submitted"
        /\ invoice' = [invoice EXCEPT ![i].status = "paid"]
        /\ sub' = [status |-> "active", ends |-> invoice[i].to,
                   grace |-> invoice[i].to + Grace]
        /\ UNCHANGED <<now, pass, overwritten>>
    BY DEF Approve, SetInvoice
  <1>2. /\ invoice'[i].status = "paid"
        /\ \A j \in Invoices :
             /\ j # i => invoice'[j].status = invoice[j].status
             /\ invoice'[j].from = invoice[j].from
             /\ invoice'[j].to = invoice[j].to
    BY <1>1 DEF TypeOK, Invoice
  <1>3. \A j \in Invoices : j # i => invoice[j].status \notin Open
    BY <1>1 DEF OneOpen, Open
  <1>4. invoice' \in [Invoices -> Invoice]
    BY <1>1 DEF TypeOK, Invoice, InvoiceStatus
  <1>5. sub' \in Row
    BY <1>1, Numbers DEF Row, SubStatus, Watched
  <1>6. TypeOK'
    BY <1>1, <1>4, <1>5 DEF TypeOK
  <1>7. OneOpen' /\ PassIsPast' /\ PeriodsLast'
    BY <1>1, <1>2, <1>3 DEF OneOpen, PassIsPast, PeriodsLast, Open
  <1>8. /\ sub'.ends = invoice[i].to /\ sub'.grace = invoice[i].to + Grace
        /\ sub'.status = "active"
    BY <1>1
  <1>9. RowInOrder'
    BY <1>1, <1>2, <1>3, <1>8 DEF RowInOrder, Open
  <1>10. ~overwritten => sub.ends <= invoice[i].to
    BY <1>1 DEF RowInOrder, PeriodsLast, Open
  <1>11. PaidTimeIsServed'
    BY <1>1, <1>2, <1>8, <1>10, Numbers DEF PaidTimeIsServed
  <1>12. ~overwritten => \A j \in Invoices :
           invoice[j].status = "paid" => invoice[j].to <= invoice[i].from
    BY <1>1 DEF RowInOrder, PaidTimeIsServed, Open
  <1>13. BilledOnce'
    BY <1>1, <1>2, <1>3, <1>12 DEF BilledOnce, Open
  <1> QED
    BY <1>6, <1>7, <1>9, <1>11, <1>13

LEMMA SuspendStep ==
  ASSUME IInv, TimesAssumption, Suspend
  PROVE  IInv'
  <1> USE DEF IInv
  <1>1. /\ sub' = [sub EXCEPT !.status = "suspended"]
        /\ UNCHANGED <<now, invoice, pass, overwritten>>
    BY DEF Suspend
  <1>2. /\ sub' \in Row
        /\ sub'.ends = sub.ends /\ sub'.grace = sub.grace
        /\ sub'.status = "suspended"
    BY <1>1 DEF TypeOK, Row, SubStatus
  <1>3. TypeOK'
    BY <1>1, <1>2 DEF TypeOK
  <1>4. OneOpen' /\ PassIsPast' /\ RowInOrder' /\ PeriodsLast'
    BY <1>1, <1>2 DEF OneOpen, PassIsPast, RowInOrder, PeriodsLast
  <1>5. BilledOnce' /\ PaidTimeIsServed'
    BY <1>1, <1>2 DEF BilledOnce, PaidTimeIsServed
  <1> QED
    BY <1>3, <1>4, <1>5

-----------------------------------------------------------------------------
(* The deadline pass *)

LEMMA PassReadStep ==
  ASSUME IInv, TimesAssumption, PassRead
  PROVE  IInv'
  <1> USE DEF IInv
  <1>1. UNCHANGED <<now, sub, invoice, overwritten>>
    BY DEF PassRead
  <1>2. \/ pass' = [at |-> "read", row |-> sub, time |-> now]
        \/ pass' = [at |-> "saved", time |-> now]
    BY DEF PassRead
  <1>3. pass' \in Read \cup Saved
    BY <1>2, Numbers DEF Read, Saved, TypeOK
  <1>4. TypeOK'
    BY <1>1, <1>3 DEF TypeOK
  <1>5. PassIsPast'
    BY <1>1, <1>2, Numbers DEF PassIsPast, TypeOK
  <1>6. OneOpen' /\ RowInOrder' /\ PeriodsLast' /\ BilledOnce' /\ PaidTimeIsServed'
    BY <1>1 DEF OneOpen, RowInOrder, PeriodsLast, BilledOnce, PaidTimeIsServed
  <1> QED
    BY <1>4, <1>5, <1>6

LEMMA PassSaveStep ==
  ASSUME IInv, TimesAssumption, PassSave
  PROVE  IInv'
  <1> DEFINE row == pass.row
             new == [row EXCEPT !.status = DueStatus(row, pass.time)]
  <1> USE DEF IInv
  <1>1. /\ pass.at = "read"
        /\ pass' = [at |-> "saved", time |-> pass.time]
        /\ UNCHANGED <<now, invoice>>
        /\ \/ sub' = new /\ overwritten' = (overwritten \/ sub # row)
           \/ UNCHANGED <<sub, overwritten>>
    BY DEF PassSave
  <1>2. /\ row \in Row /\ pass # Sleeping
        /\ pass.time \in Nat /\ pass.time <= now
    BY <1>1 DEF PassIsPast, Sleeping
  <1>3. DueStatus(row, pass.time) \in SubStatus
    BY <1>2, TimesAssumption DEF Row, DueStatus, SubStatus, Watched, TimesAssumption
  <1>4. DueStatus(row, pass.time) = "unpaid" /\ row.status # "unpaid"
          => row.grace <= pass.time
    BY <1>2, TimesAssumption DEF Row, DueStatus, TimesAssumption
  <1>5. /\ new \in Row /\ new.ends = row.ends /\ new.grace = row.grace
        /\ new.status = DueStatus(row, pass.time)
    BY <1>2, <1>3 DEF Row
  <1> HIDE DEF new, row
  <1>6. pass' \in Saved /\ pass'.time = pass.time /\ pass'.at = "saved"
    BY <1>1, <1>2 DEF Saved
  <1>7. sub' \in Row /\ overwritten' \in BOOLEAN
    BY <1>1, <1>5 DEF TypeOK
  <1>8. TypeOK'
    BY <1>1, <1>6, <1>7 DEF TypeOK
  <1>9. OneOpen' /\ PassIsPast' /\ PeriodsLast'
    BY <1>1, <1>2, <1>6 DEF OneOpen, PassIsPast, PeriodsLast
  <1>10. ~overwritten' =>
           /\ ~overwritten
           /\ sub'.ends = sub.ends /\ sub'.grace = sub.grace
           /\ sub'.status = "unpaid" =>
                sub.status = "unpaid" \/ sub.grace <= pass.time
    BY <1>1, <1>4, <1>5
  <1>11. RowInOrder' /\ BilledOnce'
    BY <1>1, <1>10 DEF RowInOrder, BilledOnce
  <1>12. PaidTimeIsServed'
    BY <1>1, <1>2, <1>10, Numbers DEF PaidTimeIsServed, RowInOrder
  <1> QED
    BY <1>8, <1>9, <1>11, <1>12

LEMMA PassMarksOverdueStep ==
  ASSUME IInv, TimesAssumption, PassMarksOverdue
  PROVE  IInv'
  <1> USE DEF IInv
  <1>1. /\ pass' = Sleeping
        /\ UNCHANGED <<now, sub, overwritten>>
    BY DEF PassMarksOverdue
  <1>2. \A i \in Invoices :
          \/ invoice'[i] = invoice[i]
          \/ invoice'[i] = [invoice[i] EXCEPT !.status = "overdue"]
    BY DEF PassMarksOverdue
  <1>3. \A i \in Invoices :
          /\ invoice'[i] \in Invoice
          /\ invoice'[i].from = invoice[i].from /\ invoice'[i].to = invoice[i].to
          /\ invoice'[i].status = invoice[i].status \/ invoice'[i].status = "overdue"
    <2> SUFFICES ASSUME NEW i \in Invoices
                 PROVE  /\ invoice'[i] \in Invoice
                        /\ invoice'[i].from = invoice[i].from
                        /\ invoice'[i].to = invoice[i].to
                        /\ \/ invoice'[i].status = invoice[i].status
                           \/ invoice'[i].status = "overdue"
      OBVIOUS
    <2>1. invoice[i] \in Invoice
      BY DEF TypeOK
    <2>2. CASE invoice'[i] = invoice[i]
      BY <2>1, <2>2
    <2>3. CASE invoice'[i] = [invoice[i] EXCEPT !.status = "overdue"]
      BY <2>1, <2>3 DEF Invoice, InvoiceStatus
    <2> QED
      BY <1>2, <2>2, <2>3
  <1>4. invoice' \in [Invoices -> Invoice]
    BY <1>3 DEF PassMarksOverdue
  <1>5. TypeOK'
    BY <1>1, <1>4 DEF TypeOK
  <1>6. OneOpen' /\ PassIsPast' /\ PeriodsLast'
    BY <1>1, <1>3 DEF OneOpen, PassIsPast, PeriodsLast, Open, Sleeping
  <1>7. RowInOrder' /\ PaidTimeIsServed'
    BY <1>1, <1>3 DEF RowInOrder, PaidTimeIsServed, Open
  <1>8. BilledOnce'
    BY <1>1, <1>3 DEF BilledOnce, Open
  <1> QED
    BY <1>5, <1>6, <1>7, <1>8

LEMMA PassCrashStep ==
  ASSUME IInv, PassCrash
  PROVE  IInv'
  BY DEF PassCrash, IInv, TypeOK, OneOpen, PassIsPast, Sleeping, RowInOrder,
         PeriodsLast, BilledOnce, PaidTimeIsServed

-----------------------------------------------------------------------------
LEMMA NextIInv ==
  ASSUME IInv, TimesAssumption, [Next]_vars
  PROVE  IInv'
  <1>1. CASE UNCHANGED vars
    BY <1>1 DEF vars, IInv, TypeOK, OneOpen, PassIsPast, RowInOrder, PeriodsLast,
                BilledOnce, PaidTimeIsServed
  <1>2. CASE Next
    BY <1>2, TickStep, IssueStep, StaysOpenStep, ApproveStep, SuspendStep,
       PassReadStep, PassSaveStep, PassMarksOverdueStep, PassCrashStep,
       TimesAssumption DEF Next, PassStep
  <1> QED
    BY <1>1, <1>2

LEMMA Invariance == Spec => []IInv
  <1>1. Init => IInv
    BY InitIInv, TimesAssumption
  <1>2. IInv /\ [Next]_vars => IInv'
    BY NextIInv, TimesAssumption
  <1> QED
    BY <1>1, <1>2, PTL DEF Spec

(* Type correctness, for any invoices, lengths of time and clock bound. *)
THEOREM TypeCorrect == Spec => []TypeOK
  <1>1. IInv => TypeOK
    BY DEF IInv
  <1> QED
    BY <1>1, Invariance, PTL

(* No two open or paid invoices of a company bill the same time, unless a  *)
(* deadline pass put back an old row.                                      *)
THEOREM NoTimeBilledTwice == Spec => []BilledOnce
  <1>1. IInv => BilledOnce
    BY DEF IInv
  <1> QED
    BY <1>1, Invariance, PTL

(* Paid periods are in the row and nobody is cut off before the end of     *)
(* period and grace, unless a deadline pass put back an old row.           *)
THEOREM PaymentsCount == Spec => []PaidTimeIsServed
  <1>1. IInv => PaidTimeIsServed
    BY DEF IInv
  <1> QED
    BY <1>1, Invariance, PTL

-----------------------------------------------------------------------------
(* When both hold without exception *)

(* Nothing changes the subscription between the read and the save of a     *)
(* pass.  Locking the row in process_subscription_deadlines would see to   *)
(* it.                                                                     *)
PassUndisturbed == pass.at = "read" => sub = pass.row

(* No two invoices that are open or paid bill the same time, paid periods  *)
(* are in the row, and nobody is cut off before period and grace are over. *)
BillsAreHonoured ==
  /\ \A i, j \in Invoices :
       /\ i # j
       /\ {invoice[i].status, invoice[j].status} \subseteq Open \cup {"paid"}
       => invoice[i].to <= invoice[j].from \/ invoice[j].to <= invoice[i].from
  /\ \A i \in Invoices : invoice[i].status = "paid" => invoice[i].to <= sub.ends
  /\ sub.status = "unpaid" => sub.ends + Grace <= now

(* As long as nothing changes the row while a pass is between its read and *)
(* its save, every period is billed once and served, wherever passes die.  *)
THEOREM UndisturbedPassHonoursBills ==
  Spec /\ []PassUndisturbed => []BillsAreHonoured
  <1>1. Init => ~overwritten
    BY DEF Init
  <1>2. ~overwritten /\ PassUndisturbed /\ [Next]_vars => ~overwritten'
    BY DEF PassUndisturbed, vars, Next, Tick, Issue, Submit, Approve, Refuse,
           Suspend, PassStep, PassRead, PassSave, PassMarksOverdue, PassCrash
  <1>3. IInv /\ ~overwritten => BillsAreHonoured
    BY DEF IInv, BilledOnce, PaidTimeIsServed, BillsAreHonoured
  <1> QED
    BY <1>1, <1>2, <1>3, Invariance, PTL DEF Spec
==============================================================================
