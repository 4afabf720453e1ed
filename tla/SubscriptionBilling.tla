-------------------------- MODULE SubscriptionBilling --------------------------
(***************************************************************************)
(* The subscription of one company and its invoices (backend/apps/         *)
(* subscriptions).  The services lock the rows they change, so each is one *)
(* step.  The scheduler's pass locks nothing: it reads the subscription,   *)
(* saves the WHOLE row it has read, and marks invoices overdue, in three   *)
(* steps.  Plans and prices are left out; days are scaled to the clock.    *)
(***************************************************************************)
EXTENDS Naturals

CONSTANTS Invoices,
          Period,   \* length of a billing period
          Grace,    \* from the end of a paid period to suspension
          DueIn,    \* from the issue of an invoice to its due date
          MaxTime   \* bound of the clock

ASSUME TimesAssumption ==
  /\ Period \in Nat \ {0} /\ Grace \in Nat /\ DueIn \in Nat /\ MaxTime \in Nat

VARIABLES now,
          sub,         \* the subscription's row
          invoice,     \* status and period of each invoice
          pass,        \* what the scheduler's pass is doing
          overwritten  \* history: a pass saved over a row changed since it
                       \* was read

vars == <<now, sub, invoice, pass, overwritten>>

-----------------------------------------------------------------------------
(* PENDING, CANCELLED and EXPIRED, and the invoices' DRAFT and VOID, are   *)
(* set nowhere.  SUSPENDED is split by suspension_reason.                  *)
Watched == {"trial", "active", "grace"}
SubStatus == Watched \cup {"unpaid", "suspended"}
Row == [status : SubStatus, ends : Nat, grace : Nat]

InvoiceStatus == {"none", "issued", "submitted", "paid", "overdue"}
Open == {"issued", "submitted"}
Invoice == [status : InvoiceStatus, from : Nat, to : Nat, due : Nat]
NoInvoice == [status |-> "none", from |-> 0, to |-> 0, due |-> 0]

Sleeping == [at |-> "sleeping"]
Read == [at : {"read"}, row : Row, time : Nat]
Saved == [at : {"saved"}, time : Nat]

TypeOK ==
  /\ now \in 0..MaxTime
  /\ sub \in Row
  /\ invoice \in [Invoices -> Invoice]
  /\ pass \in Read \cup Saved \cup {Sleeping}
  /\ overwritten \in BOOLEAN

(* A company starts with a trial as long as a period, or has paid once.    *)
Init ==
  /\ now = 0
  /\ \E s \in {"trial", "active"} :
       sub = [status |-> s, ends |-> Period, grace |-> Period + Grace]
  /\ invoice = [i \in Invoices |-> NoInvoice]
  /\ pass = Sleeping
  /\ overwritten = FALSE

-----------------------------------------------------------------------------
SetInvoice(i, s) == invoice' = [invoice EXCEPT ![i].status = s]

Tick ==
  /\ now < MaxTime
  /\ now' = now + 1
  /\ UNCHANGED <<sub, invoice, pass, overwritten>>

(* Mutant: an invoice whose payment awaits verification does not count.    *)
IssueBesideSubmitted(i) ==
  /\ invoice[i].status = "none"
  /\ \A j \in Invoices : invoice[j].status # "issued"
  /\ invoice' = [invoice EXCEPT ![i] =
       [status |-> "issued", from |-> sub.ends, to |-> sub.ends + Period,
        due |-> now + DueIn]]
  /\ UNCHANGED <<now, sub, pass, overwritten>>

(* issue_subscription_invoice, for the period after the one in the row.    *)
Issue(i) ==
  /\ invoice[i].status = "none"
  /\ \A j \in Invoices : invoice[j].status \notin Open
  /\ invoice' = [invoice EXCEPT ![i] =
       [status |-> "issued", from |-> sub.ends, to |-> sub.ends + Period,
        due |-> now + DueIn]]
  /\ UNCHANGED <<now, sub, pass, overwritten>>

(* submit_subscription_payment *)
Submit(i) ==
  /\ invoice[i].status = "issued"
  /\ SetInvoice(i, "submitted")
  /\ UNCHANGED <<now, sub, pass, overwritten>>

(* Mutant: the period is counted from the day of the payment.              *)
ApproveFromToday(i) ==
  /\ invoice[i].status = "submitted"
  /\ SetInvoice(i, "paid")
  /\ sub' = [status |-> "active", ends |-> now + Period,
             grace |-> now + Period + Grace]
  /\ UNCHANGED <<now, pass, overwritten>>

(* verify_subscription_payment locks the invoice and the subscription.     *)
Approve(i) ==
  /\ invoice[i].status = "submitted"
  /\ SetInvoice(i, "paid")
  /\ sub' = [status |-> "active", ends |-> invoice[i].to,
             grace |-> invoice[i].to + Grace]
  /\ UNCHANGED <<now, pass, overwritten>>

Refuse(i) ==
  /\ invoice[i].status = "submitted"
  /\ SetInvoice(i, "issued")
  /\ UNCHANGED <<now, sub, pass, overwritten>>

(* suspend_subscription *)
Suspend ==
  /\ sub.status # "suspended"
  /\ sub' = [sub EXCEPT !.status = "suspended"]
  /\ UNCHANGED <<now, invoice, pass, overwritten>>

-----------------------------------------------------------------------------
(* process_subscription_deadlines *)

(* The status the pass gives a row at time t. *)
DueStatus(row, t) ==
  CASE row.status = "trial" -> IF Period <= t THEN "grace" ELSE "trial"
    [] row.status # "trial" /\ row.ends > t -> row.status
    [] row.status # "trial" /\ row.ends <= t ->
         IF row.grace > t THEN "grace" ELSE "unpaid"

(* Mutant: a subscription in its grace period is not looked at again.      *)
PassReadsActive ==
  /\ pass = Sleeping
  /\ pass' = IF sub.status \in {"trial", "active"}
             THEN [at |-> "read", row |-> sub, time |-> now]
             ELSE [at |-> "saved", time |-> now]
  /\ UNCHANGED <<now, sub, invoice, overwritten>>

PassRead ==
  /\ pass = Sleeping
  /\ pass' = IF sub.status \in Watched
             THEN [at |-> "read", row |-> sub, time |-> now]
             ELSE [at |-> "saved", time |-> now]
  /\ UNCHANGED <<now, sub, invoice, overwritten>>

(* A changed row is saved with every column as it was read. *)
PassSave ==
  LET row == pass.row
      new == [row EXCEPT !.status = DueStatus(row, pass.time)]
  IN /\ pass.at = "read"
     /\ IF new # row
        THEN sub' = new /\ overwritten' = (overwritten \/ sub # row)
        ELSE UNCHANGED <<sub, overwritten>>
     /\ pass' = [at |-> "saved", time |-> pass.time]
     /\ UNCHANGED <<now, invoice>>

PassMarksOverdue ==
  /\ pass.at = "saved"
  /\ invoice' = [i \in Invoices |->
       IF invoice[i].status = "issued" /\ invoice[i].due < pass.time
       THEN [invoice[i] EXCEPT !.status = "overdue"] ELSE invoice[i]]
  /\ pass' = Sleeping
  /\ UNCHANGED <<now, sub, overwritten>>

(* The pass dies; what it saved stays saved, and the loop starts another.  *)
PassCrash ==
  /\ pass # Sleeping
  /\ pass' = Sleeping
  /\ UNCHANGED <<now, sub, invoice, overwritten>>

PassStep == PassRead \/ PassSave \/ PassMarksOverdue

-----------------------------------------------------------------------------
Next ==
  \/ Tick
  \/ \E i \in Invoices : Issue(i) \/ Submit(i) \/ Approve(i) \/ Refuse(i)
  \/ Suspend
  \/ PassStep \/ PassCrash

Spec == Init /\ [][Next]_vars

(* The clock advances.  The scheduler container runs the pass for ever; a  *)
(* pass that dies is started again, and not every pass dies.               *)
FairSpec ==
  /\ Spec
  /\ WF_vars(Tick) /\ WF_vars(PassRead)
  /\ SF_vars(PassSave) /\ SF_vars(PassMarksOverdue)

-----------------------------------------------------------------------------
(* Properties *)

(* "An unpaid subscription invoice already exists" (the refusal of         *)
(* issue_subscription_invoice): two invoices that are open or paid never   *)
(* bill the same time, unless a pass has put back the end of a period.     *)
BilledOnce ==
  ~overwritten =>
    \A i, j \in Invoices :
      /\ i # j
      /\ {invoice[i].status, invoice[j].status} \subseteq Open \cup {"paid"}
      => invoice[i].to <= invoice[j].from \/ invoice[j].to <= invoice[i].from

(* A paid period is in the row, and a company is cut off as unpaid only    *)
(* when period and grace are over, unless a pass has saved over a payment  *)
(* that was verified, or over another change, since it read the row.       *)
PaidTimeIsServed ==
  ~overwritten =>
    /\ \A i \in Invoices : invoice[i].status = "paid" => invoice[i].to <= sub.ends
    /\ sub.status = "unpaid" => sub.ends + Grace <= now

(* The deadline passes suspend a company whose period and grace are over,  *)
(* from a trial too, unless something else ends its lapse.                 *)
Lapsed == sub.status \in Watched /\ sub.ends <= now /\ sub.grace <= now
LapsedIsSuspended == Lapsed ~> ~Lapsed
==============================================================================
