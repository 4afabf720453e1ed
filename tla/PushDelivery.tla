----------------------------- MODULE PushDelivery -----------------------------
(***************************************************************************)
(* Push notifications: their creation, the worker that dispatches them in  *)
(* batches, and the retry by the staff (backend/apps/notifications).  A    *)
(* notification whose available_at has come is in due, which is ordered as *)
(* the query of dispatch_push_batch is; one that waits for its             *)
(* available_at is in none.  The devices of a recipient are condensed to   *)
(* whether one has a push token, and their answers to one outcome.  The    *)
(* in-app copies, and expires_at, which nothing sets, are left out.        *)
(***************************************************************************)
EXTENDS Naturals, Sequences, FiniteSets, SequencesExt

CONSTANTS Notes,        \* push notifications
          Dispatchers,  \* processes that run dispatch_push
          BatchSize,    \* notifications in a batch, at most
          MaxAttempts   \* MAX_PUSH_ATTEMPTS

ASSUME SizesAssumption == BatchSize \in Nat \ {0} /\ MaxAttempts \in Nat \ {0}

VARIABLES status,     \* of each notification
          attempts,   \* highest attempt number of each, up to MaxAttempts
          token,      \* the recipients' devices have a push token
          due,        \* the notifications to be sent, in order of available_at
          batch,      \* what each worker has still to dispatch
          sending,    \* what each worker is sending, with the outcome
          retrying    \* notifications whose retry has read FAILED

pushVars == <<status, attempts, token, due, batch, sending, retrying>>

-----------------------------------------------------------------------------
Status == {"none", "queued", "failed", "sent"}
Outcome == {"accepted", "transient", "permanent", "no_device"}
Nothing == [note |-> {}]
Sending == [note : Notes, outcome : Outcome]

Listed == {due[k] : k \in DOMAIN due}

PushTypeOK ==
  /\ status \in [Notes -> Status]
  /\ attempts \in [Notes -> 0..MaxAttempts]
  /\ token \in [Notes -> BOOLEAN]
  /\ due \in Seq(Notes)
  /\ \A j, k \in DOMAIN due : j # k => due[j] # due[k]
  /\ \A n \in Listed : status[n] \in {"queued", "failed"}
  /\ batch \in [Dispatchers -> Seq(Notes)]
  /\ sending \in [Dispatchers -> Sending \cup {Nothing}]
  /\ retrying \subseteq Notes

PushInit ==
  /\ status = [n \in Notes |-> "none"]
  /\ attempts = [n \in Notes |-> 0]
  /\ token \in [Notes -> BOOLEAN]
  /\ due = <<>>
  /\ batch = [w \in Dispatchers |-> <<>>]
  /\ sending = [w \in Dispatchers |-> Nothing]
  /\ retrying = {}

-----------------------------------------------------------------------------
(* The worker holds the lock of the notification and is sending it.        *)
Sends(w, n) == sending[w] # Nothing /\ sending[w].note = n

Unlocked(n) == \A w \in Dispatchers : ~Sends(w, n)

Position(n) == CHOOSE k \in DOMAIN due : due[k] = n
Without(n) == IF n \in Listed THEN RemoveAt(due, Position(n)) ELSE due

OneMore(n) == [attempts EXCEPT ![n] = IF @ < MaxAttempts THEN @ + 1 ELSE @]

(* create_event_notifications: get_or_create with available_at = now. *)
Create(n) ==
  /\ status[n] = "none"
  /\ status' = [status EXCEPT ![n] = "queued"]
  /\ due' = Append(due, n)
  /\ UNCHANGED <<attempts, token, batch, sending, retrying>>

(* Mutant: what is due already becomes due again. *)
BecomeDueAgain(n) ==
  /\ status[n] \in {"queued", "failed"}
  /\ due' = Append(due, n)
  /\ UNCHANGED <<status, attempts, token, batch, sending, retrying>>

(* available_at comes. *)
BecomeDue(n) ==
  /\ status[n] \in {"queued", "failed"} /\ n \notin Listed
  /\ due' = Append(due, n)
  /\ UNCHANGED <<status, attempts, token, batch, sending, retrying>>

(* A device of the recipient registers a push token. *)
Register(n) ==
  /\ ~token[n]
  /\ token' = [token EXCEPT ![n] = TRUE]
  /\ UNCHANGED <<status, attempts, due, batch, sending, retrying>>

-----------------------------------------------------------------------------
(* dispatch_push_batch *)

(* The ids of a batch are read without a lock. *)
PickBatch(w) ==
  /\ batch[w] = <<>> /\ sending[w] = Nothing
  /\ due # <<>>
  /\ batch' = [batch EXCEPT ![w] =
                 SubSeq(due, 1,
                        IF Len(due) < BatchSize THEN Len(due) ELSE BatchSize)]
  /\ UNCHANGED <<status, attempts, token, due, sending, retrying>>

(* Mutant: what was read with the batch is not read again under the lock. *)
SendAsRead(w, n) ==
  /\ batch[w] # <<>> /\ Head(batch[w]) = n
  /\ sending[w] = Nothing /\ Unlocked(n)
  /\ batch' = [batch EXCEPT ![w] = Tail(@)]
  /\ \E o \in Outcome :
       /\ (o = "no_device") = ~token[n]
       /\ sending' = [sending EXCEPT ![w] = [note |-> n, outcome |-> o]]
  /\ UNCHANGED <<status, attempts, token, due, retrying>>

(* dispatch_one_push locks the notification, asks again whether it is to   *)
(* be sent, and calls the provider within the transaction.                 *)
Send(w, n) ==
  /\ batch[w] # <<>> /\ Head(batch[w]) = n
  /\ sending[w] = Nothing /\ Unlocked(n)
  /\ batch' = [batch EXCEPT ![w] = Tail(@)]
  /\ IF n \in Listed
     THEN \E o \in Outcome :
            /\ (o = "no_device") = ~token[n]
            /\ sending' = [sending EXCEPT ![w] = [note |-> n, outcome |-> o]]
     ELSE UNCHANGED sending
  /\ UNCHANGED <<status, attempts, token, due, retrying>>

(* The notification's status and place after the outcome. *)
Record(n, outcome) ==
  /\ status' = [status EXCEPT ![n] =
       IF outcome = "accepted" THEN "sent" ELSE "failed"]
  /\ attempts' = IF outcome = "no_device" THEN attempts ELSE OneMore(n)
  /\ due' = IF outcome \in {"accepted", "no_device"}
                 \/ (outcome = "transient" /\ attempts[n] + 1 < MaxAttempts)
            THEN Without(n) ELSE due

(* Mutant: a notification without devices keeps its available_at. *)
CommitInPlace(w, n) ==
  LET outcome == sending[w].outcome
  IN /\ Sends(w, n)
     /\ status' = [status EXCEPT ![n] =
          IF outcome = "accepted" THEN "sent" ELSE "failed"]
     /\ attempts' = IF outcome = "no_device" THEN attempts ELSE OneMore(n)
     /\ due' = IF outcome = "accepted"
                    \/ (outcome = "transient" /\ attempts[n] + 1 < MaxAttempts)
               THEN Without(n) ELSE due
     /\ token' = [token EXCEPT ![n] = @ /\ outcome # "permanent"]
     /\ sending' = [sending EXCEPT ![w] = Nothing]
     /\ UNCHANGED <<batch, retrying>>

(* A token the provider calls invalid is deleted with the same commit. *)
CommitSend(w, n) ==
  /\ Sends(w, n)
  /\ Record(n, sending[w].outcome)
  /\ token' = [token EXCEPT ![n] = @ /\ sending[w].outcome # "permanent"]
  /\ sending' = [sending EXCEPT ![w] = Nothing]
  /\ UNCHANGED <<batch, retrying>>

(* The process dies, maybe when the provider has accepted; another takes   *)
(* its place.                                                              *)
Crash(w) ==
  /\ batch[w] # <<>> \/ sending[w] # Nothing
  /\ batch' = [batch EXCEPT ![w] = <<>>]
  /\ sending' = [sending EXCEPT ![w] = Nothing]
  /\ UNCHANGED <<status, attempts, token, due, retrying>>

-----------------------------------------------------------------------------
(* retry_notification, which locks nothing *)

RetryRead(n) ==
  /\ status[n] = "failed"
  /\ retrying' = retrying \cup {n}
  /\ UNCHANGED <<status, attempts, token, due, batch, sending>>

(* The retry takes the number of attempts, one for each device, for the    *)
(* next attempt number, so the number may rise by more than one.           *)
RetryNumber(n) ==
  {k \in attempts[n]..MaxAttempts : k > attempts[n] \/ k = MaxAttempts}

RetryWrite(n) ==
  /\ n \in retrying /\ Unlocked(n)
  /\ \E k \in RetryNumber(n) : attempts' = [attempts EXCEPT ![n] = k]
  /\ status' = [status EXCEPT ![n] = "queued"]
  /\ due' = Append(Without(n), n)
  /\ retrying' = retrying \ {n}
  /\ UNCHANGED <<token, batch, sending>>

(* The request dies; the attempt it recorded stays. *)
RetryDies(n) ==
  /\ n \in retrying
  /\ \E k \in {attempts[n]} \cup RetryNumber(n) :
       attempts' = [attempts EXCEPT ![n] = k]
  /\ retrying' = retrying \ {n}
  /\ UNCHANGED <<status, token, due, batch, sending>>

-----------------------------------------------------------------------------
Dispatch(w) ==
  PickBatch(w) \/ Crash(w) \/ \E n \in Notes : Send(w, n) \/ CommitSend(w, n)

PushNext ==
  \/ \E n \in Notes : \/ Create(n) \/ BecomeDue(n) \/ Register(n)
                      \/ RetryRead(n) \/ RetryWrite(n) \/ RetryDies(n)
  \/ \E w \in Dispatchers : Dispatch(w)

PushSpec == PushInit /\ [][PushNext]_pushVars

(* Time passes.  The containers start dispatch_push every five seconds;    *)
(* processes may die, but not at every attempt at one notification.        *)
PushFairSpec ==
  /\ PushSpec
  /\ \A n \in Notes : WF_pushVars(BecomeDue(n))
  /\ \A w \in Dispatchers :
       /\ WF_pushVars(PickBatch(w))
       /\ \A n \in Notes : SF_pushVars(Send(w, n)) /\ SF_pushVars(CommitSend(w, n))

-----------------------------------------------------------------------------
(* Properties *)

(* A notification that was sent is sent again only if the staff's retry    *)
(* was decided before, and whatever ids two workers have read.             *)
SentStaysSent ==
  [][\A n \in Notes : status[n] = "sent" /\ n \notin retrying =>
       status'[n] = "sent"]_pushVars

(* As many notifications as a batch takes are in front of n and have used  *)
(* up their attempts: dispatch_push_batch picks them, and only them, for   *)
(* ever, for they keep their available_at.                                 *)
Behind(n) ==
  n \in Listed /\
    LET ahead == {k \in 1..(Position(n) - 1) : attempts[due[k]] = MaxAttempts}
    IN Cardinality(ahead) >= BatchSize

(* Every queued notification is tried, or is behind such ones.             *)
QueuedIsTried ==
  \A n \in Notes :
    status[n] = "queued" ~> (status[n] # "queued" \/ Behind(n))
==============================================================================
