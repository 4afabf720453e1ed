------------------------------ MODULE OfflineSync ------------------------------
(***************************************************************************)
(* The upload half of offline synchronisation (backend/apps/offline): a    *)
(* device sends batches of operations under client-generated ids and       *)
(* sends them again until it has an answer; each operation is applied in a *)
(* transaction of its own, and its id is unique in the database.  What an  *)
(* operation does to bookings, tickets or payments is one step here: the   *)
(* services it calls are the other modules.                                *)
(***************************************************************************)
EXTENDS Naturals

CONSTANTS Size,     \* how many operations the device queues (a bound)
          Ids,      \* client operation ids
          IdOf,     \* the id of each operation; one may be reused by mistake
          Raises,   \* those whose handler raises what the service lets pass
          Workers,  \* request handlers of SyncPushView
          MaxCuts   \* how many requests are cut off (a bound)

(* The operations, in the order the device queues them. *)
Items == 1..Size

ASSUME SizeAssumption == Size \in Nat
ASSUME IdAssumption == IdOf \in [Items -> Ids]
ASSUME RaisesAssumption == Raises \subseteq Items
ASSUME MaxCutsAssumption == MaxCuts \in Nat

VARIABLES device,    \* status of the Device row
          queued,    \* how many operations are queued so far
          issuing,   \* a snapshot is being issued
          snapshot,  \* a live AuthorizationSnapshot exists
          row,       \* the committed SyncOperation row of each id
          effects,   \* how often each item took effect
          told,      \* the answers the device got for each item
          req,       \* what each worker is doing
          cuts       \* requests cut off so far

enrolment == <<device, queued, issuing, snapshot>>
vars == <<enrolment, row, effects, told, req, cuts>>

-----------------------------------------------------------------------------
Outcomes == {"applied", "rejected", "conflict"}
Answers == Outcomes \cup {"reused"}

NoRow == [item |-> 0, status |-> "none"]
SyncOperation == [item : Items, status : Outcomes] \cup {NoRow}

Idle == [step |-> "idle", todo |-> {}, answers |-> {}]
Request == [step : {"lookup", "insert", "handle"}, todo : SUBSET Items,
            answers : SUBSET (Items \X Answers)]

TypeOK ==
  /\ device \in {"active", "revoked"}
  /\ queued \in 0..Size
  /\ issuing \in BOOLEAN
  /\ snapshot \in BOOLEAN
  /\ row \in [Ids -> SyncOperation]
  /\ effects \in [Items -> Nat]
  /\ told \in [Items -> SUBSET Answers]
  /\ req \in [Workers -> Request \cup {Idle}]
  /\ cuts \in 0..MaxCuts

Init ==
  /\ device = "active"
  /\ queued = 0
  /\ issuing = FALSE
  /\ snapshot = FALSE
  /\ row = [i \in Ids |-> NoRow]
  /\ effects = [n \in Items |-> 0]
  /\ told = [n \in Items |-> {}]
  /\ req = [w \in Workers |-> Idle]
  /\ cuts = 0

-----------------------------------------------------------------------------
(* The worker is at this step of the first item left in its batch. *)
At(w, step, n) ==
  /\ req[w].step = step
  /\ n \in req[w].todo
  /\ \A m \in req[w].todo : n <= m

Become(w, r) == req' = [req EXCEPT ![w] = r]
GoTo(w, step) == Become(w, [req[w] EXCEPT !.step = step])

(* The rest of the batch, with the answer to this item. *)
NextItem(w, n, answer) ==
  [step |-> "lookup", todo |-> req[w].todo \ {n},
   answers |-> req[w].answers \cup {<<n, answer>>}]

(* What is queued and has no answer yet. *)
Waiting == {n \in 1..queued : told[n] = {}}

-----------------------------------------------------------------------------
(* The device *)

Enqueue ==
  /\ queued < Size
  /\ queued' = queued + 1
  /\ UNCHANGED <<device, issuing, snapshot, row, effects, told, req, cuts>>

(* AuthorizationSnapshotIssueView reads the device in no transaction, so   *)
(* the snapshot may be created after the device was revoked.               *)
RequestSnapshot ==
  /\ device = "active"
  /\ issuing' = TRUE
  /\ UNCHANGED <<device, queued, snapshot, row, effects, told, req, cuts>>

IssueSnapshot ==
  /\ issuing
  /\ issuing' = FALSE
  /\ snapshot' = TRUE
  /\ UNCHANGED <<device, queued, row, effects, told, req, cuts>>

(* SNAPSHOT_LIFETIME is over. *)
SnapshotExpires ==
  /\ snapshot
  /\ snapshot' = FALSE
  /\ UNCHANGED <<device, queued, issuing, row, effects, told, req, cuts>>

Revoke ==
  /\ device = "active"
  /\ device' = "revoked"
  /\ snapshot' = FALSE
  /\ UNCHANGED <<queued, issuing, row, effects, told, req, cuts>>

(* Enrolling the same installation again reactivates the row. *)
Enroll ==
  /\ device = "revoked"
  /\ device' = "active"
  /\ UNCHANGED <<queued, issuing, snapshot, row, effects, told, req, cuts>>

(* The device sends what is not answered, oldest first; it may have given  *)
(* up waiting for a request that still runs.  SyncPushView checks the      *)
(* device and the snapshot here, once for the batch.                       *)
Push(w) ==
  /\ req[w] = Idle
  /\ device = "active"
  /\ snapshot
  /\ Waiting # {}
  /\ Become(w, [step |-> "lookup", todo |-> Waiting, answers |-> {}])
  /\ UNCHANGED <<enrolment, row, effects, told, cuts>>

-----------------------------------------------------------------------------
(* apply_sync_operation *)

(* Mutant: the content of an id that is known is not compared. *)
LookupByIdOnly(w, n) ==
  /\ At(w, "lookup", n)
  /\ LET known == row[IdOf[n]]
     IN IF known = NoRow THEN GoTo(w, "insert")
                         ELSE Become(w, NextItem(w, n, known.status))
  /\ UNCHANGED <<enrolment, row, effects, told, cuts>>

(* Mutant: only an operation that was applied is looked up. *)
LookupApplied(w, n) ==
  /\ At(w, "lookup", n)
  /\ LET known == row[IdOf[n]]
     IN IF known.status # "applied" THEN GoTo(w, "insert")
        ELSE Become(w, NextItem(w, n, IF known.item = n
                                   THEN known.status ELSE "reused"))
  /\ UNCHANGED <<enrolment, row, effects, told, cuts>>

Lookup(w, n) ==
  /\ At(w, "lookup", n)
  /\ LET known == row[IdOf[n]]
     IN IF known = NoRow THEN GoTo(w, "insert")
        ELSE Become(w, NextItem(w, n, IF known.item = n
                                   THEN known.status ELSE "reused"))
  /\ UNCHANGED <<enrolment, row, effects, told, cuts>>

(* Mutant: no unique constraint on the id. *)
InsertTwice(w, n) ==
  /\ At(w, "insert", n)
  /\ GoTo(w, "handle")
  /\ UNCHANGED <<enrolment, row, effects, told, cuts>>

(* The row is inserted, not yet committed; the unique index makes a second *)
(* insert of its id wait.                                                  *)
Inserting(i) ==
  {v \in Workers : \E m \in Items : At(v, "handle", m) /\ IdOf[m] = i}
Insert(w, n) ==
  /\ At(w, "insert", n)
  /\ Inserting(IdOf[n]) = {}
  /\ row[IdOf[n]] = NoRow
  /\ GoTo(w, "handle")
  /\ UNCHANGED <<enrolment, row, effects, told, cuts>>

(* The insert that waited fails with IntegrityError, which the view does   *)
(* not catch: the request is answered 500, without what it did so far.     *)
InsertFails(w, n) ==
  /\ At(w, "insert", n)
  /\ row[IdOf[n]] # NoRow
  /\ Become(w, Idle)
  /\ UNCHANGED <<enrolment, row, effects, told, cuts>>

(* Mutant: a refusal is answered and not kept. *)
HandleKeepsSuccess(w, n, outcome) ==
  /\ At(w, "handle", n)
  /\ n \notin Raises
  /\ row' = [row EXCEPT ![IdOf[n]] =
               IF outcome = "applied" THEN [item |-> n, status |-> outcome]
                                      ELSE @]
  /\ effects' = [effects EXCEPT ![n] = IF outcome = "applied" THEN @ + 1
                                                               ELSE @]
  /\ Become(w, NextItem(w, n, outcome))
  /\ UNCHANGED <<enrolment, told, cuts>>

(* Mutant: the outcome is not saved with the row. *)
HandleUnsaved(w, n, outcome) ==
  /\ At(w, "handle", n)
  /\ n \notin Raises
  /\ row' = [row EXCEPT ![IdOf[n]] = [item |-> n, status |-> "received"]]
  /\ effects' = [effects EXCEPT ![n] = IF outcome = "applied" THEN @ + 1
                                                               ELSE @]
  /\ Become(w, NextItem(w, n, outcome))
  /\ UNCHANGED <<enrolment, told, cuts>>

(* The handler succeeds, or refuses and leaves nothing but the row; the    *)
(* transaction commits.                                                    *)
Handle(w, n, outcome) ==
  /\ At(w, "handle", n)
  /\ n \notin Raises
  /\ row' = [row EXCEPT ![IdOf[n]] = [item |-> n, status |-> outcome]]
  /\ effects' = [effects EXCEPT ![n] = IF outcome = "applied" THEN @ + 1
                                                               ELSE @]
  /\ Become(w, NextItem(w, n, outcome))
  /\ UNCHANGED <<enrolment, told, cuts>>

(* The handler raises an exception that neither the service nor the view   *)
(* catches: the operation rolls back, the rest of the batch is not looked  *)
(* at, and the request is answered 500.                                    *)
HandleRaises(w, n) ==
  /\ At(w, "handle", n)
  /\ n \in Raises
  /\ Become(w, Idle)
  /\ UNCHANGED <<enrolment, row, effects, told, cuts>>

(* The worker dies, and an operation under way rolls back; or the response *)
(* is lost.                                                                *)
CutOff(w) ==
  /\ req[w] # Idle
  /\ cuts < MaxCuts
  /\ cuts' = cuts + 1
  /\ Become(w, Idle)
  /\ UNCHANGED <<enrolment, row, effects, told>>

(* The response reaches the device.                                        *)
Respond(w) ==
  /\ req[w] # Idle
  /\ req[w].todo = {}
  /\ told' = [n \in Items |->
                told[n] \cup {a \in Answers : <<n, a>> \in req[w].answers}]
  /\ Become(w, Idle)
  /\ UNCHANGED <<enrolment, row, effects, cuts>>

-----------------------------------------------------------------------------
Process(w) ==
  \/ \E n \in Items :
       \/ Lookup(w, n) \/ Insert(w, n) \/ InsertFails(w, n)
       \/ HandleRaises(w, n)
       \/ \E outcome \in Outcomes : Handle(w, n, outcome)
  \/ Respond(w)

Next ==
  \/ Enqueue \/ Revoke \/ Enroll
  \/ RequestSnapshot \/ IssueSnapshot \/ SnapshotExpires
  \/ \E w \in Workers : Push(w) \/ Process(w) \/ CutOff(w)

Spec == Init /\ [][Next]_vars

(* A device that is enrolled renews its snapshot and sends again, however  *)
(* often the snapshot runs out between; gunicorn's workers run a request   *)
(* to its end; the cuts are finite.                                        *)
Fairness ==
  /\ WF_vars(RequestSnapshot) /\ WF_vars(IssueSnapshot)
  /\ SF_vars(\E w \in Workers : Push(w))
  /\ \A w \in Workers : WF_vars(Process(w))

FairSpec == Spec /\ Fairness

-----------------------------------------------------------------------------
(* Properties *)

(* "Reusing the UUID with identical content returns the existing result",  *)
(* and with other content "never executes the second request" (07-         *)
(* notification-offline-sync.md): whatever is repeated or cut off, among   *)
(* the items of one id at most one takes effect, and it does so once.      *)
AppliedOnce ==
  \A m, n \in Items : IdOf[m] = IdOf[n] =>
    effects[m] + (IF m = n THEN 0 ELSE effects[n]) <= 1

(* A device that is told "applied" can rely on it, and what it is told was *)
(* refused has not happened behind its back and never will.                *)
ToldTheTruth ==
  \A n \in Items : \A a \in told[n] : (a = "applied") <=> (effects[n] = 1)

(* "Every upload result is retained": an answer, once given, is the answer *)
(* to every repetition, so no item is told two things.                     *)
OneAnswer == \A n \in Items : \A a, b \in told[n] : a = b

(* Ids are decided once, together with their effect, and the device hears  *)
(* nothing but these decisions, whatever requests run at once, repeat one  *)
(* another or are cut off: this is OperationLedger.                        *)
Decided ==
  {<<row[i].item, row[i].status>> : i \in {j \in Ids : row[j] # NoRow}}

Ledger == INSTANCE OperationLedger WITH decided <- Decided

ImplementsLedger == Ledger!Spec

(* A device that stays enrolled is told about each operation it queues, as *)
(* long as none that raises is among them: one of those makes every        *)
(* request that holds it fail, and hides the answers to all the others.    *)
EveryItemIsAnswered ==
  (/\ <>[](device = "active")
   /\ [](\A n \in 1..queued : n \notin Raises))
    => \A n \in Items : [](n <= queued => <>(told[n] # {}))
==============================================================================
