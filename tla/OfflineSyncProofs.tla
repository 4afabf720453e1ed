--------------------------- MODULE OfflineSyncProofs ---------------------------
(***************************************************************************)
(* Theorems of OfflineSync for any operations, ids, workers and cuts:      *)
(* each id takes effect once, answers are true and final, and the whole    *)
(* implements OperationLedger, which is enough for all of these.           *)
(***************************************************************************)
EXTENDS OfflineSync, TLAPS

(* What an operation was answered follows from the row of its id, and      *)
(* effects and rows agree.                                                 *)
AnswerTo(n) == IF row[IdOf[n]].item = n THEN row[IdOf[n]].status ELSE "reused"

EffectsFollowRows ==
  \A n \in Items :
    effects[n] = IF row[IdOf[n]] = [item |-> n, status |-> "applied"]
                 THEN 1 ELSE 0

(* A transaction that inserted a row is alone with its id. *)
InsertsAreAlone ==
  \A w \in Workers : \A n \in Items :
    At(w, "handle", n) =>
      /\ row[IdOf[n]] = NoRow
      /\ \A v \in Workers : \A m \in Items :
           (At(v, "handle", m) /\ IdOf[m] = IdOf[n]) => v = w

AnswersFollowRows ==
  /\ \A w \in Workers : \A n \in Items : \A a \in Answers :
       <<n, a>> \in req[w].answers => /\ row[IdOf[n]] # NoRow
                                      /\ a = AnswerTo(n)
  /\ \A n \in Items : \A a \in told[n] : /\ row[IdOf[n]] # NoRow
                                         /\ a = AnswerTo(n)

IInv ==
  /\ TypeOK
  /\ EffectsFollowRows
  /\ InsertsAreAlone
  /\ AnswersFollowRows

-----------------------------------------------------------------------------
(* Types *)

LEMMA NextItemType ==
  ASSUME TypeOK, NEW w \in Workers, NEW n \in Items, NEW a \in Answers,
         req[w] # Idle
  PROVE  NextItem(w, n, a) \in Request
<1>1. req[w] \in Request
  BY DEF TypeOK
<1>2. req[w].todo \ {n} \in SUBSET Items
  BY <1>1 DEF Request
<1>3. req[w].answers \cup {<<n, a>>} \in SUBSET (Items \X Answers)
  BY <1>1 DEF Request
<1> QED
  BY <1>2, <1>3 DEF NextItem, Request

LEMMA AtIsBusy ==
  ASSUME TypeOK, NEW w \in Workers, NEW n \in Items, NEW step, At(w, step, n)
  PROVE  req[w] # Idle /\ req[w] \in Request
BY DEF TypeOK, At, Idle

LEMMA TypeStep ==
  ASSUME TypeOK, [Next]_vars
  PROVE  TypeOK'
<1> USE SizeAssumption, IdAssumption, MaxCutsAssumption
<1>1. CASE UNCHANGED vars
  BY <1>1 DEF TypeOK, vars, enrolment
<1>2. CASE \/ Enqueue \/ Revoke \/ Enroll
          \/ RequestSnapshot \/ IssueSnapshot \/ SnapshotExpires
  <2>1. queued' \in 0..Size
    BY <1>2 DEF TypeOK, enrolment, Enqueue, Revoke, Enroll, RequestSnapshot,
                IssueSnapshot, SnapshotExpires
  <2>2. UNCHANGED <<row, effects, told, req, cuts>>
    BY <1>2 DEF Enqueue, Revoke, Enroll, RequestSnapshot, IssueSnapshot,
                SnapshotExpires
  <2>3. /\ device' \in {"active", "revoked"}
        /\ issuing' \in BOOLEAN
        /\ snapshot' \in BOOLEAN
    BY <1>2 DEF TypeOK, enrolment, Enqueue, Revoke, Enroll, RequestSnapshot,
                IssueSnapshot, SnapshotExpires
  <2> QED
    BY <2>1, <2>2, <2>3 DEF TypeOK
<1>3. ASSUME NEW w \in Workers, Push(w)
      PROVE  TypeOK'
  <2>1. Waiting \in SUBSET Items
    BY DEF TypeOK, Waiting, Items
  <2>2. [step |-> "lookup", todo |-> Waiting, answers |-> {}] \in Request
    BY <2>1 DEF Request
  <2> QED
    BY <1>3, <2>2 DEF TypeOK, enrolment, Push, Become
<1>4. ASSUME NEW w \in Workers, CutOff(w)
      PROVE  TypeOK'
  BY <1>4 DEF TypeOK, enrolment, CutOff, Become
<1>5. ASSUME NEW w \in Workers, NEW n \in Items, Lookup(w, n)
      PROVE  TypeOK'
  <2> DEFINE known == row[IdOf[n]]
             answer == IF known.item = n THEN known.status ELSE "reused"
  <2>1. req[w] # Idle /\ req[w] \in Request
    BY <1>5, AtIsBusy DEF Lookup
  <2>2. CASE known = NoRow
    BY <1>5, <2>1, <2>2 DEF TypeOK, enrolment, Lookup, GoTo, Become, Request
  <2>3. CASE known # NoRow
    <3>1. answer \in Answers
      BY <2>3 DEF TypeOK, SyncOperation, Answers
    <3>2. NextItem(w, n, answer) \in Request
      BY <2>1, <3>1, NextItemType
    <3>3. req' = [req EXCEPT ![w] = NextItem(w, n, answer)]
      BY <1>5, <2>3 DEF Lookup, Become
    <3> QED
      BY <1>5, <3>2, <3>3 DEF TypeOK, enrolment, Lookup
  <2> QED
    BY <2>2, <2>3
<1>6. ASSUME NEW w \in Workers, NEW n \in Items, Insert(w, n)
      PROVE  TypeOK'
  <2>1. req[w] \in Request
    BY <1>6, AtIsBusy DEF Insert
  <2> QED
    BY <1>6, <2>1 DEF TypeOK, enrolment, Insert, GoTo, Become, Request
<1>7. ASSUME NEW w \in Workers, NEW n \in Items,
             InsertFails(w, n) \/ HandleRaises(w, n)
      PROVE  TypeOK'
  BY <1>7 DEF TypeOK, enrolment, InsertFails, HandleRaises, Become
<1>8. ASSUME NEW w \in Workers, NEW n \in Items, NEW outcome \in Outcomes,
             Handle(w, n, outcome)
      PROVE  TypeOK'
  <2>1. NextItem(w, n, outcome) \in Request
    BY <1>8, AtIsBusy, NextItemType DEF Handle, Answers
  <2>2. [item |-> n, status |-> outcome] \in SyncOperation
    BY DEF SyncOperation
  <2> QED
    BY <1>8, <2>1, <2>2 DEF TypeOK, enrolment, Handle, Become
<1>9. ASSUME NEW w \in Workers, Respond(w)
      PROVE  TypeOK'
  BY <1>9 DEF TypeOK, enrolment, Respond, Become
<1> QED
  BY <1>1, <1>2, <1>3, <1>4, <1>5, <1>6, <1>7, <1>8, <1>9 DEF Next, Process

LEMMA TypeInit == Init => TypeOK
<1> SUFFICES ASSUME Init
             PROVE  TypeOK
  OBVIOUS
<1>1. queued \in 0..Size /\ cuts \in 0..MaxCuts
  BY SizeAssumption, MaxCutsAssumption DEF Init
<1>2. /\ row \in [Ids -> SyncOperation]
      /\ effects \in [Items -> Nat]
      /\ told \in [Items -> SUBSET Answers]
      /\ req \in [Workers -> Request \cup {Idle}]
  BY DEF Init, SyncOperation
<1> QED
  BY <1>1, <1>2 DEF Init, TypeOK

(* Every reachable state is well typed: each recorded operation has a      *)
(* final outcome, and no worker holds a request it cannot go on with.      *)
THEOREM TypeCorrect == Spec => []TypeOK
BY TypeInit, TypeStep, PTL DEF Spec

-----------------------------------------------------------------------------
(* The invariant: a known id keeps its row, and a transaction that is      *)
(* inserting one is alone.                                                 *)

(* A step of one worker leaves where the others are.                       *)
LEMMA OthersStay ==
  ASSUME TypeOK, NEW w \in Workers, NEW r, Become(w, r),
         NEW v \in Workers, v # w, NEW step, NEW n
  PROVE  /\ req'[v] = req[v]
         /\ At(v, step, n)' <=> At(v, step, n)
<1>1. req'[v] = req[v]
  BY DEF TypeOK, Become
<1> QED
  BY <1>1 DEF At

LEMMA AtHere ==
  ASSUME TypeOK, NEW w \in Workers, NEW r, Become(w, r)
  PROVE  req'[w] = r
BY DEF TypeOK, Become

(* Two first items of one batch are the same one.                          *)
LEMMA OneFirst ==
  ASSUME TypeOK, NEW w \in Workers, NEW step, NEW n \in Items,
         NEW m \in Items, At(w, step, n), At(w, step, m)
  PROVE  m = n
BY DEF At, Items

(* A step that touches no row and gives no answer, and after which the     *)
(* worker w is not in a transaction.                                       *)
LEMMA StepsAside ==
  ASSUME IInv, TypeOK', NEW w \in Workers, NEW r, Become(w, r),
         r.step # "handle", UNCHANGED <<row, effects, told>>,
         \A n \in Items : \A a \in Answers : <<n, a>> \in r.answers =>
           row[IdOf[n]] # NoRow /\ a = AnswerTo(n)
  PROVE  IInv'
<1>1. TypeOK
  BY DEF IInv
<1>2. req'[w] = r
  BY <1>1, AtHere
<1>3. \A v \in Workers : \A n \in Items :
        At(v, "handle", n)' => v # w /\ At(v, "handle", n)
  <2> SUFFICES ASSUME NEW v \in Workers, NEW n \in Items,
                      At(v, "handle", n)'
               PROVE  v # w /\ At(v, "handle", n)
    OBVIOUS
  <2>1. v # w
    BY <1>2 DEF At
  <2> QED
    BY <1>1, <2>1, OthersStay
<1>4. EffectsFollowRows'
  BY DEF IInv, EffectsFollowRows
<1>5. InsertsAreAlone'
  <2> SUFFICES ASSUME NEW v \in Workers, NEW n \in Items,
                      At(v, "handle", n)'
               PROVE  /\ (row[IdOf[n]] = NoRow)'
                      /\ \A u \in Workers : \A m \in Items :
                           (At(u, "handle", m)' /\ IdOf[m] = IdOf[n]) => u = v
    BY DEF InsertsAreAlone
  <2> QED
    BY <1>3 DEF IInv, InsertsAreAlone
<1>6. AnswersFollowRows'
  <2>1. ASSUME NEW v \in Workers, NEW n \in Items, NEW a \in Answers,
               <<n, a>> \in req'[v].answers
        PROVE  row[IdOf[n]] # NoRow /\ a = AnswerTo(n)
    <3>1. CASE v = w
      BY <1>2, <2>1, <3>1
    <3>2. CASE v # w
      <4>1. req'[v] = req[v]
        BY <1>1, <3>2, OthersStay
      <4> QED
        BY <2>1, <4>1 DEF IInv, AnswersFollowRows
    <3> QED
      BY <3>1, <3>2
  <2>2. \A n \in Items : AnswerTo(n)' = AnswerTo(n)
    BY DEF AnswerTo
  <2> QED
    BY <2>1, <2>2 DEF IInv, AnswersFollowRows
<1> QED
  BY <1>4, <1>5, <1>6 DEF IInv

LEMMA LookupKeeps ==
  ASSUME IInv, TypeOK', NEW w \in Workers, NEW n \in Items, Lookup(w, n)
  PROVE  IInv'
<1> DEFINE known == row[IdOf[n]]
           answer == IF known.item = n THEN known.status ELSE "reused"
<1>1. TypeOK /\ UNCHANGED <<row, effects, told>>
  BY DEF IInv, Lookup
<1>2. CASE known = NoRow
  <2>1. Become(w, [req[w] EXCEPT !.step = "insert"])
    BY <1>2 DEF Lookup, GoTo
  <2>2. req[w] \in Request
    BY <1>1, AtIsBusy DEF Lookup
  <2>3. /\ [req[w] EXCEPT !.step = "insert"].step # "handle"
        /\ [req[w] EXCEPT !.step = "insert"].answers = req[w].answers
    BY <2>2 DEF Request
  <2> DEFINE r == [req[w] EXCEPT !.step = "insert"]
  <2>4. /\ Become(w, r)
        /\ r.step # "handle"
        /\ \A m \in Items : \A a \in Answers : <<m, a>> \in r.answers =>
             row[IdOf[m]] # NoRow /\ a = AnswerTo(m)
    BY <2>1, <2>3 DEF IInv, AnswersFollowRows
  <2> HIDE DEF r
  <2> QED
    BY <1>1, <2>4, StepsAside
<1>3. CASE known # NoRow
  <2>1. Become(w, NextItem(w, n, answer))
    BY <1>3 DEF Lookup
  <2>2. NextItem(w, n, answer).step # "handle"
    BY DEF NextItem
  <2>3. ASSUME NEW m \in Items, NEW a \in Answers,
               <<m, a>> \in NextItem(w, n, answer).answers
        PROVE  row[IdOf[m]] # NoRow /\ a = AnswerTo(m)
    <3>1. CASE <<m, a>> \in req[w].answers
      BY <3>1 DEF IInv, AnswersFollowRows
    <3>2. CASE m = n /\ a = answer
      BY <1>3, <3>2 DEF AnswerTo
    <3> QED
      BY <2>3, <3>1, <3>2 DEF NextItem
  <2> DEFINE r == NextItem(w, n, answer)
  <2>4. /\ Become(w, r)
        /\ r.step # "handle"
        /\ \A m \in Items : \A a \in Answers : <<m, a>> \in r.answers =>
             row[IdOf[m]] # NoRow /\ a = AnswerTo(m)
    BY <2>1, <2>2, <2>3
  <2> HIDE DEF r
  <2> QED
    BY <1>1, <2>4, StepsAside
<1> QED
  BY <1>2, <1>3

(* The insert succeeds only when no other one of its id is under way.      *)
LEMMA InsertKeeps ==
  ASSUME IInv, TypeOK', NEW w \in Workers, NEW n \in Items, Insert(w, n)
  PROVE  IInv'
<1>1. TypeOK /\ UNCHANGED <<row, effects, told>>
  BY DEF IInv, Insert
<1>2. req[w] \in Request
  BY <1>1, AtIsBusy DEF Insert
<1>3. Become(w, [req[w] EXCEPT !.step = "handle"])
  BY DEF Insert, GoTo
<1>4. /\ req'[w].todo = req[w].todo
      /\ req'[w].answers = req[w].answers
  <2>1. req'[w] = [req[w] EXCEPT !.step = "handle"]
    BY <1>1, <1>3, AtHere
  <2> QED
    BY <1>2, <2>1 DEF Request
<1>5. ASSUME NEW m \in Items, At(w, "handle", m)'
      PROVE  m = n
  <2>1. At(w, "insert", m)
    BY <1>4, <1>5 DEF At, Insert
  <2> QED
    BY <1>1, <2>1, OneFirst DEF Insert
<1>6. ASSUME NEW v \in Workers, v # w, NEW m \in Items
      PROVE  At(v, "handle", m)' <=> At(v, "handle", m)
  BY <1>1, <1>3, <1>6, OthersStay
<1>7. InsertsAreAlone'
  <2> SUFFICES ASSUME NEW v \in Workers, NEW m \in Items,
                      At(v, "handle", m)'
               PROVE  /\ row[IdOf[m]] = NoRow
                      /\ \A u \in Workers : \A k \in Items :
                           (At(u, "handle", k)' /\ IdOf[k] = IdOf[m]) => u = v
    BY <1>1 DEF InsertsAreAlone
  <2>1. ASSUME NEW u \in Workers, NEW k \in Items, At(u, "handle", k),
               IdOf[k] = IdOf[n]
        PROVE  FALSE
    BY <2>1 DEF Insert, Inserting
  <2>2. CASE v = w
    BY <1>5, <1>6, <2>1, <2>2 DEF Insert
  <2>3. CASE v # w
    <3>1. At(v, "handle", m)
      BY <1>6, <2>3
    <3>2. row[IdOf[m]] = NoRow
      BY <3>1 DEF IInv, InsertsAreAlone
    <3>3. ASSUME NEW u \in Workers, NEW k \in Items, At(u, "handle", k)',
                 IdOf[k] = IdOf[m]
          PROVE  u = v
      <4>1. CASE u = w
        BY <1>5, <2>1, <3>1, <3>3, <4>1
      <4>2. CASE u # w
        BY <1>6, <3>1, <3>3, <4>2 DEF IInv, InsertsAreAlone
      <4> QED
        BY <4>1, <4>2
    <3> QED
      BY <3>2, <3>3
  <2> QED
    BY <2>2, <2>3
<1>8. AnswersFollowRows'
  <2>1. \A v \in Workers : req'[v].answers = req[v].answers
    BY <1>1, <1>3, <1>4, OthersStay
  <2>2. \A m \in Items : AnswerTo(m)' = AnswerTo(m)
    BY <1>1 DEF AnswerTo
  <2> QED
    BY <1>1, <2>1, <2>2 DEF IInv, AnswersFollowRows
<1>9. EffectsFollowRows'
  BY <1>1 DEF IInv, EffectsFollowRows
<1> QED
  BY <1>7, <1>8, <1>9 DEF IInv

(* The commit of an operation: its id is new, so no answer given before    *)
(* and no effect of another operation is about this row.                   *)
LEMMA HandleKeeps ==
  ASSUME IInv, TypeOK', NEW w \in Workers, NEW n \in Items,
         NEW outcome \in Outcomes, Handle(w, n, outcome)
  PROVE  IInv'
<1> DEFINE i == IdOf[n]
           new == [item |-> n, status |-> outcome]
           r == NextItem(w, n, outcome)
<1>1. /\ TypeOK
      /\ At(w, "handle", n)
      /\ row' = [row EXCEPT ![i] = new]
      /\ effects' = [effects EXCEPT ![n] =
                       IF outcome = "applied" THEN @ + 1 ELSE @]
      /\ Become(w, r)
      /\ UNCHANGED told
  BY DEF IInv, Handle
<1>2. i \in Ids /\ \A m \in Items : IdOf[m] \in Ids
  BY IdAssumption
<1>3. row[i] = NoRow /\ new # NoRow
  BY <1>1 DEF IInv, InsertsAreAlone, NoRow, Items
<1>4. row'[i] = new
  BY <1>1, <1>2 DEF TypeOK
<1>5. ASSUME NEW m \in Items, IdOf[m] # i
      PROVE  row'[IdOf[m]] = row[IdOf[m]] /\ AnswerTo(m)' = AnswerTo(m)
  <2>1. row'[IdOf[m]] = row[IdOf[m]]
    BY <1>1, <1>2, <1>5 DEF TypeOK
  <2> QED
    BY <2>1 DEF AnswerTo
<1>6. EffectsFollowRows'
  <2> SUFFICES ASSUME NEW m \in Items
               PROVE  effects'[m] =
                        IF row'[IdOf[m]] = [item |-> m, status |-> "applied"]
                        THEN 1 ELSE 0
    BY DEF EffectsFollowRows
  <2>1. effects[m] = IF row[IdOf[m]] = [item |-> m, status |-> "applied"]
                     THEN 1 ELSE 0
    BY DEF IInv, EffectsFollowRows
  <2>2. CASE IdOf[m] # i
    <3>1. effects'[m] = effects[m]
      BY <1>1, <2>2 DEF TypeOK
    <3> QED
      BY <1>5, <2>1, <2>2, <3>1
  <2>3. CASE IdOf[m] = i
    <3>1. effects[m] = 0
      BY <1>3, <2>1, <2>3 DEF NoRow
    <3>2. CASE m = n
      BY <1>1, <1>4, <2>3, <3>1, <3>2 DEF TypeOK
    <3>3. CASE m # n
      <4>1. effects'[m] = 0
        BY <1>1, <3>1, <3>3 DEF TypeOK
      <4> QED
        BY <1>4, <2>3, <3>3, <4>1
    <3> QED
      BY <3>2, <3>3
  <2> QED
    BY <2>2, <2>3
<1>7. \A v \in Workers : \A m \in Items :
        At(v, "handle", m)' => /\ v # w
                               /\ At(v, "handle", m)
                               /\ IdOf[m] # i
  <2> SUFFICES ASSUME NEW v \in Workers, NEW m \in Items,
                      At(v, "handle", m)'
               PROVE  v # w /\ At(v, "handle", m) /\ IdOf[m] # i
    OBVIOUS
  <2>1. req'[w].step = "lookup"
    BY <1>1 DEF TypeOK, Become, NextItem
  <2>2. v # w
    BY <2>1 DEF At
  <2> HIDE DEF r
  <2>3. At(v, "handle", m)
    BY <1>1, <2>2, OthersStay
  <2> QED
    BY <1>1, <2>2, <2>3 DEF IInv, InsertsAreAlone
<1>8. InsertsAreAlone'
  <2> SUFFICES ASSUME NEW v \in Workers, NEW m \in Items,
                      At(v, "handle", m)'
               PROVE  /\ row'[IdOf[m]] = NoRow
                      /\ \A u \in Workers : \A k \in Items :
                           (At(u, "handle", k)' /\ IdOf[k] = IdOf[m]) => u = v
    BY DEF InsertsAreAlone
  <2>1. row[IdOf[m]] = NoRow
    BY <1>7 DEF IInv, InsertsAreAlone
  <2>2. row'[IdOf[m]] = NoRow
    BY <1>5, <1>7, <2>1
  <2> QED
    BY <1>7, <2>2 DEF IInv, InsertsAreAlone
<1>9. ASSUME NEW m \in Items, NEW a \in Answers, row[IdOf[m]] # NoRow,
             a = AnswerTo(m)
      PROVE  row'[IdOf[m]] # NoRow /\ a = AnswerTo(m)'
  BY <1>3, <1>5, <1>9
<1>10. ASSUME NEW v \in Workers, NEW m \in Items, NEW a \in Answers,
              <<m, a>> \in req'[v].answers
       PROVE  row'[IdOf[m]] # NoRow /\ a = AnswerTo(m)'
  <2>1. CASE <<m, a>> \in req[v].answers
    BY <1>9, <2>1 DEF IInv, AnswersFollowRows
  <2>2. CASE <<m, a>> \notin req[v].answers
    <3>1. v = w
      <4> SUFFICES ASSUME v # w
                   PROVE  FALSE
        OBVIOUS
      <4> HIDE DEF r
      <4>1. req'[v] = req[v]
        BY <1>1, OthersStay
      <4> QED
        BY <1>10, <2>2, <4>1
    <3>2. req'[w].answers = req[w].answers \cup {<<n, outcome>>}
      BY <1>1 DEF TypeOK, Become, NextItem
    <3>3. m = n /\ a = outcome
      BY <1>10, <2>2, <3>1, <3>2
    <3> QED
      BY <1>3, <1>4, <3>3 DEF AnswerTo
  <2> QED
    BY <2>1, <2>2
<1>11. AnswersFollowRows'
  BY <1>1, <1>9, <1>10 DEF IInv, AnswersFollowRows, TypeOK
<1> QED
  BY <1>6, <1>8, <1>11 DEF IInv

(* The device is told what is in the rows.                                 *)
LEMMA RespondKeeps ==
  ASSUME IInv, TypeOK', NEW w \in Workers, Respond(w)
  PROVE  IInv'
<1>1. TypeOK /\ Become(w, Idle) /\ UNCHANGED <<row, effects>>
  BY DEF IInv, Respond
<1>2. req'[w] = Idle
  BY <1>1, AtHere
<1>3. ASSUME NEW v \in Workers
      PROVE  req'[v] = req[v] \/ req'[v] = Idle
  BY <1>1, <1>2, OthersStay
<1>4. \A v \in Workers : \A n \in Items :
        At(v, "handle", n)' => At(v, "handle", n)
  BY <1>3 DEF At, Idle
<1>5. InsertsAreAlone'
  BY <1>1, <1>4 DEF IInv, InsertsAreAlone
<1>6. \A n \in Items : AnswerTo(n)' = AnswerTo(n)
  BY <1>1 DEF AnswerTo
<1>7. ASSUME NEW n \in Items, NEW a \in told'[n]
      PROVE  row[IdOf[n]] # NoRow /\ a = AnswerTo(n)
  <2>1. a \in told[n] \/ (a \in Answers /\ <<n, a>> \in req[w].answers)
    BY <1>7 DEF Respond
  <2> QED
    BY <2>1 DEF IInv, AnswersFollowRows
<1>8. ASSUME NEW v \in Workers, NEW n \in Items, NEW a \in Answers,
             <<n, a>> \in req'[v].answers
      PROVE  row[IdOf[n]] # NoRow /\ a = AnswerTo(n)
  BY <1>3, <1>8 DEF IInv, AnswersFollowRows, Idle
<1>9. AnswersFollowRows'
  BY <1>1, <1>6, <1>7, <1>8 DEF AnswersFollowRows
<1>10. EffectsFollowRows'
  BY <1>1 DEF IInv, EffectsFollowRows
<1> QED
  BY <1>5, <1>9, <1>10 DEF IInv

-----------------------------------------------------------------------------
(* The theorems *)

LEMMA InvariantStep ==
  ASSUME IInv, [Next]_vars
  PROVE  IInv'
<1>1. TypeOK' /\ TypeOK
  BY TypeStep DEF IInv
<1>2. CASE UNCHANGED <<row, effects, told, req>>
  BY <1>1, <1>2 DEF IInv, EffectsFollowRows, InsertsAreAlone,
                    AnswersFollowRows, AnswerTo, At
<1>3. CASE UNCHANGED vars \/ Enqueue \/ Revoke \/ Enroll
          \/ RequestSnapshot \/ IssueSnapshot \/ SnapshotExpires
  BY <1>2, <1>3 DEF vars, Enqueue, Revoke, Enroll, RequestSnapshot,
                    IssueSnapshot, SnapshotExpires
<1>4. ASSUME NEW w \in Workers, Push(w)
      PROVE  IInv'
  <2> DEFINE r == [step |-> "lookup", todo |-> Waiting, answers |-> {}]
  <2>1. /\ Become(w, r)
        /\ r.step # "handle"
        /\ r.answers = {}
        /\ UNCHANGED <<row, effects, told>>
    BY <1>4 DEF Push
  <2> HIDE DEF r
  <2> QED
    BY <1>1, <2>1, StepsAside
<1>5. ASSUME NEW w \in Workers, NEW n \in Items,
             InsertFails(w, n) \/ HandleRaises(w, n)
      PROVE  IInv'
  <2>1. Become(w, Idle) /\ UNCHANGED <<row, effects, told>>
    BY <1>5 DEF InsertFails, HandleRaises
  <2>2. Idle.step # "handle" /\ Idle.answers = {}
    BY DEF Idle
  <2> QED
    BY <1>1, <2>1, <2>2, StepsAside
<1>6. ASSUME NEW w \in Workers, CutOff(w)
      PROVE  IInv'
  <2>1. Become(w, Idle) /\ UNCHANGED <<row, effects, told>>
    BY <1>6 DEF CutOff
  <2>2. Idle.step # "handle" /\ Idle.answers = {}
    BY DEF Idle
  <2> QED
    BY <1>1, <2>1, <2>2, StepsAside
<1> QED
  BY <1>1, <1>3, <1>4, <1>5, <1>6, LookupKeeps, InsertKeeps, HandleKeeps,
     RespondKeeps DEF Next, Process

LEMMA InvariantInit == Init => IInv
<1> SUFFICES ASSUME Init
             PROVE  IInv
  OBVIOUS
<1>1. TypeOK
  BY TypeInit
<1>2. \A n \in Items : row[IdOf[n]] = NoRow
  BY IdAssumption DEF Init
<1>3. EffectsFollowRows
  BY <1>2 DEF Init, EffectsFollowRows, NoRow
<1>4. InsertsAreAlone /\ AnswersFollowRows
  BY DEF Init, InsertsAreAlone, AnswersFollowRows, At, Idle
<1> QED
  BY <1>1, <1>3, <1>4 DEF IInv

LEMMA Invariant == Spec => []IInv
BY InvariantInit, InvariantStep, PTL DEF Spec

(* However often a device repeats its operations, among those of one id at *)
(* most one takes effect, and it does so once.                             *)
THEOREM EachIdAppliesOnce == Spec => []AppliedOnce
<1>1. IInv => AppliedOnce
  <2> SUFFICES ASSUME IInv, NEW m \in Items, NEW n \in Items,
                      IdOf[m] = IdOf[n]
               PROVE  effects[m] + (IF m = n THEN 0 ELSE effects[n]) <= 1
    BY DEF AppliedOnce
  <2>1. \A k \in Items :
          effects[k] = IF row[IdOf[k]] = [item |-> k, status |-> "applied"]
                       THEN 1 ELSE 0
    BY DEF IInv, EffectsFollowRows
  <2>2. CASE m = n
    <3>1. effects[m] \in {0, 1}
      BY <2>1
    <3> QED
      BY <2>2, <3>1
  <2>3. CASE m # n
    <3>1. [item |-> m, status |-> "applied"].item
            # [item |-> n, status |-> "applied"].item
      BY <2>3
    <3>2. effects[m] = 0 \/ effects[n] = 0
      BY <2>1, <3>1
    <3>3. effects[m] \in {0, 1} /\ effects[n] \in {0, 1}
      BY <2>1
    <3> QED
      BY <2>3, <3>2, <3>3
  <2> QED
    BY <2>2, <2>3
<1> QED
  BY <1>1, Invariant, PTL

(* What a device is told of an operation is what became of it: "applied"   *)
(* exactly when it took effect.                                            *)
THEOREM AnswersAreTrue == Spec => []ToldTheTruth
<1>1. IInv => ToldTheTruth
  <2> SUFFICES ASSUME IInv, NEW n \in Items, NEW a \in told[n]
               PROVE  (a = "applied") <=> (effects[n] = 1)
    BY DEF ToldTheTruth
  <2>1. row[IdOf[n]] # NoRow /\ a = AnswerTo(n)
    BY DEF IInv, AnswersFollowRows
  <2>2. row[IdOf[n]] \in [item : Items, status : Outcomes]
    BY <2>1, IdAssumption DEF IInv, TypeOK, SyncOperation
  <2>3. row[IdOf[n]] = [item |-> n, status |-> "applied"]
          <=> (row[IdOf[n]].item = n /\ row[IdOf[n]].status = "applied")
    <3> DEFINE x == row[IdOf[n]]
    <3>1. x = [item |-> x.item, status |-> x.status]
      BY <2>2
    <3>2. (x.item = n /\ x.status = "applied")
            => x = [item |-> n, status |-> "applied"]
      BY <3>1
    <3>3. x = [item |-> n, status |-> "applied"]
            => (x.item = n /\ x.status = "applied")
      OBVIOUS
    <3> QED
      BY <3>2, <3>3
  <2>4. (a = "applied") <=> row[IdOf[n]] = [item |-> n, status |-> "applied"]
    BY <2>1, <2>3 DEF AnswerTo
  <2> QED
    BY <2>4 DEF IInv, EffectsFollowRows
<1> QED
  BY <1>1, Invariant, PTL

(* No operation is ever answered in two ways.                              *)
THEOREM AnswersAgree == Spec => []OneAnswer
<1>1. IInv => OneAnswer
  BY DEF IInv, AnswersFollowRows, OneAnswer
<1> QED
  BY <1>1, Invariant, PTL

-----------------------------------------------------------------------------
(* The refinement of OperationLedger *)

(* A row is found under the id of its own operation.                       *)
RowsMatch == \A i \in Ids : row[i] # NoRow => IdOf[row[i].item] = i

LEMMA RowsMatchStep ==
  ASSUME TypeOK, RowsMatch, [Next]_vars
  PROVE  RowsMatch'
<1>1. CASE row' = row
  BY <1>1 DEF RowsMatch
<1>2. ASSUME NEW w \in Workers, NEW n \in Items, NEW outcome \in Outcomes,
             Handle(w, n, outcome)
      PROVE  RowsMatch'
  <2>1. row' = [row EXCEPT ![IdOf[n]] = [item |-> n, status |-> outcome]]
    BY <1>2 DEF Handle
  <2>2. ASSUME NEW i \in Ids, row'[i] # NoRow
        PROVE  IdOf[row'[i].item] = i
    <3>1. CASE i = IdOf[n]
      BY <2>1, <3>1 DEF TypeOK
    <3>2. CASE i # IdOf[n]
      <4>1. row'[i] = row[i]
        BY <2>1, <3>2 DEF TypeOK
      <4> QED
        BY <2>2, <4>1 DEF RowsMatch
    <3> QED
      BY <3>1, <3>2
  <2> QED
    BY <2>2 DEF RowsMatch
<1>3. row' = row \/ \E w \in Workers : \E n \in Items :
                     \E outcome \in Outcomes : Handle(w, n, outcome)
  BY DEF Next, Process, vars, enrolment, Enqueue, Revoke, Enroll,
         RequestSnapshot, IssueSnapshot, SnapshotExpires, Push, CutOff,
         Lookup, Insert, InsertFails, HandleRaises, Respond
<1> QED
  BY <1>1, <1>2, <1>3

LEMMA RowsAlwaysMatch == Spec => []RowsMatch
<1>1. Init => RowsMatch
  BY DEF Init, RowsMatch
<1>2. Spec => []TypeOK
  BY TypeCorrect
<1> QED
  BY <1>1, <1>2, RowsMatchStep, PTL DEF Spec

(* The ledger holds at most one decision under an id: its row.             *)
LEMMA DecidedIsRow ==
  ASSUME TypeOK, RowsMatch, NEW n \in Items
  PROVE  Ledger!DecidedUnder(n) =
           IF row[IdOf[n]] = NoRow THEN {}
           ELSE {<<row[IdOf[n]].item, row[IdOf[n]].status>>}
<1> DEFINE i == IdOf[n]
<1>1. i \in Ids
  BY IdAssumption
<1>2. ASSUME NEW d \in Ledger!DecidedUnder(n)
      PROVE  row[i] # NoRow /\ d = <<row[i].item, row[i].status>>
  <2>1. PICK j \in Ids : row[j] # NoRow /\ d = <<row[j].item, row[j].status>>
    BY <1>2 DEF Ledger!DecidedUnder, Decided
  <2>2. IdOf[d[1]] = i /\ d[1] = row[j].item
    BY <1>2, <2>1 DEF Ledger!DecidedUnder
  <2>3. j = i
    BY <2>1, <2>2 DEF RowsMatch
  <2> QED
    BY <2>1, <2>3
<1>3. ASSUME row[i] # NoRow
      PROVE  <<row[i].item, row[i].status>> \in Ledger!DecidedUnder(n)
  <2>1. <<row[i].item, row[i].status>> \in Decided
    BY <1>1, <1>3 DEF Decided
  <2>2. IdOf[row[i].item] = i
    BY <1>1, <1>3 DEF RowsMatch
  <2> QED
    BY <2>1, <2>2 DEF Ledger!DecidedUnder
<1> QED
  BY <1>2, <1>3

(* The commit of an operation is its decision.                             *)
LEMMA HandleDecides ==
  ASSUME IInv, RowsMatch, NEW w \in Workers, NEW n \in Items,
         NEW outcome \in Outcomes, Handle(w, n, outcome)
  PROVE  Ledger!Decide(n, outcome)
<1> DEFINE i == IdOf[n]
           new == [item |-> n, status |-> outcome]
<1>1. TypeOK /\ At(w, "handle", n)
  BY DEF IInv, Handle
<1>2. i \in Ids
  BY IdAssumption
<1>3. row[i] = NoRow
  BY <1>1 DEF IInv, InsertsAreAlone
<1>4. row' = [row EXCEPT ![i] = new]
  BY DEF Handle
<1>5. new # NoRow
  BY DEF NoRow, Items
<1>6. Ledger!DecidedUnder(n) = {}
  BY <1>1, <1>3, DecidedIsRow
<1>7. Decided' = Decided \cup {<<n, outcome>>}
  <2>1. row'[i] = new /\ \A j \in Ids \ {i} : row'[j] = row[j]
    BY <1>1, <1>2, <1>4 DEF TypeOK
  <2>2. ASSUME NEW d \in Decided'
        PROVE  d \in Decided \cup {<<n, outcome>>}
    <3>1. PICK j \in Ids : /\ row'[j] # NoRow
                           /\ d = <<row'[j].item, row'[j].status>>
      BY <2>2 DEF Decided
    <3>2. CASE j = i
      BY <2>1, <3>1, <3>2
    <3>3. CASE j # i
      <4>1. row'[j] = row[j]
        BY <2>1, <3>3
      <4> QED
        BY <3>1, <4>1 DEF Decided
    <3> QED
      BY <3>2, <3>3
  <2>3. <<n, outcome>> \in Decided'
    BY <1>2, <1>5, <2>1 DEF Decided
  <2>4. ASSUME NEW d \in Decided
        PROVE  d \in Decided'
    <3>1. PICK j \in Ids : /\ row[j] # NoRow
                           /\ d = <<row[j].item, row[j].status>>
      BY <2>4 DEF Decided
    <3>2. row'[j] = row[j]
      BY <1>3, <2>1, <3>1
    <3> QED
      BY <3>1, <3>2 DEF Decided
  <2> QED
    BY <2>2, <2>3, <2>4
<1>8. /\ effects' = [effects EXCEPT ![n] = IF outcome = "applied" THEN @ + 1
                                                                 ELSE @]
      /\ UNCHANGED told
  BY DEF Handle
<1> QED
  BY <1>6, <1>7, <1>8 DEF Ledger!Decide

(* A response that arrives tells what was decided of each operation in it. *)
LEMMA RespondTells ==
  ASSUME IInv, RowsMatch, NEW w \in Workers, Respond(w)
  PROVE  \E batch \in SUBSET Items : Ledger!Tell(batch)
<1> DEFINE batch == {n \in Items :
                       \E a \in Answers : <<n, a>> \in req[w].answers}
<1>1. TypeOK /\ UNCHANGED <<row, effects>>
  BY DEF IInv, Respond
<1>2. ASSUME NEW n \in Items
      PROVE  /\ n \in batch => row[IdOf[n]] # NoRow
             /\ {a \in Answers : <<n, a>> \in req[w].answers}
                  = IF n \in batch THEN {AnswerTo(n)} ELSE {}
  BY DEF IInv, AnswersFollowRows
<1>3. ASSUME NEW n \in batch
      PROVE  /\ Ledger!DecidedUnder(n) # {}
             /\ Ledger!Verdicts(n) = {AnswerTo(n)}
  <2>1. Ledger!DecidedUnder(n) = {<<row[IdOf[n]].item, row[IdOf[n]].status>>}
    BY <1>1, <1>2, DecidedIsRow
  <2> QED
    BY <2>1 DEF Ledger!Verdicts, AnswerTo
<1>4. told' = [n \in Items |->
                 told[n] \cup (IF n \in batch THEN Ledger!Verdicts(n) ELSE {})]
  <2>1. told' = [n \in Items |->
                   told[n] \cup {a \in Answers : <<n, a>> \in req[w].answers}]
    BY DEF Respond
  <2> HIDE DEF batch
  <2>2. \A n \in Items :
          {a \in Answers : <<n, a>> \in req[w].answers}
            = IF n \in batch THEN Ledger!Verdicts(n) ELSE {}
    BY <1>2, <1>3
  <2> QED
    BY <2>1, <2>2
<1>5. Decided' = Decided
  BY <1>1 DEF Decided
<1>6. Ledger!Tell(batch)
  <2> HIDE DEF batch
  <2> QED
    BY <1>1, <1>3, <1>4, <1>5 DEF Ledger!Tell
<1>7. batch \in SUBSET Items
  OBVIOUS
<1> QED
  BY <1>6, <1>7

(* What runs at once, is repeated or is cut off decides nothing: only the  *)
(* commit of an operation and a response that arrives are steps of the     *)
(* ledger, and they are the steps it allows.                               *)
THEOREM FollowsLedger == Spec => ImplementsLedger
<1>1. Init => Ledger!Init
  BY DEF Init, Ledger!Init, Decided
<1>2. IInv /\ RowsMatch /\ [Next]_vars => [Ledger!Next]_(Ledger!ledger)
  <2> SUFFICES ASSUME IInv, RowsMatch, [Next]_vars
               PROVE  [Ledger!Next]_(Ledger!ledger)
    OBVIOUS
  <2>1. CASE UNCHANGED <<row, effects, told>>
    BY <2>1 DEF Ledger!ledger, Decided
  <2>2. ASSUME NEW w \in Workers, NEW n \in Items, NEW outcome \in Outcomes,
               Handle(w, n, outcome)
        PROVE  Ledger!Next
    BY <2>2, HandleDecides DEF Ledger!Next, Ledger!Outcomes, Outcomes
  <2>3. ASSUME NEW w \in Workers, Respond(w)
        PROVE  Ledger!Next
    BY <2>3, RespondTells DEF Ledger!Next
  <2>4. \/ UNCHANGED <<row, effects, told>>
        \/ \E w \in Workers : \E n \in Items : \E outcome \in Outcomes :
             Handle(w, n, outcome)
        \/ \E w \in Workers : Respond(w)
    BY DEF Next, Process, vars, enrolment, Enqueue, Revoke, Enroll,
           RequestSnapshot, IssueSnapshot, SnapshotExpires, Push, CutOff,
           Lookup, Insert, InsertFails, HandleRaises
  <2> QED
    BY <2>1, <2>2, <2>3, <2>4
<1> QED
  BY <1>1, <1>2, Invariant, RowsAlwaysMatch, PTL
  DEF Spec, ImplementsLedger, Ledger!Spec

-----------------------------------------------------------------------------
(* What the ledger guarantees, shown for every behaviour of the ledger     *)
(* alone and so for whatever implements it.                                *)
Verdict(d, n) == IF d[1] = n THEN d[2] ELSE "reused"

LedgerInv ==
  /\ Decided \subseteq Items \X Outcomes
  /\ \A c, d \in Decided : IdOf[c[1]] = IdOf[d[1]] => c = d
  /\ effects = [n \in Items |-> IF <<n, "applied">> \in Decided THEN 1 ELSE 0]
  /\ told \in [Items -> SUBSET Answers]
  /\ \A n \in Items : \A a \in told[n] :
       \E d \in Decided : IdOf[d[1]] = IdOf[n] /\ a = Verdict(d, n)

LEMMA DecisionKeepsLedger ==
  ASSUME LedgerInv, NEW n \in Items, NEW outcome \in Outcomes,
         Ledger!Decide(n, outcome)
  PROVE  LedgerInv'
<1>1. /\ Decided' = Decided \cup {<<n, outcome>>}
      /\ effects' = [effects EXCEPT ![n] = IF outcome = "applied" THEN @ + 1
                                                                 ELSE @]
      /\ told' = told
  BY DEF Ledger!Decide
<1>2. \A d \in Decided : IdOf[d[1]] # IdOf[n]
  BY DEF Ledger!Decide, Ledger!DecidedUnder
<1>3. Decided' \subseteq Items \X Outcomes
  BY <1>1 DEF LedgerInv
<1>4. ASSUME NEW c \in Decided', NEW d \in Decided', IdOf[c[1]] = IdOf[d[1]]
      PROVE  c = d
  <2>1. CASE c \in Decided /\ d \in Decided
    BY <1>4, <2>1 DEF LedgerInv
  <2>2. CASE c \notin Decided
    BY <1>1, <1>2, <1>4, <2>2
  <2>3. CASE d \notin Decided
    BY <1>1, <1>2, <1>4, <2>3
  <2> QED
    BY <2>1, <2>2, <2>3
<1>5. \A a : <<n, a>> \notin Decided
  <2> SUFFICES ASSUME NEW a, <<n, a>> \in Decided
               PROVE  FALSE
    OBVIOUS
  <2>1. <<n, a>>[1] = n
    OBVIOUS
  <2> QED
    BY <1>2, <2>1
<1>6. effects' = [m \in Items |->
                    IF <<m, "applied">> \in Decided' THEN 1 ELSE 0]
  <2>1. effects[n] = 0
    BY <1>5 DEF LedgerInv
  <2>2. ASSUME NEW m \in Items
        PROVE  effects'[m] = IF <<m, "applied">> \in Decided' THEN 1 ELSE 0
    <3>1. CASE m = n
      <4>1. <<n, "applied">> \in Decided' <=> outcome = "applied"
        BY <1>1, <1>5
      <4>2. effects'[n] = IF outcome = "applied" THEN 1 ELSE 0
        BY <1>1, <2>1 DEF LedgerInv
      <4> QED
        BY <3>1, <4>1, <4>2
    <3>2. CASE m # n
      <4>1. <<m, "applied">> \in Decided' <=> <<m, "applied">> \in Decided
        BY <1>1, <3>2
      <4>2. effects'[m] = effects[m]
        BY <1>1, <3>2 DEF LedgerInv
      <4> QED
        BY <4>1, <4>2 DEF LedgerInv
    <3> QED
      BY <3>1, <3>2
  <2>3. effects' = [m \in Items |-> effects'[m]]
    BY <1>1 DEF LedgerInv
  <2> QED
    BY <2>2, <2>3
<1>7. /\ told' \in [Items -> SUBSET Answers]
      /\ \A m \in Items : \A a \in told'[m] :
           \E d \in Decided' : IdOf[d[1]] = IdOf[m] /\ a = Verdict(d, m)
  BY <1>1 DEF LedgerInv
<1> QED
  BY <1>3, <1>4, <1>6, <1>7 DEF LedgerInv, Verdict

LEMMA TellingKeepsLedger ==
  ASSUME LedgerInv, NEW batch \in SUBSET Items, Ledger!Tell(batch)
  PROVE  LedgerInv'
<1>1. /\ Decided' = Decided
      /\ effects' = effects
      /\ told' = [n \in Items |->
                    told[n] \cup (IF n \in batch THEN Ledger!Verdicts(n)
                                                 ELSE {})]
  BY DEF Ledger!Tell
<1>2. ASSUME NEW n \in Items, NEW a \in Ledger!Verdicts(n)
      PROVE  /\ a \in Answers
             /\ \E d \in Decided : IdOf[d[1]] = IdOf[n] /\ a = Verdict(d, n)
  <2>1. PICK d \in Decided : IdOf[d[1]] = IdOf[n] /\ a = Verdict(d, n)
    BY <1>2 DEF Ledger!Verdicts, Ledger!DecidedUnder, Verdict
  <2>2. d \in Items \X Outcomes
    BY DEF LedgerInv
  <2> QED
    BY <2>1, <2>2 DEF Verdict, Answers
<1>3. ASSUME NEW n \in Items, NEW a \in told'[n]
      PROVE  /\ a \in Answers
             /\ \E d \in Decided : IdOf[d[1]] = IdOf[n] /\ a = Verdict(d, n)
  <2>1. a \in told[n] \/ a \in Ledger!Verdicts(n)
    BY <1>1, <1>3
  <2> QED
    BY <1>2, <2>1 DEF LedgerInv
<1>4. told' \in [Items -> SUBSET Answers]
  BY <1>1, <1>3
<1> QED
  BY <1>1, <1>3, <1>4 DEF LedgerInv, Verdict

(* Whatever implements the ledger applies each id once, tells the truth    *)
(* about it, and never two things.                                         *)
THEOREM LedgerIsKept ==
  Ledger!Spec => [](AppliedOnce /\ ToldTheTruth /\ OneAnswer)
<1>1. Ledger!Init => LedgerInv
  BY DEF Ledger!Init, LedgerInv
<1>2. LedgerInv /\ [Ledger!Next]_(Ledger!ledger) => LedgerInv'
  <2> SUFFICES ASSUME LedgerInv, [Ledger!Next]_(Ledger!ledger)
               PROVE  LedgerInv'
    OBVIOUS
  <2>1. CASE UNCHANGED Ledger!ledger
    BY <2>1 DEF LedgerInv, Ledger!ledger, Verdict
  <2>2. CASE Ledger!Next
    BY <2>2, DecisionKeepsLedger, TellingKeepsLedger
    DEF Ledger!Next, Ledger!Outcomes, Outcomes
  <2> QED
    BY <2>1, <2>2
<1>3. LedgerInv => OneAnswer
  BY DEF LedgerInv, OneAnswer
<1>4. LedgerInv => ToldTheTruth
  <2> SUFFICES ASSUME LedgerInv, NEW n \in Items, NEW a \in told[n]
               PROVE  (a = "applied") <=> (effects[n] = 1)
    BY DEF ToldTheTruth
  <2>1. PICK d \in Decided : IdOf[d[1]] = IdOf[n] /\ a = Verdict(d, n)
    BY DEF LedgerInv
  <2>2. d \in Items \X Outcomes
    BY DEF LedgerInv
  <2>3. (a = "applied") <=> d = <<n, "applied">>
    BY <2>1, <2>2 DEF Verdict, Outcomes
  <2>4. <<n, "applied">> \in Decided => <<n, "applied">> = d
    <3>1. <<n, "applied">>[1] = n
      OBVIOUS
    <3> QED
      BY <2>1, <3>1 DEF LedgerInv
  <2>5. (effects[n] = 1) <=> <<n, "applied">> \in Decided
    BY DEF LedgerInv
  <2> QED
    BY <2>3, <2>4, <2>5
<1>5. LedgerInv => AppliedOnce
  <2> SUFFICES ASSUME LedgerInv, NEW m \in Items, NEW n \in Items,
                      IdOf[m] = IdOf[n]
               PROVE  effects[m] + (IF m = n THEN 0 ELSE effects[n]) <= 1
    BY DEF AppliedOnce
  <2>1. \A k \in Items :
          effects[k] = IF <<k, "applied">> \in Decided THEN 1 ELSE 0
    BY DEF LedgerInv
  <2>2. m # n => (<<m, "applied">> \notin Decided
                   \/ <<n, "applied">> \notin Decided)
    <3>1. /\ <<m, "applied">>[1] = m /\ <<n, "applied">>[1] = n
          /\ <<m, "applied">> = <<n, "applied">> => m = n
      OBVIOUS
    <3> QED
      BY <3>1 DEF LedgerInv
  <2> QED
    BY <2>1, <2>2
<1> QED
  BY <1>1, <1>2, <1>3, <1>4, <1>5, PTL DEF Ledger!Spec
==============================================================================
