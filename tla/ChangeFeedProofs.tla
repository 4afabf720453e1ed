--------------------------- MODULE ChangeFeedProofs ---------------------------
(***************************************************************************)
(* Proofs about the two ways in which what happened reaches a device.      *)
(* ChangeFeed: it never goes back to an older version of a row, and its    *)
(* cursor passes no change it has not stored, but for those that were      *)
(* committed behind the cursor.  PushDelivery, at the end: what was sent   *)
(* stays sent.                                                             *)
(***************************************************************************)
EXTENDS ChangeFeed, PushDelivery, FiniteSetTheorems, SequenceTheorems, TLAPS

(* A row is written by one worker at a time. *)
RowsLocked ==
  \A v, w \in Workers, r \in Rows : Holds(v, r) /\ Holds(w, r) => v = w

(* Who holds a row writes its next version, under a number that nobody     *)
(* else has and that is above those of the row's other changes.            *)
Pending ==
  \A w \in Workers :
    /\ tx[w].at = "locked" => tx[w].version = version[tx[w].row] + 1
    /\ tx[w].at = "inserted" =>
         LET c == tx[w].change
         IN /\ c.version = version[c.row] + 1
            /\ c.seq <= drawn
            /\ \A d \in log : /\ d.seq # c.seq
                              /\ d.row = c.row => d.seq < c.seq

NumbersDiffer ==
  \A v, w \in Workers :
    v # w /\ tx[v].at = "inserted" /\ tx[w].at = "inserted" =>
      tx[v].change.seq # tx[w].change.seq

(* The committed changes: one for each number, versions of a row in the    *)
(* order of their numbers.                                                 *)
LogOrdered ==
  /\ IsFiniteSet(log)
  /\ \A c \in log : c.seq <= drawn /\ c.version <= version[c.row]
  /\ \A c, d \in log : c.seq = d.seq => c = d
  /\ \A c, d \in log : c.row = d.row /\ c.seq < d.seq => c.version < d.version

(* What the device has of a row is a change at or below its cursor. *)
CopyKnown ==
  \A r \in Rows :
    copy[r] = 0 \/ \E c \in log : c.row = r /\ c.version = copy[r] /\ c.seq <= cursor

(* An answer has every change between the cursor and next_cursor. *)
AnswerComplete ==
  answer # NoAnswer =>
    /\ cursor <= answer.next
    /\ \A c \in answer.changes : cursor < c.seq /\ c.seq <= answer.next
    /\ \A c \in log \ late : cursor < c.seq /\ c.seq <= answer.next =>
         c \in answer.changes

IInv ==
  /\ TypeOK
  /\ RowsLocked
  /\ Pending
  /\ NumbersDiffer
  /\ LogOrdered
  /\ CopyKnown
  /\ AnswerComplete
  /\ NothingSkipped

-----------------------------------------------------------------------------
(* What a worker that has a row lock, or has inserted, works on. *)
LEMMA TxCases ==
  ASSUME TypeOK, NEW w \in Workers
  PROVE  /\ tx[w].at = "locked" => tx[w].row \in Rows /\ tx[w].version \in Nat
         /\ tx[w].at = "inserted" => tx[w].change \in Change
         /\ tx[w].at = "locked" \/ tx[w].at = "inserted" \/ tx[w] = Idle
  BY DEF TypeOK, Locked, Inserted, Idle

(* A page holds, with a change, every change above the cursor that has a   *)
(* smaller number.                                                         *)
LEMMA PageIsPrefix ==
  ASSUME IsFiniteSet(log), log \subseteq Change, LimitAssumption,
         MaxSeqAssumption,
         NEW n \in Nat, NEW c \in Page(n), NEW d \in Above(n), d.seq <= c.seq
  PROVE  d \in Page(n)
  <1> DEFINE Below(e) == {x \in Above(n) : x.seq < e.seq}
  <1>1. IsFiniteSet(Above(n))
    BY FS_Subset DEF Above
  <1>2. IsFiniteSet(Below(c)) /\ IsFiniteSet(Below(d))
    BY <1>1, FS_Subset
  <1>3. Below(d) \subseteq Below(c)
    BY DEF Above, Change, Page
  <1>4. /\ Cardinality(Below(d)) <= Cardinality(Below(c))
        /\ Cardinality(Below(d)) \in Nat /\ Cardinality(Below(c)) \in Nat
    BY <1>2, <1>3, FS_Subset, FS_CardinalityType
  <1>5. Cardinality(Below(c)) < Limit
    BY DEF Page
  <1> QED
    BY <1>4, <1>5, LimitAssumption DEF Page, LimitAssumption

-----------------------------------------------------------------------------
(* The initial states satisfy the invariant. *)
LEMMA InitIInv ==
  ASSUME MaxSeqAssumption, Init
  PROVE  IInv
  <1>1. TypeOK
    BY DEF Init, TypeOK, MaxSeqAssumption, Answer, NoAnswer
  <1>2. RowsLocked /\ Pending /\ NumbersDiffer
    BY DEF Init, RowsLocked, Pending, NumbersDiffer, Holds, Idle
  <1>3. LogOrdered
    BY FS_EmptySet DEF Init, LogOrdered
  <1>4. CopyKnown /\ AnswerComplete /\ NothingSkipped
    BY DEF Init, CopyKnown, AnswerComplete, NothingSkipped
  <1> QED
    BY <1>1, <1>2, <1>3, <1>4 DEF IInv

-----------------------------------------------------------------------------
(* The steps of the services *)

LEMMA LockRowStep ==
  ASSUME IInv, NEW w \in Workers, NEW r \in Rows, LockRow(w, r)
  PROVE  IInv'
  <1> DEFINE new == [at |-> "locked", row |-> r, version |-> version[r] + 1]
  <1> USE DEF IInv
  <1>1. /\ tx' = [tx EXCEPT ![w] = new]
        /\ UNCHANGED <<version, drawn, log, cursor, copy, answer, late>>
    BY DEF LockRow, Become
  <1>2. new \in Locked
    BY DEF TypeOK, Locked
  <1>3. TypeOK'
    BY <1>1, <1>2 DEF TypeOK, Answer
  <1> HIDE DEF new
  <1>4. tx'[w].at = "locked" /\ tx'[w].row = r /\ tx'[w].version = version[r] + 1
    BY <1>1 DEF TypeOK, new
  <1>5. \A v \in Workers : v # w => tx'[v] = tx[v]
    BY <1>1 DEF TypeOK
  <1>6. RowsLocked'
    BY <1>4, <1>5 DEF RowsLocked, Holds, LockRow
  <1>7. Pending' /\ NumbersDiffer'
    BY <1>1, <1>4, <1>5 DEF Pending, NumbersDiffer
  <1>8. LogOrdered' /\ CopyKnown' /\ AnswerComplete' /\ NothingSkipped'
    BY <1>1 DEF LogOrdered, CopyKnown, AnswerComplete, NothingSkipped
  <1> QED
    BY <1>3, <1>6, <1>7, <1>8

LEMMA InsertStep ==
  ASSUME IInv, MaxSeqAssumption, NEW w \in Workers, Insert(w)
  PROVE  IInv'
  <1> DEFINE c == [seq |-> drawn + 1, row |-> tx[w].row, version |-> tx[w].version]
             new == [at |-> "inserted", change |-> c]
  <1> USE DEF IInv
  <1>1. /\ tx' = [tx EXCEPT ![w] = new]
        /\ drawn' = drawn + 1 /\ drawn < MaxSeq
        /\ tx[w].at = "locked"
        /\ UNCHANGED <<version, log, cursor, copy, answer, late>>
    BY DEF Insert, Become
  <1>2. tx[w].row \in Rows /\ tx[w].version \in Nat
    BY <1>1, TxCases
  <1>3. drawn + 1 \in 1..MaxSeq /\ drawn \in Nat
    BY <1>1, MaxSeqAssumption DEF TypeOK, MaxSeqAssumption
  <1>4. c \in Change
    BY <1>2, <1>3 DEF Change
  <1>5. new \in Inserted
    BY <1>4 DEF Inserted
  <1>6. TypeOK'
    BY <1>1, <1>3, <1>5 DEF TypeOK, Answer
  <1>7. /\ c.seq = drawn + 1 /\ c.row = tx[w].row
        /\ c.version = version[c.row] + 1
    BY <1>1 DEF Pending
  <1> HIDE DEF c
  <1>8. tx'[w].at = "inserted" /\ tx'[w].change = c
    BY <1>1 DEF TypeOK
  <1> HIDE DEF new
  <1>9. \A v \in Workers : v # w => tx'[v] = tx[v]
    BY <1>1 DEF TypeOK
  <1>10. RowsLocked'
    BY <1>1, <1>7, <1>8, <1>9 DEF RowsLocked, Holds
  <1>11. \A d \in log : d.seq \in Nat /\ d.seq < c.seq
    BY <1>3, <1>7 DEF LogOrdered, TypeOK, Change
  <1>12. Pending'
    <2> SUFFICES ASSUME NEW v \in Workers, tx'[v].at = "inserted", v # w,
                        tx[v].at = "inserted", tx'[v] = tx[v]
                 PROVE  tx[v].change.seq <= drawn + 1
      BY <1>1, <1>3, <1>7, <1>8, <1>9, <1>11 DEF Pending
    <2> QED
      BY <1>3, TxCases DEF Pending, Change
  <1>13. NumbersDiffer'
    <2>1. \A v \in Workers :
            v # w /\ tx[v].at = "inserted" => tx[v].change.seq < c.seq
      BY <1>3, <1>7, TxCases DEF Pending, Change
    <2>2. \A v \in Workers :
            tx[v].at = "inserted" => tx[v].change.seq \in Nat
      BY TxCases DEF Change
    <2> QED
      BY <1>3, <1>7, <1>8, <1>9, <2>1, <2>2 DEF NumbersDiffer
  <1>14. LogOrdered'
    BY <1>1, <1>3 DEF LogOrdered, TypeOK, Change
  <1>15. CopyKnown' /\ AnswerComplete' /\ NothingSkipped'
    BY <1>1 DEF CopyKnown, AnswerComplete, NothingSkipped
  <1> QED
    BY <1>6, <1>10, <1>12, <1>13, <1>14, <1>15

LEMMA RollbackStep ==
  ASSUME IInv, NEW w \in Workers, Rollback(w)
  PROVE  IInv'
  <1> USE DEF IInv
  <1>1. /\ tx' = [tx EXCEPT ![w] = Idle]
        /\ UNCHANGED <<version, drawn, log, cursor, copy, answer, late>>
    BY DEF Rollback, Become
  <1>2. TypeOK'
    BY <1>1 DEF TypeOK, Answer
  <1>3. tx'[w].at = "idle" /\ \A v \in Workers : v # w => tx'[v] = tx[v]
    BY <1>1 DEF TypeOK, Idle
  <1>4. RowsLocked' /\ Pending' /\ NumbersDiffer'
    BY <1>1, <1>3 DEF RowsLocked, Holds, Pending, NumbersDiffer
  <1>5. LogOrdered' /\ CopyKnown' /\ AnswerComplete' /\ NothingSkipped'
    BY <1>1 DEF LogOrdered, CopyKnown, AnswerComplete, NothingSkipped
  <1> QED
    BY <1>2, <1>4, <1>5

LEMMA CommitStep ==
  ASSUME IInv, MaxSeqAssumption, NEW w \in Workers, Commit(w)
  PROVE  IInv'
  <1> DEFINE c == tx[w].change
  <1> USE DEF IInv
  <1>1. /\ tx[w].at = "inserted"
        /\ version' = [version EXCEPT ![c.row] = c.version]
        /\ log' = log \cup {c}
        /\ late' = IF c.seq <= Passed THEN late \cup {c} ELSE late
        /\ tx' = [tx EXCEPT ![w] = Idle]
        /\ UNCHANGED <<drawn, cursor, copy, answer>>
    BY DEF Commit, Become
  <1>2. c \in Change /\ c.row \in Rows /\ c.seq \in Nat /\ c.version \in Nat
    BY <1>1, TxCases DEF Change
  <1>3. /\ c.version = version[c.row] + 1
        /\ c.seq <= drawn
        /\ \A d \in log : d.seq # c.seq /\ (d.row = c.row => d.seq < c.seq)
    BY <1>1 DEF Pending
  <1>4. Holds(w, c.row)
    BY <1>1 DEF Holds
  <1> HIDE DEF c
  <1>5. TypeOK'
    BY <1>1, <1>2 DEF TypeOK, Answer
  <1>6. /\ tx'[w].at = "idle"
        /\ \A v \in Workers : v # w => tx'[v] = tx[v] /\ ~Holds(v, c.row)
    BY <1>1, <1>2, <1>4 DEF TypeOK, Idle, RowsLocked
  <1>7. RowsLocked' /\ NumbersDiffer'
    BY <1>1, <1>6 DEF RowsLocked, Holds, NumbersDiffer
  <1>8. \A r \in Rows : r # c.row => version'[r] = version[r]
    BY <1>1, <1>2 DEF TypeOK
  <1>9. Pending'
    <2>1. ASSUME NEW v \in Workers, v # w, tx[v].at = "locked"
          PROVE  tx[v].version = version'[tx[v].row] + 1
      BY <2>1, <1>6, <1>8, TxCases DEF Pending, Holds
    <2>2. ASSUME NEW v \in Workers, v # w, tx[v].at = "inserted",
                 NEW d, d = tx[v].change
          PROVE  /\ d.version = version'[d.row] + 1
                 /\ d.seq <= drawn
                 /\ \A e \in log' : e.seq # d.seq /\ (e.row = d.row => e.seq < d.seq)
      <3>1. d.row \in Rows /\ d.row # c.row
        BY <2>2, <1>6, TxCases DEF Holds, Change
      <3>2. c.seq # d.seq
        BY <2>2, <1>1 DEF NumbersDiffer, c
      <3> QED
        BY <2>2, <3>1, <3>2, <1>1, <1>8 DEF Pending
    <2> QED
      BY <2>1, <2>2, <1>1, <1>6 DEF Pending
  <1>10. LogOrdered'
    <2>1. IsFiniteSet(log')
      BY <1>1, FS_AddElement DEF LogOrdered
    <2>2. \A d \in log' : d.seq <= drawn' /\ d.version <= version'[d.row]
      <3>1. version'[c.row] = c.version
        BY <1>1, <1>2 DEF TypeOK
      <3>2. \A d \in log : d.version \in Nat /\ version[d.row] \in Nat /\ d.row \in Rows
        BY DEF TypeOK, Change
      <3> QED
        BY <1>1, <1>2, <1>3, <1>8, <3>1, <3>2 DEF LogOrdered
    <2>3. \A d, e \in log' : d.seq = e.seq => d = e
      BY <1>1, <1>3 DEF LogOrdered
    <2>4. \A d \in log : d.row = c.row => d.version < c.version
      BY <1>2, <1>3 DEF LogOrdered, TypeOK, Change
    <2>5. \A d \in log : d.seq \in Nat
      BY DEF TypeOK, Change
    <2>6. \A d, e \in log' : d.row = e.row /\ d.seq < e.seq => d.version < e.version
      BY <1>1, <1>2, <1>3, <2>4, <2>5 DEF LogOrdered
    <2> QED
      BY <2>1, <2>2, <2>3, <2>6 DEF LogOrdered
  <1>11. CopyKnown'
    BY <1>1 DEF CopyKnown
  <1>12. \A d \in log' \ late' : d \in log \ late \/ (d = c /\ ~(c.seq <= Passed))
    BY <1>1
  <1>13. AnswerComplete'
    BY <1>1, <1>12 DEF AnswerComplete, Passed
  <1>14. ~(c.seq <= Passed) => ~(c.seq <= cursor)
    BY <1>2 DEF Passed, AnswerComplete, TypeOK, Answer, NoAnswer
  <1>15. NothingSkipped'
    BY <1>1, <1>12, <1>14 DEF NothingSkipped
  <1> QED
    BY <1>5, <1>7, <1>9, <1>10, <1>11, <1>13, <1>15

-----------------------------------------------------------------------------
(* The steps of the device *)

LEMMA PullStep ==
  ASSUME IInv, LimitAssumption, MaxSeqAssumption, Pull
  PROVE  IInv'
  <1> DEFINE page == Page(cursor)
  <1> USE DEF IInv
  <1>1. PICK n \in 0..MaxSeq :
          /\ NextCursor(page, cursor, n)
          /\ answer' = [at |-> "sent", changes |-> page, next |-> n]
    BY DEF Pull
  <1>2. UNCHANGED <<version, drawn, tx, log, cursor, copy, late>>
    BY DEF Pull
  <1>3. \A c \in page : c \in log /\ c.seq \in Nat /\ cursor < c.seq
    BY MaxSeqAssumption DEF Page, Above, TypeOK, Change, MaxSeqAssumption
  <1>4. answer' \in Answer
    BY <1>1, <1>2, <1>3 DEF Answer
  <1>5. TypeOK'
    BY <1>2, <1>4 DEF TypeOK, Answer
  <1>6. cursor \in Nat /\ n \in Nat
    BY MaxSeqAssumption DEF TypeOK, MaxSeqAssumption
  <1>7. cursor <= n /\ \A c \in page : c.seq <= n
    BY <1>1, <1>3, <1>6 DEF NextCursor
  <1>8. ASSUME NEW c \in log, cursor < c.seq, c.seq <= n
        PROVE  c \in page
    <2>1. c.seq \in Nat /\ c \in Above(cursor)
      BY <1>8 DEF Above, TypeOK, Change
    <2>2. PICK d \in page : d.seq = n
      BY <1>1, <1>6, <1>8, <2>1 DEF NextCursor
    <2> QED
      BY <1>6, <1>8, <2>1, <2>2, PageIsPrefix, LimitAssumption,
         MaxSeqAssumption DEF LogOrdered, TypeOK
  <1>9. AnswerComplete'
    BY <1>1, <1>2, <1>3, <1>7, <1>8 DEF AnswerComplete
  <1>10. RowsLocked' /\ Pending' /\ NumbersDiffer'
    BY <1>2 DEF RowsLocked, Holds, Pending, NumbersDiffer
  <1>11. LogOrdered' /\ CopyKnown' /\ NothingSkipped'
    BY <1>2 DEF LogOrdered, CopyKnown, NothingSkipped
  <1> QED
    BY <1>5, <1>9, <1>10, <1>11

(* What the device stores of a row is what it had, or a later change.      *)
LEMMA StoreIsLater ==
  ASSUME IInv, MaxSeqAssumption, Store, NEW r \in Rows
  PROVE  /\ copy[r] \in Nat /\ copy'[r] \in Nat
         /\ copy'[r] >= copy[r]
         /\ copy'[r] = 0 \/ \E c \in log :
              c.row = r /\ c.version = copy'[r] /\ c.seq <= answer.next
         /\ \A d \in answer.changes : d.row = r => d.version <= copy'[r]
  <1> USE DEF IInv
  <1>1. Newest(answer.changes, r, copy'[r]) /\ answer # NoAnswer
    BY DEF Store
  <1>2. answer \in Answer
    BY <1>1 DEF TypeOK
  <1>3. /\ answer.changes \subseteq log
        /\ answer.next \in Nat /\ cursor \in Nat /\ cursor <= answer.next
    BY <1>1, <1>2, MaxSeqAssumption
    DEF Answer, TypeOK, AnswerComplete, MaxSeqAssumption
  <1>4. copy[r] \in Nat
    BY DEF TypeOK
  <1>5. \A c \in log : c.seq \in Nat /\ c.version \in Nat
    BY DEF TypeOK, Change
  <1> DEFINE own == {c \in answer.changes : c.row = r}
  <1>6. CASE own = {}
    <2>1. copy'[r] = copy[r]
      BY <1>1, <1>6 DEF Newest
    <2>2. copy[r] = 0 \/ \E c \in log :
            c.row = r /\ c.version = copy[r] /\ c.seq <= answer.next
      BY <1>3, <1>5 DEF CopyKnown
    <2> QED
      BY <1>4, <1>6, <2>1, <2>2
  <1>7. CASE own # {}
    <2>1. PICK c \in own : copy'[r] = c.version /\ \A d \in own : d.seq <= c.seq
      BY <1>1, <1>7 DEF Newest
    <2>2. c \in log /\ c.row = r /\ cursor < c.seq /\ c.seq <= answer.next
      BY <1>1, <1>3 DEF AnswerComplete
    <2>3. copy[r] <= c.version
      BY <1>3, <1>4, <1>5, <2>2 DEF CopyKnown, LogOrdered
    <2>4. \A d \in own : d.version <= c.version
      BY <1>3, <1>5, <2>1, <2>2 DEF LogOrdered
    <2> QED
      BY <1>4, <1>5, <2>1, <2>2, <2>3, <2>4
  <1> QED
    BY <1>6, <1>7

LEMMA StoreStep ==
  ASSUME IInv, MaxSeqAssumption, Store
  PROVE  IInv'
  <1> USE DEF IInv
  <1>1. /\ cursor' = answer.next /\ answer' = NoAnswer /\ answer # NoAnswer
        /\ UNCHANGED <<version, drawn, tx, log, late>>
        /\ copy' \in [Rows -> 0..MaxSeq]
    BY DEF Store
  <1>2. answer \in Answer
    BY <1>1 DEF TypeOK
  <1>3. TypeOK'
    BY <1>1, <1>2, MaxSeqAssumption DEF TypeOK, Answer, MaxSeqAssumption
  <1>4. RowsLocked' /\ Pending' /\ NumbersDiffer' /\ LogOrdered'
    BY <1>1 DEF RowsLocked, Holds, Pending, NumbersDiffer, LogOrdered
  <1>5. AnswerComplete'
    BY <1>1 DEF AnswerComplete
  <1>6. CopyKnown'
    BY <1>1, StoreIsLater DEF CopyKnown
  <1>7. ASSUME NEW c \in log \ late, c.seq <= answer.next
        PROVE  copy'[c.row] >= c.version
    <2>1. c.row \in Rows /\ c.version \in Nat /\ c.seq \in Nat /\ cursor \in Nat
      BY MaxSeqAssumption DEF TypeOK, Change, MaxSeqAssumption
    <2>2. CASE c.seq <= cursor
      BY <2>1, <2>2, StoreIsLater DEF NothingSkipped
    <2>3. CASE cursor < c.seq
      BY <1>1, <1>7, <2>1, <2>3, StoreIsLater DEF AnswerComplete
    <2> QED
      BY <2>1, <2>2, <2>3
  <1>8. NothingSkipped'
    BY <1>1, <1>7 DEF NothingSkipped
  <1> QED
    BY <1>3, <1>4, <1>5, <1>6, <1>8

LEMMA LoseStep ==
  ASSUME IInv, MaxSeqAssumption, Lose
  PROVE  IInv'
  <1> USE DEF IInv
  <1>1. /\ answer' = NoAnswer /\ late' = {c \in late : c.seq <= cursor}
        /\ UNCHANGED <<version, drawn, tx, log, cursor, copy>>
    BY DEF Lose
  <1>2. TypeOK'
    BY <1>1 DEF TypeOK
  <1>3. RowsLocked' /\ Pending' /\ NumbersDiffer' /\ LogOrdered'
    BY <1>1 DEF RowsLocked, Holds, Pending, NumbersDiffer, LogOrdered
  <1>4. CopyKnown' /\ AnswerComplete' /\ NothingSkipped'
    BY <1>1 DEF CopyKnown, AnswerComplete, NothingSkipped
  <1> QED
    BY <1>2, <1>3, <1>4

-----------------------------------------------------------------------------
LEMMA StutterStep ==
  ASSUME IInv, UNCHANGED vars
  PROVE  IInv'
  BY DEF IInv, vars, TypeOK, Answer, RowsLocked, Holds, Pending, NumbersDiffer,
         LogOrdered, CopyKnown, AnswerComplete, NothingSkipped

LEMMA NextIInv ==
  ASSUME IInv, LimitAssumption, MaxSeqAssumption, [Next]_vars
  PROVE  IInv'
  <1>1. CASE UNCHANGED vars
    BY <1>1, StutterStep
  <1>2. ASSUME NEW w \in Workers, Write(w)
        PROVE  IInv'
    BY <1>2, LockRowStep, InsertStep, CommitStep, RollbackStep,
       MaxSeqAssumption DEF Write
  <1> QED
    BY <1>1, <1>2, PullStep, StoreStep, LoseStep, LimitAssumption,
       MaxSeqAssumption DEF Next

LEMMA Invariance == Spec => []IInv
  <1>1. Init => IInv
    BY InitIInv, MaxSeqAssumption
  <1>2. IInv /\ [Next]_vars => IInv'
    BY NextIInv, LimitAssumption, MaxSeqAssumption
  <1> QED
    BY <1>1, <1>2, PTL DEF Spec

(* Type correctness, for any rows, workers, page size and bound. *)
THEOREM TypeCorrect == Spec => []TypeOK
  <1>1. IInv => TypeOK
    BY DEF IInv
  <1> QED
    BY <1>1, Invariance, PTL

(* The cursor of a device passes no change the device has not stored, but  *)
(* for those committed behind it: SyncPullView pages in number order.      *)
THEOREM NothingIsSkipped == Spec => []NothingSkipped
  <1>1. IInv => NothingSkipped
    BY DEF IInv
  <1> QED
    BY <1>1, Invariance, PTL

(* A device's copy of a row never goes back, since the services draw the   *)
(* number of a change under the lock of its row and commit before they     *)
(* give the lock up.                                                       *)
THEOREM CopiesOnlyAdvance == Spec => CopiesNeverGoBack
  <1>1. IInv /\ [Next]_vars => [\A r \in Rows : copy'[r] >= copy[r]]_vars
    <2> SUFFICES ASSUME IInv, Next, NEW r \in Rows
                 PROVE  copy'[r] >= copy[r]
      OBVIOUS
    <2>1. copy[r] \in Nat
      BY DEF IInv, TypeOK
    <2>2. CASE Store
      BY <2>2, StoreIsLater, MaxSeqAssumption
    <2>3. ASSUME NEW w \in Workers, Write(w)
          PROVE  copy' = copy
      BY <2>3 DEF Write, LockRow, Insert, Commit, Rollback
    <2>4. Pull \/ Lose => copy' = copy
      BY DEF Pull, Lose
    <2> QED
      BY <2>1, <2>2, <2>3, <2>4 DEF Next
  <1> QED
    BY <1>1, Invariance, PTL DEF Spec, CopiesNeverGoBack

-----------------------------------------------------------------------------
(* When nothing at all is skipped *)

(* No transaction overtakes another one: the committed changes have lower  *)
(* numbers than those that are still to be committed.                      *)
NoOvertaking ==
  \A w \in Workers : tx[w].at = "inserted" =>
    \A c \in log : c.seq < tx[w].change.seq

(* NothingSkipped without its exception. *)
NothingEverSkipped == \A c \in log : c.seq <= cursor => copy[c.row] >= c.version

(* Where the device is, or will be after the answer, is the number of a    *)
(* committed change, or the start.                                         *)
PassedIsCommitted ==
  /\ cursor = 0 \/ \E c \in log : c.seq = cursor
  /\ answer # NoAnswer => answer.next = 0 \/ \E c \in log : c.seq = answer.next

LEMMA PassedInvariance == Spec => []PassedIsCommitted
  <1>1. Init => PassedIsCommitted
    BY DEF Init, PassedIsCommitted
  <1>2. PassedIsCommitted /\ [Next]_vars => PassedIsCommitted'
    <2>1. CASE UNCHANGED vars
      BY <2>1 DEF vars, PassedIsCommitted
    <2>2. ASSUME PassedIsCommitted, NEW w \in Workers, Write(w)
          PROVE  PassedIsCommitted'
      <3>1. UNCHANGED <<cursor, answer>> /\ log \subseteq log'
        BY <2>2 DEF Write, LockRow, Insert, Commit, Rollback
      <3> QED
        BY <2>2, <3>1 DEF PassedIsCommitted
    <2>3. ASSUME PassedIsCommitted, Pull
          PROVE  PassedIsCommitted'
      <3>1. PICK n \in 0..MaxSeq :
              /\ NextCursor(Page(cursor), cursor, n)
              /\ answer' = [at |-> "sent", changes |-> Page(cursor), next |-> n]
        BY <2>3 DEF Pull
      <3>2. n = cursor \/ \E c \in log : c.seq = n
        BY <3>1 DEF NextCursor, Page, Above
      <3> QED
        BY <2>3, <3>1, <3>2 DEF PassedIsCommitted, Pull
    <2>4. PassedIsCommitted /\ (Store \/ Lose) => PassedIsCommitted'
      BY DEF PassedIsCommitted, Store, Lose
    <2> QED
      BY <2>1, <2>2, <2>3, <2>4 DEF Next
  <1> QED
    BY <1>1, <1>2, PTL DEF Spec

(* If no transaction overtakes another one, no change is committed behind  *)
(* a cursor, and so a device that follows next_cursor misses no change.    *)
THEOREM InOrderSkipsNothing == Spec /\ []NoOvertaking => []NothingEverSkipped
  <1>1. Init => late = {}
    BY DEF Init
  <1>2. /\ IInv /\ PassedIsCommitted /\ NoOvertaking
        /\ late = {} /\ [Next]_vars
        => (late = {})'
    <2> SUFFICES ASSUME IInv, PassedIsCommitted, NoOvertaking, late = {}, Next
                 PROVE  late' = {}
      BY DEF vars
    <2>1. ASSUME NEW w \in Workers, Commit(w)
          PROVE  late' = {}
      <3> DEFINE c == tx[w].change
      <3>1. c.seq \in 1..MaxSeq /\ \A d \in log : d.seq < c.seq
        BY <2>1, TxCases DEF IInv, Commit, NoOvertaking, Change
      <3>2. Passed = 0 \/ \E d \in log : d.seq = Passed
        BY DEF Passed, PassedIsCommitted
      <3>3. ~(c.seq <= Passed)
        BY <3>1, <3>2, MaxSeqAssumption DEF IInv, TypeOK, Change, MaxSeqAssumption
      <3> QED
        BY <2>1, <3>3 DEF Commit
    <2>2. late' = late \/ late' \subseteq late \/ \E w \in Workers : Commit(w)
      BY DEF Next, Write, LockRow, Insert, Rollback, Pull, Store, Lose
    <2> QED
      BY <2>1, <2>2
  <1>3. IInv /\ late = {} => NothingEverSkipped
    BY DEF IInv, NothingSkipped, NothingEverSkipped
  <1> QED
    BY <1>1, <1>2, <1>3, Invariance, PassedInvariance, PTL DEF Spec

(* Two transactions of the company that have drawn a number are never open *)
(* at once.                                                                *)
DrawnAlone ==
  \A v, w \in Workers : tx[v].at = "inserted" /\ tx[w].at = "inserted" => v = w

(* One way to keep transactions from overtaking: a lock that a transaction *)
(* takes before record_sync_change draws and keeps until its end.          *)
THEOREM SerialDrawsSkipNothing == Spec /\ []DrawnAlone => []NothingEverSkipped
  <1>1. Init => NoOvertaking
    BY DEF Init, NoOvertaking
  <1>2. IInv /\ NoOvertaking /\ DrawnAlone /\ [Next]_vars => NoOvertaking'
    <2> SUFFICES ASSUME IInv, NoOvertaking, DrawnAlone, Next
                 PROVE  NoOvertaking'
      BY DEF vars, NoOvertaking
    <2>1. ASSUME NEW w \in Workers, Commit(w)
          PROVE  NoOvertaking'
      BY <2>1 DEF Commit, Become, NoOvertaking, DrawnAlone, IInv, TypeOK, Idle
    <2>2. ASSUME NEW w \in Workers, Insert(w)
          PROVE  NoOvertaking'
      <3>1. /\ tx'[w].at = "inserted" /\ tx'[w].change.seq = drawn + 1
            /\ \A v \in Workers : v # w => tx'[v] = tx[v]
            /\ log' = log
        BY <2>2 DEF Insert, Become, IInv, TypeOK
      <3>2. \A c \in log : c.seq < drawn + 1
        BY MaxSeqAssumption
        DEF IInv, LogOrdered, TypeOK, Change, MaxSeqAssumption
      <3> QED
        BY <3>1, <3>2 DEF NoOvertaking
    <2>3. ASSUME NEW w \in Workers, (\E r \in Rows : LockRow(w, r)) \/ Rollback(w)
          PROVE  NoOvertaking'
      BY <2>3 DEF LockRow, Rollback, Become, NoOvertaking, IInv, TypeOK, Idle
    <2>4. Pull \/ Store \/ Lose => NoOvertaking'
      BY DEF Pull, Store, Lose, NoOvertaking
    <2> QED
      BY <2>1, <2>2, <2>3, <2>4 DEF Next, Write
  <1> QED
    BY <1>1, <1>2, Invariance, InOrderSkipsNothing, PTL DEF Spec

-----------------------------------------------------------------------------
(* The refinement of Replica *)

LEMMA CommitPublishes ==
  ASSUME IInv, NEW w \in Workers, Commit(w)
  PROVE  \E r \in Rows : Rep!Publish(r)
  <1> DEFINE c == tx[w].change
  <1>1. c \in Change /\ c.version = version[c.row] + 1
    BY TxCases DEF IInv, Pending, Commit
  <1>2. Rep!Publish(c.row)
    BY <1>1 DEF Commit, Rep!Publish
  <1> QED
    BY <1>1, <1>2 DEF Change

LEMMA StoreRefreshes ==
  ASSUME IInv, MaxSeqAssumption, Store
  PROVE  Rep!Refresh
  <1>1. copy' \in [Rows -> Nat] /\ UNCHANGED version
    BY MaxSeqAssumption DEF Store, MaxSeqAssumption
  <1>2. ASSUME NEW r \in Rows
        PROVE  copy[r] <= copy'[r] /\ copy'[r] <= version[r]
    <2>1. /\ copy[r] \in Nat /\ copy'[r] \in Nat /\ version[r] \in Nat
          /\ copy'[r] >= copy[r]
          /\ copy'[r] = 0 \/ \E c \in log : c.row = r /\ c.version = copy'[r]
      BY StoreIsLater DEF IInv, TypeOK
    <2> QED
      BY <2>1 DEF IInv, LogOrdered
  <1> QED
    BY <1>1, <1>2 DEF Rep!Refresh

(* ChangeFeed implements Replica: a commit publishes the next version of   *)
(* its row, storing an answer refreshes, and everything else, numbers that *)
(* are drawn, rollbacks and lost answers included, stutters.               *)
THEOREM FollowsReplica == Spec => ImplementsReplica
  <1>1. Init => Rep!Init
    BY DEF Init, Rep!Init
  <1>2. IInv /\ [Next]_vars => [Rep!Next]_<<version, copy>>
    <2> SUFFICES ASSUME IInv, [Next]_vars
                 PROVE  [Rep!Next]_<<version, copy>>
      OBVIOUS
    <2>1. \/ UNCHANGED <<version, copy>>
          \/ \E w \in Workers : Commit(w)
          \/ Store
      BY DEF Next, Write, LockRow, Insert, Rollback, Pull, Lose, vars
    <2> QED
      BY <2>1, CommitPublishes, StoreRefreshes, MaxSeqAssumption DEF Rep!Next
  <1> QED
    BY <1>1, <1>2, Invariance, PTL DEF Spec, ImplementsReplica, Rep!Spec

(* What the device has of a row is what was committed, or older. *)
NeverAhead ==
  \A r \in Rows : /\ version[r] \in Nat /\ copy[r] \in Nat
                  /\ copy[r] <= version[r]

ReplicaInv ==
  /\ version \in [Rows -> Nat] /\ copy \in [Rows -> Nat]
  /\ NeverAhead

(* Replica alone implies that no copy is ahead of its row or goes back, so *)
(* whatever implements it has both.                                        *)
THEOREM ReplicaIsKept ==
  ImplementsReplica => []NeverAhead /\ [][\A r \in Rows : copy'[r] >= copy[r]]_copy
  <1>1. Rep!Init => ReplicaInv
    BY DEF Rep!Init, ReplicaInv, NeverAhead
  <1>2. ReplicaInv /\ [Rep!Next]_<<version, copy>> => ReplicaInv'
    BY DEF ReplicaInv, NeverAhead, Rep!Next, Rep!Publish, Rep!Refresh
  <1>3. ReplicaInv /\ [Rep!Next]_<<version, copy>>
          => [\A r \in Rows : copy'[r] >= copy[r]]_copy
    BY DEF ReplicaInv, Rep!Next, Rep!Publish, Rep!Refresh
  <1>4. ReplicaInv => NeverAhead
    BY DEF ReplicaInv
  <1> QED
    BY <1>1, <1>2, <1>3, <1>4, PTL DEF ImplementsReplica, Rep!Spec

-----------------------------------------------------------------------------
(***************************************************************************)
(* PushDelivery, which shares neither constants nor variables with         *)
(* ChangeFeed.                                                             *)
(***************************************************************************)

(* A worker sends what is due, and two workers never send the same: the    *)
(* lock of a notification keeps a retry out, and a commit takes what was   *)
(* accepted out of the queue before the next worker looks.                 *)
SendsWhatIsDue ==
  \A w \in Dispatchers : \A n \in Notes : Sends(w, n) => n \in Listed

OneSender ==
  \A v, w \in Dispatchers : \A n \in Notes :
    Sends(v, n) /\ Sends(w, n) => v = w

PushInv ==
  /\ PushTypeOK
  /\ SendsWhatIsDue
  /\ OneSender

-----------------------------------------------------------------------------
(* Sequences without repetition *)

Members(s) == {s[k] : k \in DOMAIN s}
Distinct(s) == \A j, k \in DOMAIN s : j # k => s[j] # s[k]

LEMMA AppendNew ==
  ASSUME NEW S, NEW s \in Seq(S), NEW n \in S, Distinct(s), n \notin Members(s)
  PROVE  /\ Append(s, n) \in Seq(S)
         /\ Distinct(Append(s, n))
         /\ Members(Append(s, n)) = Members(s) \cup {n}
<1> DEFINE t == Append(s, n)
<1>1. /\ t \in Seq(S)
      /\ Len(s) \in Nat
      /\ DOMAIN s = 1..Len(s)
      /\ DOMAIN t = 1..(Len(s) + 1)
      /\ t[Len(s) + 1] = n
      /\ \A k \in 1..Len(s) : t[k] = s[k]
  OBVIOUS
<1> HIDE DEF t
<1>2. \A k \in DOMAIN t : k \in DOMAIN s \/ k = Len(s) + 1
  BY <1>1
<1>3. Distinct(t)
  BY <1>1, <1>2 DEF Distinct, Members
<1>4. Members(t) = Members(s) \cup {n}
  <2>1. Members(t) \subseteq Members(s) \cup {n}
    BY <1>1, <1>2 DEF Members
  <2>2. n \in Members(t)
    BY <1>1 DEF Members
  <2>3. Members(s) \subseteq Members(t)
    <3> SUFFICES ASSUME NEW k \in DOMAIN s
                 PROVE  s[k] \in Members(t)
      BY DEF Members
    <3>1. k \in DOMAIN t /\ t[k] = s[k]
      BY <1>1
    <3> QED
      BY <3>1 DEF Members
  <2> QED
    BY <2>1, <2>2, <2>3
<1> QED
  BY <1>1, <1>3, <1>4 DEF t

LEMMA RemovedAt ==
  ASSUME NEW S, NEW s \in Seq(S), NEW k \in DOMAIN s, Distinct(s)
  PROVE  LET t == SubSeq(s, 1, k - 1) \o SubSeq(s, k + 1, Len(s))
         IN /\ t \in Seq(S)
            /\ Distinct(t)
            /\ Members(t) = Members(s) \ {s[k]}
<1> DEFINE a == SubSeq(s, 1, k - 1)
           b == SubSeq(s, k + 1, Len(s))
           t == a \o b
<1>1. /\ Len(s) \in Nat /\ DOMAIN s = 1..Len(s)
      /\ k \in 1..Len(s)
  OBVIOUS
<1>2. /\ a \in Seq(S) /\ Len(a) = k - 1
      /\ \A j \in 1..(k - 1) : a[j] = s[j]
  BY <1>1
<1>3. /\ b \in Seq(S) /\ Len(b) = Len(s) - k
      /\ \A j \in 1..(Len(s) - k) : b[j] = s[k + j]
  BY <1>1
<1> HIDE DEF a, b
<1>4. /\ t \in Seq(S)
      /\ Len(t) = Len(s) - 1
      /\ DOMAIN t = 1..(Len(s) - 1)
      /\ \A j \in 1..(k - 1) : t[j] = a[j]
      /\ \A j \in k..(Len(s) - 1) : t[j] = b[j - (k - 1)]
  <2>1. /\ t \in Seq(S)
        /\ Len(t) = Len(a) + Len(b)
        /\ DOMAIN t = 1..Len(t)
        /\ \A j \in 1..Len(t) :
             t[j] = IF j <= Len(a) THEN a[j] ELSE b[j - Len(a)]
    <3>1. /\ t \in Seq(S)
          /\ Len(t) = Len(a) + Len(b)
          /\ \A j \in 1..(Len(a) + Len(b)) :
               t[j] = IF j <= Len(a) THEN a[j] ELSE b[j - Len(a)]
      <4>1. a \in Seq(S) /\ b \in Seq(S)
        BY <1>2, <1>3
      <4> QED
        BY <4>1, ConcatProperties, Zenon
    <3> HIDE DEF t
    <3>2. DOMAIN t = 1..Len(t)
      BY <3>1
    <3> QED
      BY <3>1, <3>2
  <2> HIDE DEF t
  <2>2. Len(t) = Len(s) - 1
    BY <1>1, <1>2, <1>3, <2>1
  <2>3. \A j \in 1..(k - 1) : t[j] = a[j]
    BY <1>1, <1>2, <2>1, <2>2
  <2>4. ASSUME NEW j \in k..(Len(s) - 1)
        PROVE  t[j] = b[j - (k - 1)]
    <3>1. j \in 1..Len(t) /\ ~(j <= k - 1)
      BY <1>1, <2>2
    <3> QED
      BY <1>2, <2>1, <3>1
  <2> QED
    BY <2>1, <2>2, <2>3, <2>4
<1> HIDE DEF t
<1>5. ASSUME NEW j \in DOMAIN t
      PROVE  IF j < k THEN t[j] = s[j] ELSE t[j] = s[j + 1]
  <2>1. CASE j < k
    BY <1>1, <1>2, <1>4, <2>1
  <2>2. CASE j >= k
    <3>1. j - (k - 1) \in 1..(Len(s) - k)
      BY <1>1, <1>4, <2>2
    <3>2. b[j - (k - 1)] = s[k + (j - (k - 1))]
      BY <1>3, <3>1
    <3>3. k + (j - (k - 1)) = j + 1
      BY <1>1, <1>4
    <3> QED
      BY <1>1, <1>4, <2>2, <3>2, <3>3
  <2> QED
    BY <1>1, <1>4, <2>1, <2>2
<1> DEFINE from(j) == IF j < k THEN j ELSE j + 1
<1>6. \A j \in DOMAIN t : /\ from(j) \in DOMAIN s /\ from(j) # k
                          /\ t[j] = s[from(j)]
  BY <1>1, <1>4, <1>5
<1>7. \A i, j \in DOMAIN t : i # j => from(i) # from(j)
  BY <1>1, <1>4
<1>8. \A i \in DOMAIN s : i # k => \E j \in DOMAIN t : from(j) = i
  <2> SUFFICES ASSUME NEW i \in DOMAIN s, i # k
               PROVE  \E j \in DOMAIN t : from(j) = i
    OBVIOUS
  <2>1. CASE i < k
    BY <1>1, <1>4, <2>1
  <2>2. CASE i > k
    <3>1. i - 1 \in DOMAIN t /\ from(i - 1) = i
      BY <1>1, <1>4, <2>2
    <3> QED
      BY <3>1
  <2> QED
    BY <1>1, <2>1, <2>2
<1> HIDE DEF from
<1>9. Distinct(t)
  <2> SUFFICES ASSUME NEW i \in DOMAIN t, NEW j \in DOMAIN t, i # j
               PROVE  t[i] # t[j]
    BY DEF Distinct
  <2> QED
    BY <1>6, <1>7 DEF Distinct
<1>10. Members(t) = Members(s) \ {s[k]}
  <2>1. ASSUME NEW j \in DOMAIN t
        PROVE  t[j] \in Members(s) /\ t[j] # s[k]
    BY <1>6 DEF Members, Distinct
  <2>2. ASSUME NEW i \in DOMAIN s, s[i] # s[k]
        PROVE  s[i] \in Members(t)
    BY <1>6, <1>8, <2>2 DEF Members
  <2> QED
    BY <2>1, <2>2 DEF Members
<1> QED
  BY <1>4, <1>9, <1>10 DEF t, a, b

-----------------------------------------------------------------------------
(* The queue *)

LEMMA QueueIsListed ==
  /\ Listed = Members(due)
  /\ (\A j, k \in DOMAIN due : j # k => due[j] # due[k]) <=> Distinct(due)
BY DEF Listed, Members, Distinct

LEMMA AddedToQueue ==
  ASSUME PushTypeOK, NEW n \in Notes, n \notin Listed,
         due' = Append(due, n)
  PROVE  /\ due' \in Seq(Notes)
         /\ Distinct(due')
         /\ Listed' = Listed \cup {n}
<1>1. due \in Seq(Notes) /\ Distinct(due) /\ n \notin Members(due)
  BY QueueIsListed DEF PushTypeOK
<1>2. Listed' = Members(due')
  BY DEF Listed, Members
<1> QED
  BY <1>1, <1>2, AppendNew, QueueIsListed

LEMMA TakenFromQueue ==
  ASSUME PushTypeOK, NEW n \in Notes
  PROVE  /\ Without(n) \in Seq(Notes)
         /\ Distinct(Without(n))
         /\ Members(Without(n)) = Listed \ {n}
<1> DEFINE k == Position(n)
<1>1. due \in Seq(Notes) /\ Distinct(due) /\ Listed = Members(due)
  BY QueueIsListed DEF PushTypeOK
<1>2. CASE n \notin Listed
  BY <1>1, <1>2 DEF Without
<1>3. CASE n \in Listed
  <2>1. k \in DOMAIN due /\ due[k] = n
    BY <1>1, <1>3 DEF Members, Position
  <2>2. Without(n) = SubSeq(due, 1, k - 1) \o SubSeq(due, k + 1, Len(due))
    BY <1>3 DEF Without, RemoveAt
  <2> HIDE DEF k
  <2> QED
    BY <1>1, <2>1, <2>2, RemovedAt
<1> QED
  BY <1>2, <1>3

-----------------------------------------------------------------------------
(* The steps *)

LEMMA AttemptsType ==
  ASSUME PushTypeOK, SizesAssumption, NEW n \in Notes
  PROVE  /\ OneMore(n) \in [Notes -> 0..MaxAttempts]
         /\ \A k \in {attempts[n]} \cup RetryNumber(n) :
              [attempts EXCEPT ![n] = k] \in [Notes -> 0..MaxAttempts]
<1>1. attempts[n] \in 0..MaxAttempts /\ MaxAttempts \in Nat
  BY DEF PushTypeOK, SizesAssumption
<1>2. (IF attempts[n] < MaxAttempts THEN attempts[n] + 1 ELSE attempts[n])
        \in 0..MaxAttempts
  BY <1>1
<1>3. OneMore(n) \in [Notes -> 0..MaxAttempts]
  BY <1>2 DEF PushTypeOK, OneMore
<1>4. \A k \in {attempts[n]} \cup RetryNumber(n) : k \in 0..MaxAttempts
  BY <1>1 DEF RetryNumber
<1> QED
  BY <1>3, <1>4 DEF PushTypeOK

LEMMA SenderIsBusy ==
  ASSUME PushTypeOK, NEW w \in Dispatchers, NEW n \in Notes, Sends(w, n)
  PROVE  /\ sending[w] \in Sending
         /\ \A m \in Notes : Sends(w, m) => m = n
BY DEF PushTypeOK, Sends

(* A step that leaves the senders and what is due to them.                 *)
LEMMA SendersUntouched ==
  ASSUME PushInv, sending' = sending, Listed \subseteq Listed'
  PROVE  SendsWhatIsDue' /\ OneSender'
<1>1. \A w \in Dispatchers : \A n \in Notes :
        Sends(w, n)' <=> Sends(w, n)
  BY DEF Sends, Nothing
<1> QED
  BY <1>1 DEF PushInv, SendsWhatIsDue, OneSender

LEMMA EnqueueStep ==
  ASSUME PushInv, NEW n \in Notes, Create(n) \/ BecomeDue(n)
  PROVE  PushInv'
<1> USE DEF PushInv
<1>1. /\ n \notin Listed
      /\ due' = Append(due, n)
      /\ status' \in [Notes -> Status]
      /\ \A m \in Listed \cup {n} : status'[m] \in {"queued", "failed"}
      /\ UNCHANGED <<attempts, token, batch, sending, retrying>>
  <2>1. Listed \subseteq Notes
    BY DEF PushTypeOK, Listed
  <2>2. CASE Create(n)
    BY <2>1, <2>2 DEF Create, PushTypeOK, Status
  <2>3. CASE BecomeDue(n)
    BY <2>3 DEF BecomeDue, PushTypeOK
  <2> QED
    BY <2>2, <2>3
<1>2. /\ due' \in Seq(Notes)
      /\ Distinct(due')
      /\ Listed' = Listed \cup {n}
  BY <1>1, AddedToQueue
<1>3. PushTypeOK'
  BY <1>1, <1>2 DEF PushTypeOK, Distinct, Sending, Nothing,
                    Outcome, Status
<1> QED
  BY <1>1, <1>2, <1>3, SendersUntouched

LEMMA BesideQueueStep ==
  ASSUME PushInv, SizesAssumption, NEW n \in Notes,
         Register(n) \/ RetryRead(n) \/ RetryDies(n)
  PROVE  PushInv'
<1> USE DEF PushInv
<1>1. UNCHANGED <<status, due, batch, sending>>
  BY DEF Register, RetryRead, RetryDies
<1>2. /\ token' \in [Notes -> BOOLEAN]
      /\ retrying' \subseteq Notes
  BY DEF PushTypeOK, Register, RetryRead, RetryDies
<1>3. attempts' \in [Notes -> 0..MaxAttempts]
  <2>1. CASE UNCHANGED attempts
    BY <2>1 DEF PushTypeOK
  <2>2. CASE RetryDies(n)
    <3>1. PICK k \in {attempts[n]} \cup RetryNumber(n) :
            attempts' = [attempts EXCEPT ![n] = k]
      BY <2>2 DEF RetryDies
    <3>2. [attempts EXCEPT ![n] = k] \in [Notes -> 0..MaxAttempts]
      BY AttemptsType
    <3> QED
      BY <3>1, <3>2
  <2> QED
    BY <2>1, <2>2 DEF Register, RetryRead
<1>4. Listed' = Listed
  BY <1>1 DEF Listed
<1>5. PushTypeOK'
  BY <1>1, <1>2, <1>3, <1>4 DEF PushTypeOK, Sending, Nothing,
                                Outcome, Status
<1> QED
  BY <1>1, <1>4, <1>5, SendersUntouched

LEMMA RetryWriteStep ==
  ASSUME PushInv, SizesAssumption, NEW n \in Notes, RetryWrite(n)
  PROVE  PushInv'
<1> USE DEF PushInv
<1> DEFINE rest == Without(n)
<1>1. /\ status' = [status EXCEPT ![n] = "queued"]
      /\ due' = Append(rest, n)
      /\ retrying' = retrying \ {n}
      /\ UNCHANGED <<token, batch, sending>>
  BY DEF RetryWrite
<1>2. /\ rest \in Seq(Notes)
      /\ Distinct(rest)
      /\ Members(rest) = Listed \ {n}
  BY TakenFromQueue
<1> HIDE DEF rest
<1>3. /\ due' \in Seq(Notes)
      /\ Distinct(due')
      /\ Members(due') = Listed \cup {n}
  BY <1>1, <1>2, AppendNew
<1>4. Listed' = Listed \cup {n}
  BY <1>3 DEF Listed, Members
<1>5. attempts' \in [Notes -> 0..MaxAttempts]
  BY AttemptsType DEF RetryWrite
<1>6. /\ status' \in [Notes -> Status]
      /\ \A m \in Listed' : status'[m] \in {"queued", "failed"}
  <2>1. Listed \subseteq Notes
    BY DEF PushTypeOK, Listed
  <2> QED
    BY <1>1, <1>4, <2>1 DEF PushTypeOK, Status
<1>7. PushTypeOK'
  BY <1>1, <1>3, <1>5, <1>6 DEF PushTypeOK, Distinct, Sending,
                                Nothing, Outcome, Status
<1> QED
  BY <1>1, <1>4, <1>7, SendersUntouched

LEMMA PickBatchStep ==
  ASSUME PushInv, SizesAssumption, NEW w \in Dispatchers, PickBatch(w)
  PROVE  PushInv'
<1> USE DEF PushInv
<1> DEFINE size == IF Len(due) < BatchSize THEN Len(due) ELSE BatchSize
<1>1. /\ batch' = [batch EXCEPT ![w] = SubSeq(due, 1, size)]
      /\ UNCHANGED <<status, attempts, token, due, sending, retrying>>
  BY DEF PickBatch
<1>2. SubSeq(due, 1, size) \in Seq(Notes)
  <2>1. due \in Seq(Notes) /\ Len(due) \in Nat /\ size \in 0..Len(due)
    BY DEF PushTypeOK, SizesAssumption
  <2> HIDE DEF size
  <2> QED
    BY <2>1, SubSeqProperties
<1> HIDE DEF size
<1>3. batch' \in [Dispatchers -> Seq(Notes)]
  BY <1>1, <1>2 DEF PushTypeOK
<1>4. Listed' = Listed
  BY <1>1 DEF Listed
<1>5. PushTypeOK'
  BY <1>1, <1>3, <1>4 DEF PushTypeOK, Sending, Nothing,
                          Outcome, Status
<1> QED
  BY <1>1, <1>4, <1>5, SendersUntouched

LEMMA SendStep ==
  ASSUME PushInv, NEW w \in Dispatchers, NEW n \in Notes, Send(w, n)
  PROVE  PushInv'
<1> USE DEF PushInv
<1>1. /\ batch[w] # <<>>
      /\ sending[w] = Nothing
      /\ \A v \in Dispatchers : ~Sends(v, n)
      /\ batch' = [batch EXCEPT ![w] = Tail(@)]
      /\ UNCHANGED <<status, attempts, token, due, retrying>>
  BY DEF Send, Unlocked
<1>2. \/ sending' = sending
      \/ /\ n \in Listed
         /\ \E o \in Outcome :
              sending' = [sending EXCEPT ![w] = [note |-> n, outcome |-> o]]
  BY DEF Send
<1>3. batch' \in [Dispatchers -> Seq(Notes)]
  <2>1. batch[w] \in Seq(Notes)
    BY DEF PushTypeOK
  <2>2. Tail(batch[w]) \in Seq(Notes)
    BY <1>1, <2>1
  <2> QED
    BY <1>1, <2>2 DEF PushTypeOK
<1>4. Listed' = Listed
  BY <1>1 DEF Listed
<1>5. sending' \in [Dispatchers -> Sending \cup {Nothing}]
  <2>1. CASE sending' = sending
    BY <2>1 DEF PushTypeOK
  <2>2. ASSUME NEW o \in Outcome,
               sending' = [sending EXCEPT ![w] = [note |-> n, outcome |-> o]]
        PROVE  sending' \in [Dispatchers -> Sending \cup {Nothing}]
    <3>1. [note |-> n, outcome |-> o] \in Sending
      BY DEF Sending
    <3> QED
      BY <2>2, <3>1 DEF PushTypeOK
  <2> QED
    BY <1>2, <2>1, <2>2
<1>6. PushTypeOK'
  BY <1>1, <1>3, <1>4, <1>5 DEF PushTypeOK, Sending, Nothing,
                                Outcome, Status
<1>7. CASE sending' = sending
  BY <1>4, <1>6, <1>7, SendersUntouched
<1>8. CASE /\ n \in Listed
           /\ \E o \in Outcome :
                sending' = [sending EXCEPT ![w] = [note |-> n, outcome |-> o]]
  <2>1. \A m \in Notes : Sends(w, m)' => m = n
    BY <1>8 DEF PushTypeOK, Sends
  <2>2. ASSUME NEW v \in Dispatchers, v # w, NEW m \in Notes
        PROVE  Sends(v, m)' <=> Sends(v, m)
    BY <1>8, <2>2 DEF PushTypeOK, Sends, Nothing
  <2>3. SendsWhatIsDue'
    BY <1>4, <1>8, <2>1, <2>2 DEF SendsWhatIsDue
  <2>4. OneSender'
    BY <1>1, <2>1, <2>2 DEF OneSender
  <2> QED
    BY <1>6, <2>3, <2>4
<1> QED
  BY <1>2, <1>7, <1>8

(* Only the worker that commits was sending the notification, so nobody    *)
(* else sends what has left the queue.                                     *)
LEMMA PushCommitStep ==
  ASSUME PushInv, SizesAssumption, NEW w \in Dispatchers, NEW n \in Notes,
         CommitSend(w, n)
  PROVE  PushInv'
<1> USE DEF PushInv
<1> DEFINE outcome == sending[w].outcome
           rest == Without(n)
<1>1. /\ Sends(w, n)
      /\ status' = [status EXCEPT ![n] =
                      IF outcome = "accepted" THEN "sent" ELSE "failed"]
      /\ attempts' = IF outcome = "no_device" THEN attempts
                                              ELSE OneMore(n)
      /\ due' = rest \/ (due' = due /\ outcome # "accepted")
      /\ token' = [token EXCEPT ![n] = @ /\ outcome # "permanent"]
      /\ sending' = [sending EXCEPT ![w] = Nothing]
      /\ UNCHANGED <<batch, retrying>>
  BY DEF CommitSend, Record
<1>2. /\ rest \in Seq(Notes)
      /\ Distinct(rest)
      /\ Members(rest) = Listed \ {n}
  BY TakenFromQueue
<1> HIDE DEF rest, outcome
<1>3. /\ due' \in Seq(Notes)
      /\ Distinct(due')
      /\ Listed' = Members(due')
  BY <1>1, <1>2, QueueIsListed DEF PushTypeOK, Listed, Members
<1>4. /\ Listed \ {n} \subseteq Listed'
      /\ Listed' \subseteq Listed
      /\ outcome = "accepted" => n \notin Listed'
  BY <1>1, <1>2, <1>3, QueueIsListed
<1>5. /\ status' \in [Notes -> Status]
      /\ \A m \in Listed' : status'[m] \in {"queued", "failed"}
  <2>1. Listed \subseteq Notes
    BY DEF PushTypeOK, Listed
  <2>2. status' \in [Notes -> Status]
    BY <1>1 DEF PushTypeOK, Status
  <2>3. ASSUME NEW m \in Listed'
        PROVE  status'[m] \in {"queued", "failed"}
    <3>1. CASE m = n
      BY <1>1, <1>4, <2>3, <3>1 DEF PushTypeOK
    <3>2. CASE m # n
      <4>1. status'[m] = status[m]
        BY <1>1, <1>4, <2>1, <2>3, <3>2 DEF PushTypeOK
      <4> QED
        BY <1>4, <2>3, <4>1 DEF PushTypeOK
    <3> QED
      BY <3>1, <3>2
  <2> QED
    BY <2>2, <2>3
<1>6. attempts' \in [Notes -> 0..MaxAttempts]
  BY <1>1, AttemptsType DEF PushTypeOK
<1>7. /\ token' \in [Notes -> BOOLEAN]
      /\ sending' \in [Dispatchers -> Sending \cup {Nothing}]
  BY <1>1 DEF PushTypeOK
<1>8. PushTypeOK'
  BY <1>1, <1>3, <1>5, <1>6, <1>7 DEF PushTypeOK, Distinct, Sending,
                                Nothing, Outcome, Status
<1>9. ASSUME NEW v \in Dispatchers, NEW m \in Notes, Sends(v, m)'
      PROVE  v # w /\ m # n /\ Sends(v, m)
  <2>1. v # w
    BY <1>1, <1>9 DEF PushTypeOK, Sends, Nothing
  <2>2. sending'[v] = sending[v]
    BY <1>1, <2>1 DEF PushTypeOK
  <2>3. Sends(v, m)
    BY <1>9, <2>2 DEF Sends, Nothing
  <2> QED
    BY <1>1, <2>1, <2>3 DEF OneSender
<1>10. SendsWhatIsDue'
  BY <1>4, <1>9 DEF SendsWhatIsDue
<1>11. OneSender'
  BY <1>9 DEF OneSender
<1> QED
  BY <1>8, <1>10, <1>11

LEMMA PushCrashStep ==
  ASSUME PushInv, NEW w \in Dispatchers, Crash(w)
  PROVE  PushInv'
<1> USE DEF PushInv
<1>1. /\ batch' = [batch EXCEPT ![w] = <<>>]
      /\ sending' = [sending EXCEPT ![w] = Nothing]
      /\ UNCHANGED <<status, attempts, token, due, retrying>>
  BY DEF Crash
<1>2. Listed' = Listed
  BY <1>1 DEF Listed
<1>3. /\ batch' \in [Dispatchers -> Seq(Notes)]
      /\ sending' \in [Dispatchers -> Sending \cup {Nothing}]
  BY <1>1 DEF PushTypeOK
<1>4. PushTypeOK'
  BY <1>1, <1>2, <1>3 DEF PushTypeOK, Sending, Nothing,
                          Outcome, Status
<1>5. ASSUME NEW v \in Dispatchers, NEW m \in Notes, Sends(v, m)'
      PROVE  Sends(v, m)
  BY <1>1, <1>5 DEF PushTypeOK, Sends, Nothing
<1> QED
  BY <1>2, <1>4, <1>5 DEF SendsWhatIsDue, OneSender

LEMMA PushInvStep ==
  ASSUME PushInv, SizesAssumption, [PushNext]_pushVars
  PROVE  PushInv'
<1>1. CASE UNCHANGED pushVars
  <2>1. Listed' = Listed
    BY <1>1 DEF Listed, pushVars
  <2> QED
    BY <1>1, <2>1 DEF PushInv, pushVars, PushTypeOK, Sending,
      Nothing, Outcome, Status, SendsWhatIsDue, OneSender,
      Sends
<1>2. CASE PushNext
  BY <1>2, EnqueueStep, BesideQueueStep, RetryWriteStep, PickBatchStep,
     SendStep, PushCommitStep, PushCrashStep DEF PushNext, Dispatch
<1> QED
  BY <1>1, <1>2

LEMMA PushInvInit ==
  ASSUME SizesAssumption, PushInit
  PROVE  PushInv
<1>1. Listed = {}
  BY DEF PushInit, Listed
<1>2. 0 \in 0..MaxAttempts
  BY DEF SizesAssumption
<1>3. PushTypeOK
  BY <1>1, <1>2 DEF PushInit, PushTypeOK, Status
<1>4. \A w \in Dispatchers : \A n \in Notes : ~Sends(w, n)
  BY DEF PushInit, Sends
<1> QED
  BY <1>3, <1>4 DEF PushInv, SendsWhatIsDue, OneSender

LEMMA PushInvariant == PushSpec => []PushInv
<1>1. PushInit => PushInv
  BY PushInvInit, SizesAssumption
<1>2. PushInv /\ [PushNext]_pushVars => PushInv'
  BY PushInvStep, SizesAssumption
<1> QED
  BY <1>1, <1>2, PTL DEF PushSpec

(* The queue has each notification once, and what is in it was not sent;   *)
(* workers and their batches hold notifications that exist.                *)
THEOREM PushTypeCorrect == PushSpec => []PushTypeOK
<1>1. PushInv => PushTypeOK
  BY DEF PushInv
<1> QED
  BY <1>1, PushInvariant, PTL

(* Whatever ids two workers have read and wherever they die, what was sent *)
(* is sent again only by a retry that was decided before.                  *)
THEOREM SentPushesStaySent == PushSpec => SentStaysSent
<1> DEFINE Stays == \A n \in Notes : status[n] = "sent" /\ n \notin retrying =>
                      status'[n] = "sent"
<1>1. PushInv /\ [PushNext]_pushVars => [Stays]_pushVars
  <2> SUFFICES ASSUME PushInv, PushNext, NEW n \in Notes,
                      status[n] = "sent", n \notin retrying
               PROVE  status'[n] = "sent"
    OBVIOUS
  <2>1. PushTypeOK /\ n \notin Listed
    BY DEF PushInv, PushTypeOK
  <2>2. \A w \in Dispatchers : ~Sends(w, n)
    BY <2>1 DEF PushInv, SendsWhatIsDue
  <2>3. ASSUME NEW m \in Notes, Create(m)
        PROVE  status'[n] = "sent"
    BY <2>1, <2>3 DEF Create, PushTypeOK
  <2>4. ASSUME NEW m \in Notes, RetryWrite(m)
        PROVE  status'[n] = "sent"
    BY <2>1, <2>4 DEF RetryWrite, PushTypeOK
  <2>5. ASSUME NEW w \in Dispatchers, NEW m \in Notes, CommitSend(w, m)
        PROVE  status'[n] = "sent"
    BY <2>1, <2>2, <2>5 DEF CommitSend, Record, PushTypeOK
  <2>6. \/ status' = status
        \/ \E m \in Notes : Create(m) \/ RetryWrite(m)
        \/ \E w \in Dispatchers : \E m \in Notes : CommitSend(w, m)
    BY DEF PushNext, Dispatch, BecomeDue, Register,
           RetryRead, RetryDies, PickBatch, Crash, Send
  <2> QED
    BY <2>3, <2>4, <2>5, <2>6
<1> QED
  BY <1>1, PushInvariant, PTL DEF PushSpec, SentStaysSent
==============================================================================
