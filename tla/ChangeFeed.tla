------------------------------ MODULE ChangeFeed ------------------------------
(***************************************************************************)
(* The changes of one organization that a device downloads (backend/apps/  *)
(* offline: record_sync_change and SyncPullView).  A service locks the row *)
(* it changes and inserts a change in its transaction: the sequence number *)
(* is drawn at the insert, the change is seen by others at the commit.     *)
(* The device is external: it keeps the last payload of each row and the   *)
(* next_cursor of the last answer, in one transaction of its own.  Left    *)
(* out: mark_read, which locks nothing (its changes differ in the time     *)
(* only), and the deletion of a row, which no service records.             *)
(***************************************************************************)
EXTENDS Naturals, FiniteSets

CONSTANTS Rows,      \* rows whose changes are recorded
          Workers,   \* request handlers
          Limit,     \* changes in one answer
          MaxSeq     \* bound: sequence numbers that are drawn

ASSUME LimitAssumption == Limit \in Nat \ {0}
ASSUME MaxSeqAssumption == MaxSeq \in Nat

VARIABLES version,   \* committed version of each row
          drawn,     \* last sequence number that was drawn
          tx,        \* what each worker is writing
          log,       \* the changes that are committed
          cursor,    \* of the device
          copy,      \* version of each row the device has
          answer,    \* the answer that is on its way to the device
          late       \* history: changes that were committed when the cursor,
                     \* or the answer under way, had passed their number

vars == <<version, drawn, tx, log, cursor, copy, answer, late>>

-----------------------------------------------------------------------------
Change == [seq : 1..MaxSeq, row : Rows, version : Nat]

Idle == [at |-> "idle"]
Locked == [at : {"locked"}, row : Rows, version : Nat]
Inserted == [at : {"inserted"}, change : Change]

NoAnswer == [at |-> "none"]
Answer == [at : {"sent"}, changes : SUBSET log, next : 0..MaxSeq]

TypeOK ==
  /\ version \in [Rows -> Nat]
  /\ drawn \in 0..MaxSeq
  /\ tx \in [Workers -> Locked \cup Inserted \cup {Idle}]
  /\ log \subseteq Change
  /\ cursor \in 0..MaxSeq
  /\ copy \in [Rows -> Nat]
  /\ answer \in Answer \cup {NoAnswer}
  /\ late \subseteq log

Init ==
  /\ version = [r \in Rows |-> 0]
  /\ drawn = 0
  /\ tx = [w \in Workers |-> Idle]
  /\ log = {}
  /\ cursor = 0
  /\ copy = [r \in Rows |-> 0]
  /\ answer = NoAnswer
  /\ late = {}

-----------------------------------------------------------------------------
(* Services that record a change *)

Become(w, x) == tx' = [tx EXCEPT ![w] = x]

Holds(w, r) ==
  \/ tx[w].at = "locked" /\ tx[w].row = r
  \/ tx[w].at = "inserted" /\ tx[w].change.row = r

(* Mutant: the row is read and not locked. *)
ReadRow(w, r) ==
  /\ tx[w] = Idle
  /\ Become(w, [at |-> "locked", row |-> r, version |-> version[r] + 1])
  /\ UNCHANGED <<version, drawn, log, cursor, copy, answer, late>>

(* select_for_update, and the change to the row. *)
LockRow(w, r) ==
  /\ tx[w] = Idle
  /\ \A v \in Workers : ~Holds(v, r)
  /\ Become(w, [at |-> "locked", row |-> r, version |-> version[r] + 1])
  /\ UNCHANGED <<version, drawn, log, cursor, copy, answer, late>>

(* record_sync_change *)
Insert(w) ==
  /\ tx[w].at = "locked"
  /\ drawn < MaxSeq
  /\ drawn' = drawn + 1
  /\ Become(w, [at |-> "inserted",
                change |-> [seq |-> drawn + 1, row |-> tx[w].row,
                            version |-> tx[w].version]])
  /\ UNCHANGED <<version, log, cursor, copy, answer, late>>

Passed == IF answer = NoAnswer THEN cursor ELSE answer.next

Commit(w) ==
  LET c == tx[w].change
  IN /\ tx[w].at = "inserted"
     /\ version' = [version EXCEPT ![c.row] = c.version]
     /\ log' = log \cup {c}
     /\ late' = IF c.seq <= Passed THEN late \cup {c} ELSE late
     /\ Become(w, Idle)
     /\ UNCHANGED <<drawn, cursor, copy, answer>>

(* A drawn number is not given back. *)
Rollback(w) ==
  /\ tx[w] # Idle
  /\ Become(w, Idle)
  /\ UNCHANGED <<version, drawn, log, cursor, copy, answer, late>>

-----------------------------------------------------------------------------
(* Download *)

(* Mutant: changes that are not committed yet are seen. *)
AboveUncommitted(n) ==
  {c \in log \cup {tx[w].change : w \in {v \in Workers : tx[v].at = "inserted"}} :
     c.seq > n}

Above(n) == {c \in log : c.seq > n}

(* Mutant: the newest changes, not the oldest ones. *)
NewestPage(n) ==
  {c \in Above(n) : Cardinality({d \in Above(n) : d.seq > c.seq}) < Limit}

Page(n) ==
  {c \in Above(n) : Cardinality({d \in Above(n) : d.seq < c.seq}) < Limit}

(* n is next_cursor for the page, if the request had the cursor from. *)
NextCursor(page, from, n) ==
  IF page = {} THEN n = from
  ELSE (\E c \in page : c.seq = n) /\ (\A c \in page : c.seq <= n)

(* SyncPullView.get *)
Pull ==
  /\ answer = NoAnswer
  /\ \E n \in 0..MaxSeq :
       /\ NextCursor(Page(cursor), cursor, n)
       /\ answer' = [at |-> "sent", changes |-> Page(cursor), next |-> n]
  /\ UNCHANGED <<version, drawn, tx, log, cursor, copy, late>>

(* v is the version of row r the device has after storing the changes. *)
Newest(changes, r, v) ==
  LET own == {c \in changes : c.row = r}
  IN IF own = {} THEN v = copy[r]
     ELSE \E c \in own : v = c.version /\ \A d \in own : d.seq <= c.seq

(* Mutant: the device takes the first number it has not seen for cursor.   *)
StoreBeyond ==
  /\ answer # NoAnswer
  /\ \E new \in [Rows -> 0..MaxSeq] :
       /\ \A r \in Rows : Newest(answer.changes, r, new[r])
       /\ copy' = new
  /\ cursor' = answer.next + 1
  /\ answer' = NoAnswer
  /\ UNCHANGED <<version, drawn, tx, log, late>>

Store ==
  /\ answer # NoAnswer
  /\ \E new \in [Rows -> 0..MaxSeq] :
       /\ \A r \in Rows : Newest(answer.changes, r, new[r])
       /\ copy' = new
  /\ cursor' = answer.next
  /\ answer' = NoAnswer
  /\ UNCHANGED <<version, drawn, tx, log, late>>

(* The answer is lost; the device asks again from its cursor. *)
Lose ==
  /\ answer # NoAnswer
  /\ answer' = NoAnswer
  /\ late' = {c \in late : c.seq <= cursor}
  /\ UNCHANGED <<version, drawn, tx, log, cursor, copy>>

-----------------------------------------------------------------------------
Write(w) ==
  (\E r \in Rows : LockRow(w, r)) \/ Insert(w) \/ Commit(w) \/ Rollback(w)

Next == (\E w \in Workers : Write(w)) \/ Pull \/ Store \/ Lose

Spec == Init /\ [][Next]_vars

(* The device goes on asking, and not every answer is lost. *)
FairSpec == Spec /\ WF_vars(Pull) /\ SF_vars(Store)

-----------------------------------------------------------------------------
(* Properties *)

(* A device never replaces its copy of a row by an older one, although     *)
(* workers commit in another order than they drew the numbers, for the     *)
(* services keep the row locked from before the draw until the commit.     *)
CopiesNeverGoBack == [][\A r \in Rows : copy'[r] >= copy[r]]_vars

(* The cursor does not pass a change the device has not stored, unless the *)
(* change was committed behind the cursor ("Delta downloads use a          *)
(* monotonically increasing organization cursor").                         *)
NothingSkipped ==
  \A c \in log \ late : c.seq <= cursor => copy[c.row] >= c.version

(* A device gets every change that was not committed behind its cursor,    *)
(* whatever answers are lost.                                              *)
EachChangeArrives ==
  \A s \in 1..MaxSeq, r \in Rows :
    (\E c \in log \ late : c.seq = s /\ c.row = r)
      ~> (\A c \in log \ late : c.seq = s => copy[c.row] >= c.version)

-----------------------------------------------------------------------------
(* ChangeFeed implements Replica, whose version and copy are its own. *)
Rep == INSTANCE Replica

(* Whatever order the numbers are committed in, the device has of each row *)
(* a committed version and moves to later ones only.                       *)
ImplementsReplica == Rep!Spec
==============================================================================
