---------------------------- MODULE OperationLedger ----------------------------
(***************************************************************************)
(* What the server promises a device about its offline operations, with no *)
(* word of requests or rows: an id is decided once, the effect and the     *)
(* decision are one step, and whatever the device is told, whenever it is  *)
(* told, is what was decided.                                              *)
(* OfflineSync is the detailed specification that implements this one.     *)
(***************************************************************************)
EXTENDS Naturals

CONSTANTS Items,    \* the operations
          IdOf      \* the id of each operation

VARIABLES decided,  \* the pairs <<operation, outcome>> the server decided
          effects,  \* how often each operation took effect
          told      \* the answers the device got for each operation

ledger == <<decided, effects, told>>

Outcomes == {"applied", "rejected", "conflict"}

Init ==
  /\ decided = {}
  /\ effects = [n \in Items |-> 0]
  /\ told = [n \in Items |-> {}]

(* What was decided under the id of n, which may be another operation.     *)
DecidedUnder(n) == {d \in decided : IdOf[d[1]] = IdOf[n]}

(* An operation of an undecided id is applied, and takes effect, or is     *)
(* refused, and does not.                                                  *)
Decide(n, outcome) ==
  /\ DecidedUnder(n) = {}
  /\ decided' = decided \cup {<<n, outcome>>}
  /\ effects' = [effects EXCEPT ![n] = IF outcome = "applied" THEN @ + 1
                                                               ELSE @]
  /\ UNCHANGED told

(* Some operations whose ids are decided are answered, again or for the    *)
(* first time: with their outcome, or that another one has their id.       *)
Verdicts(n) == {IF d[1] = n THEN d[2] ELSE "reused" : d \in DecidedUnder(n)}

Tell(batch) ==
  /\ \A n \in batch : DecidedUnder(n) # {}
  /\ told' = [n \in Items |->
                told[n] \cup (IF n \in batch THEN Verdicts(n) ELSE {})]
  /\ UNCHANGED <<decided, effects>>

Next ==
  \/ \E n \in Items : \E outcome \in Outcomes : Decide(n, outcome)
  \/ \E batch \in SUBSET Items : Tell(batch)

Spec == Init /\ [][Next]_ledger
==============================================================================
