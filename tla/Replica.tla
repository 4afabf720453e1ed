-------------------------------- MODULE Replica --------------------------------
(***************************************************************************)
(* What HBT promises a device about the rows it downloads, with no word of *)
(* numbers, pages or cursors: the versions of a row are committed one      *)
(* after the other, and what the device has of a row moves to a later      *)
(* version only, and never to one that is not committed.                   *)
(* ChangeFeed is the detailed specification that implements this one.      *)
(***************************************************************************)
EXTENDS Naturals

CONSTANT Rows

VARIABLES version,  \* committed version of each row
          copy      \* version of each row the device has

Init ==
  /\ version = [r \in Rows |-> 0]
  /\ copy = [r \in Rows |-> 0]

Publish(r) ==
  /\ version' = [version EXCEPT ![r] = @ + 1]
  /\ UNCHANGED copy

(* The device may skip versions, and some rows may stay as they are. *)
Refresh ==
  /\ copy' \in [Rows -> Nat]
  /\ \A r \in Rows : copy[r] <= copy'[r] /\ copy'[r] <= version[r]
  /\ UNCHANGED version

Next == Refresh \/ \E r \in Rows : Publish(r)

Spec == Init /\ [][Next]_<<version, copy>>
==============================================================================
