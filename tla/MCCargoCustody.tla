---------------------------- MODULE MCCargoCustody ----------------------------
(* Instances of CargoCustody for TLC, all in one run. *)
EXTENDS CargoCustody, TLC

(* One trip takes two shipments, of which one may be paid for; or there is *)
(* one shipment, with two trips to choose from or two payments to decide.  *)
TwoOfAKind == {<<2, 1, 0>>, <<1, 2, 1>>, <<1, 1, 2>>}

Symmetry == Permutations(Shipments) \cup Permutations(Trips)
              \cup Permutations(Payments) \cup Permutations(Workers)
==============================================================================
