---------------------------- MODULE MCTripResources ----------------------------
(* Instances of TripResources for TLC. *)
EXTENDS TripResources, TLC

(* One time for all trips. *)
SameTime == {{1}}

(* Two times of day that do not overlap. *)
TwoTimes == {{1}, {2}}

Symmetry == Permutations(Trips) \cup Permutations(Vehicles)
              \cup Permutations(Drivers) \cup Permutations(Workers)
              \cup Permutations(Edits)
==============================================================================
