--------------------------- MODULE MCTicketBoarding ---------------------------
(* Instances of TicketBoarding for TLC. *)
EXTENDS TicketBoarding, TLC

(* Tickets and workers are interchangeable in every safety property. *)
Symmetry == Permutations(Tickets) \cup Permutations(Workers)
==============================================================================
