--------------------------- MODULE MCBookingPayment ---------------------------
(* Instances of BookingPayment for TLC. *)
EXTENDS BookingPayment, TLC

(* Payments, refunds, workers and event ids are each interchangeable. *)
Symmetry == Permutations(Payments) \cup Permutations(Refunds)
              \cup Permutations(Workers) \cup Permutations(Events)
==============================================================================
