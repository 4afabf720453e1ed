---------------------------- MODULE MCSeatBooking ----------------------------
(* Instances of SeatBooking for TLC. *)
EXTENDS SeatBooking, TLC

(* Workers are interchangeable in every safety property. *)
WorkerSymmetry == Permutations(Workers)
==============================================================================
