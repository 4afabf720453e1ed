----------------------------- MODULE MCOfflineSync -----------------------------
(* An instance of OfflineSync for TLC. *)
EXTENDS OfflineSync

(* A sale, a payment whose id repeats that of the sale, and a payment with *)
(* an amount that Decimal() does not read.                                 *)
TwoIds == {"u1", "u2"}
ReusedId == <<"u1", "u1", "u2">>
==============================================================================
