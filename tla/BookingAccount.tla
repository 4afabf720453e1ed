---------------------------- MODULE BookingAccount ----------------------------
(***************************************************************************)
(* What HBT promises about the money of one booking, with no word of       *)
(* providers, requests or statuses of payments: the booking is bought with *)
(* one payment at most, while it is open; money is promised back for that  *)
(* payment only, never more than was paid, and no promise is taken back; a *)
(* booking that has ended is not bought any more.  When the money is paid  *)
(* out is not the account's matter.                                        *)
(* BookingPayment is the detailed specification that implements this one.  *)
(***************************************************************************)
EXTENDS Naturals

CONSTANTS Payments,
          NoPayment,  \* nothing has bought the booking
          Price       \* what one payment pays

VARIABLES stage,      \* open, bought or ended
          buyer,      \* the payment the booking was bought with
          promised    \* how much of each payment is to go back

account == <<stage, buyer, promised>>

Init ==
  /\ stage = "open"
  /\ buyer = NoPayment
  /\ promised = [p \in Payments |-> 0]

Buy(p) ==
  /\ stage = "open"
  /\ stage' = "bought"
  /\ buyer' = p
  /\ UNCHANGED promised

Promise(p) ==
  /\ buyer = p
  /\ promised[p] < promised'[p] /\ promised'[p] <= Price
  /\ promised' = [promised EXCEPT ![p] = promised'[p]]
  /\ UNCHANGED <<stage, buyer>>

End ==
  /\ stage # "ended"
  /\ stage' = "ended"
  /\ UNCHANGED <<buyer, promised>>

Next ==
  \/ \E p \in Payments : Buy(p) \/ Promise(p)
  \/ End

Spec == Init /\ [][Next]_account
==============================================================================
