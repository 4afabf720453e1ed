------------------------ MODULE MCSubscriptionBilling ------------------------
(* An instance of SubscriptionBilling for TLC. *)
EXTENDS SubscriptionBilling
==============================================================================
