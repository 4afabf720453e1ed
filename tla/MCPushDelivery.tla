--------------------------- MODULE MCPushDelivery ---------------------------
(* An instance of PushDelivery for TLC. *)
EXTENDS PushDelivery
==============================================================================
