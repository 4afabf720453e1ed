---------------------------- MODULE MCChangeFeed ----------------------------
(* An instance of ChangeFeed for TLC. *)
EXTENDS ChangeFeed
==============================================================================
