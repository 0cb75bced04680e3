--------------------------- MODULE MCRelayedCalls ---------------------------
(* An instance of RelayedCalls for TLC. *)
EXTENDS RelayedCalls
=============================================================================
