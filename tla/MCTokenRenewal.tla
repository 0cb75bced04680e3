--------------------------- MODULE MCTokenRenewal ---------------------------
(* An instance of TokenRenewal for TLC: a tick is a minute, and the        *)
(* lifetime is short, for the ticket only has to outlive the margin.       *)
EXTENDS TokenRenewal
=============================================================================
