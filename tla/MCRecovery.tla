----------------------------- MODULE MCRecovery -----------------------------
(* Instance of Recovery for TLC: two states of a transfer matter, "paused",*)
(* which is listed as resumable, and any other.                            *)
EXTENDS Recovery

TwoStates == {"pending", "paused"}
=============================================================================
