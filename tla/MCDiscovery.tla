---------------------------- MODULE MCDiscovery ----------------------------
(* Instance of Discovery for TLC: one program on the network, met by all   *)
(* the threads, and one peer typed in.                                     *)
EXTENDS Discovery

CONSTANTS p1, t1

OnePeer == {p1}
OneTyped == {t1}

=============================================================================
