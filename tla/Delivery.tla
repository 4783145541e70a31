------------------------------ MODULE Delivery ------------------------------
(***************************************************************************)
(* What the receiving user is promised about an offered file: nothing is   *)
(* kept before the user agrees, the file is written only once every chunk  *)
(* has come after that, and reported complete only when it was written     *)
(* whole; once the receiver has left the transfer nothing more happens to  *)
(* it.  A disk that refuses can leave the file cut or absent, also one     *)
(* reported before.  FileTransfer implements this.                         *)
(***************************************************************************)
CONSTANT Chunk

VARIABLES
    phase,      \* "asked", then "agreed", then "left"
    got,        \* chunks that came since the user agreed
    file,       \* "absent", "partial" or "whole"
    done        \* reported complete

vars == <<phase, got, file, done>>

Init == phase = "asked" /\ got = {} /\ file = "absent" /\ done = FALSE

Agree ==
    /\ phase = "asked"
    /\ phase' = "agreed"
    /\ UNCHANGED <<got, file, done>>

Store(i) ==
    /\ phase = "agreed"
    /\ got' = got \cup {i}
    /\ UNCHANGED <<phase, file, done>>

Save ==
    /\ phase = "agreed"
    /\ got = Chunk /\ Chunk # {}
    /\ file' = "whole"
    /\ done' = TRUE
    /\ UNCHANGED <<phase, got>>

\* The disk refuses: the file stays as it was, or is cut.
Spoil ==
    /\ phase = "agreed"
    /\ got = Chunk /\ Chunk # {}
    /\ file' = "partial"
    /\ UNCHANGED <<phase, got, done>>

Leave ==
    /\ phase = "agreed"
    /\ phase' = "left"
    /\ got' = {}
    /\ UNCHANGED <<file, done>>

Next == Agree \/ (\E i \in Chunk : Store(i)) \/ Save \/ Spoil \/ Leave

Spec == Init /\ [][Next]_vars

=============================================================================
