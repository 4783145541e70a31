------------------------------ MODULE MCWindow ------------------------------
(* Instance of Window for TLC: a file out while one is offered, or two     *)
(* offered at once.                                                        *)
EXTENDS Window

CONSTANTS out, in1, in2

OneOut == {out}
TwoIn == {in1, in2}
Pairs == {{out, in1}, {in1, in2}}

=============================================================================
