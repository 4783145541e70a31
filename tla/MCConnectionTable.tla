------------------------- MODULE MCConnectionTable -------------------------
(* Instances of ConnectionTable for TLC: who calls, disconnects, sends and replies.    *)
EXTENDS ConnectionTable

Count(a, b) == [n \in Node |-> IF n = "a" THEN a ELSE b]

None == Count(0, 0)
OnlyA == Count(1, 0)
TwiceA == Count(2, 0)
TwiceAOnceB == Count(2, 1)
Both == Count(1, 1)

BySomeName == {}
ByAddress == {"a"}

Nobody == {}
JustA == {"a"}
JustB == {"b"}
AllNodes == Node

NoLink == {}
FirstLink == {1}
=============================================================================
