--------------------------- MODULE MCManagerSync ---------------------------
EXTENDS ManagerSync

\* Two nodes that come to serve the same id, and one that stops.
MCOrder == <<"m1", "m2">>
MCNodes == {"m1", "m2"}
MCReport ==
    [n \in MCNodes |->
        IF n = "m1" THEN [v \in 0 .. MaxVersion |-> IF v = 1 THEN {"x", "y"} ELSE {"x"}]
        ELSE [v \in 0 .. MaxVersion |-> IF v = 1 THEN {} ELSE {"y"}]]
=============================================================================
