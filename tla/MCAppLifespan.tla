----------------------------- MODULE MCAppLifespan -----------------------------
(* AppLifespan with two macro-regions that share a subject, as 87 is shared, *)
(* and a database whose macro-regions were subscribed one after the other.   *)
EXTENDS AppLifespan

MCSubjectsBy == [m \in {1, 2} |-> IF m = 1 THEN {72, 87} ELSE {27, 87}]
MCDate == {[m \in Macro |-> 0], [m \in Macro |-> 3 - m]}
================================================================================
