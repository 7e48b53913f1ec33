--------------------------- MODULE MCConfigSource ---------------------------
(* Finite instances of ConfigSource for TLC: the two macro-regions of the  *)
(* catalogue, one subject of each and one they share.                      *)
EXTENDS ConfigSource

Catalog == [m \in {1, 2} |-> IF m = 1 THEN {14, 87} ELSE {51, 87}]
=============================================================================
