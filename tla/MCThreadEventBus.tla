-------------------------- MODULE MCThreadEventBus --------------------------
(* Finite instances of ThreadEventBus for TLC.  Tabs are interchangeable,   *)
(* and so are publishers.                                                   *)
EXTENDS ThreadEventBus

Symmetry == Permutations(Tab) \cup Permutations(Publisher)
=============================================================================
