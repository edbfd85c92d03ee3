------------------------------ MODULE MCNIMClient ------------------------------
(* Small instances of NIMClient for TLC. *)
EXTENDS NIMClient, TLC

CONSTANTS c1, c2, c3

TwoCallers   == {c1, c2}
ThreeCallers == {c1, c2, c3}

Symmetry == Permutations(Callers)
===============================================================================
