---------------------------- MODULE MCSessionStore ----------------------------
(* A small instance of SessionStore for TLC. *)
EXTENDS SessionStore, TLC

CONSTANTS t1, t2, t3, goal, plan

ThreeTasks    == {t1, t2, t3}
TwoFields     == {goal, plan}
TwoIterations == {0, 1}

Symmetry == Permutations(Tasks) \cup Permutations(Fields)
===============================================================================
