---------------------------- MODULE MCTTCExecutor ----------------------------
(* A small instance of TTCExecutor for TLC. *)
EXTENDS TTCExecutor

CONSTANTS a, b, c1

OneCall      == {c1}
TwoAnswers   == {a, b}
OneThreshold == {2}
==============================================================================
