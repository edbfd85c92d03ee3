------------------------- MODULE MCEventStoreLifecycle -------------------------
(* Small instances of EventStoreLifecycle for TLC. *)
EXTENDS EventStoreLifecycle

CONSTANTS w1, w2, closer1, closer2, k1, k2

TwoWriters   == {w1, w2}
NoClosers    == {}
TwoConns     == {k1, k2}
===============================================================================
