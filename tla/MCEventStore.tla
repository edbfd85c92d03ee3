----------------------------- MODULE MCEventStore -----------------------------
(* Small instances of EventStore for TLC. *)
EXTENDS EventStore, TLC

CONSTANTS c1, c2, c3, u1, u2, e1, e2

TwoCallers   == {c1, c2}
ThreeCallers == {c1, c2, c3}
OneUuid      == {u1}
TwoUuids     == {u1, u2}
OneBatch     == {<<e1, e2>>}
\* The second batch resubmits an event of the first.
TwoBatches   == {<<e1, e2>>, <<e2>>}

Symmetry == Permutations(Callers) \cup Permutations(Uuids)
===============================================================================
