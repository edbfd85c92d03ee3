------------------------------- MODULE EventLog -------------------------------
(***************************************************************************)
(* What the event store promises its callers, with no lock, no connection  *)
(* and no transaction in sight: an append-only log of events.              *)
(*                                                                         *)
(* A caller submits events; the store makes submitted events durable, some *)
(* at a time and in any order; and it acknowledges to a caller only events *)
(* that are durable.  The promise is weak on purpose: it says nothing of   *)
(* the grouping of the events of one batch, because the code does not keep *)
(* it (see EventStore!BatchAtomic).                                        *)
(***************************************************************************)
CONSTANT Events                \* the identities of events

VARIABLES
  submitted,                   \* events some caller asked to record
  durable,                     \* events a later reader of the file will see
  acked                        \* events whose recording call returned

logvars == <<submitted, durable, acked>>

Init ==
  /\ submitted = {}
  /\ durable = {}
  /\ acked = {}

\* A caller hands the events S to the store.
Submit(S) ==
  /\ submitted' = submitted \cup S
  /\ UNCHANGED <<durable, acked>>

\* A commit makes submitted events durable, for good.
Persist(S) ==
  /\ S \subseteq submitted
  /\ durable' = durable \cup S
  /\ UNCHANGED <<submitted, acked>>

\* A call returns: its events are already durable.
Acknowledge(S) ==
  /\ S \subseteq durable
  /\ acked' = acked \cup S
  /\ UNCHANGED <<submitted, durable>>

Next ==
  \E S \in SUBSET Events : Submit(S) \/ Persist(S) \/ Acknowledge(S)

Spec == Init /\ [][Next]_logvars
===============================================================================
