---------------------------- MODULE Observability ----------------------------
(***************************************************************************)
(* src/src/observability: the plugin of one execution (plugin.py), the     *)
(* subscriber that buffers the events of NeMo Relay and writes them to the *)
(* EventStore (subscribers.py, event_bridge.py), the subscriber that       *)
(* collects them for a trajectory, and the trajectory built from either    *)
(* (exporters.py).                                                         *)
(*                                                                         *)
(* on_event is synchronous; a flush takes the buffer and then awaits       *)
(* record_event for every event it took.  Two flushes may be under way:    *)
(* the task on_event schedules and the one deactivate awaits.  What        *)
(* record_event does is EventStore's matter.  Here it returns, or raises   *)
(* and has stored nothing, or is cancelled: then its INSERT may be on the  *)
(* way to the worker thread already, and whether its row reaches the table *)
(* comes out later.                                                        *)
(*                                                                         *)
(* The ATOF file has no state here: the plugin opens, flushes and closes   *)
(* it and never writes to it.                                              *)
(***************************************************************************)
EXTENDS Naturals, Sequences, FiniteSets, SequencesExt

CONSTANTS
  Threshold,    \* buffered events that make on_event schedule a flush (100 in the code)
  MaxEvents,    \* bound on the events NeMo Relay emits
  Kinds         \* the event types it emits, of DOMAIN event_type_map

VARIABLES
  phase,        \* the plugin
  emitted,      \* number of events emitted; each is named by its number
  buffer,       \* EventStoreSubscriber._buffer
  flush,        \* the flush task and the flush deactivate awaits
  rest,         \* what each of them has still to write
  issued,       \* records whose INSERT was submitted, in the order of their timestamps;
                \* in the table are those neither in doubt nor lost
  collected,    \* ATIFTrajectorySubscriber._events
  doubt,        \* history: issued by a cancelled record_event, its end not known
  lost,         \* history: issued by a cancelled record_event, no row came of it
  dropped,      \* history: events a failing flush had taken and not issued
  late,         \* history: events delivered after deactivate took the buffer
  overlapped    \* history: two flushes had something to write at once

subscriber == <<buffer, flush, rest, collected>>
written    == <<issued, doubt, lost>>
plugin     == <<phase, emitted, subscriber, written, dropped, late, overlapped>>

Flushes == {"task", "forced"}

\* relay_to_event_record's event_type_map, and what build_atif_trajectory's own map
\* does to a type that is mapped already.
event_type_map ==
  [scope_start |-> "workflow_start",       scope_end |-> "workflow_end",
   tool_start |-> "tool_invocation_start", tool_end |-> "tool_invocation_end",
   llm_start |-> "llm_request_start",      llm_end |-> "llm_request_end",
   mark |-> "checkpoint"]

Event  == [id : 1..MaxEvents, kind : Kinds]
Record == [id : 1..MaxEvents, type : {event_type_map[k] : k \in DOMAIN event_type_map}]

EventIds(s) == {s[i].id : i \in DOMAIN s}

\* Each flush holds events only while it writes.
PluginTypeOK ==
  /\ phase \in {"inactive", "active", "deactivating", "closed", "raised"}
  /\ emitted \in 0..MaxEvents
  /\ buffer \in Seq(Event) /\ collected \in Seq(Event) /\ issued \in Seq(Record)
  /\ flush \in [Flushes -> {"none", "scheduled", "writing", "done"}]
  /\ rest \in [Flushes -> Seq(Event)]
  /\ \A f \in Flushes : rest[f] # <<>> <=> flush[f] = "writing"
  /\ doubt \subseteq 1..MaxEvents /\ lost \subseteq 1..MaxEvents
  /\ dropped \subseteq 1..MaxEvents /\ late \subseteq 1..MaxEvents
  /\ overlapped \in BOOLEAN

\* NeMo Relay delivers to the plugin's subscribers.
Listening == phase \in {"active", "deactivating", "raised"}

(***************************************************************************)
(* The bridge and the trajectory.                                          *)
(***************************************************************************)
\* Mutant: the end of a tool call is recorded as its start.
ToRecordToolStart(e) ==
  [id |-> e.id, type |-> IF e.kind = "tool_end" THEN "tool_invocation_start" ELSE event_type_map[e.kind]]

\* relay_to_event_record; record_event gives the record a timestamp of its own.
ToRecord(e) == [id |-> e.id, type |-> event_type_map[e.kind]]

\* The steps build_atif_trajectory makes of an event, by its mapped type.
StepOf ==
  [llm_request_start |-> "user", llm_request_end |-> "agent", tool_invocation_end |-> "system"]

\* One turn of build_atif_trajectory's loop; other types make no step.  (That an
\* event with an empty message makes none either is left out: it is the data of the
\* event, which both trajectories read.)
AddStep(steps, r) ==
  IF r.type \in DOMAIN StepOf
  THEN Append(steps, [id |-> r.id, step |-> StepOf[r.type]])
  ELSE steps

\* build_atif_trajectory over records.
Trajectory(records) == FoldLeft(AddStep, <<>>, records)

\* build_atif_trajectory over the collected events, whose types it maps itself.
TrajectoryOfEvents(events) ==
  Trajectory([i \in DOMAIN events |-> [id |-> events[i].id, type |-> event_type_map[events[i].kind]]])

(***************************************************************************)
(* The plugin and NeMo Relay.                                              *)
(***************************************************************************)
Activate ==
  /\ phase = "inactive"
  /\ phase' = "active"
  /\ UNCHANGED <<emitted, subscriber, written, dropped, late, overlapped>>

\* on_event's end and _schedule_flush; the task starts later.
ScheduleFlush(size) ==
  IF size >= Threshold /\ flush["task"] \in {"none", "done"}
  THEN flush' = [flush EXCEPT !["task"] = "scheduled"]
  ELSE UNCHANGED flush

\* NeMo Relay emits an event: on_event of both subscribers.
Emit(kind) ==
  /\ Listening /\ emitted < MaxEvents
  /\ emitted' = emitted + 1
  /\ LET e == [id |-> emitted + 1, kind |-> kind]
     IN  /\ buffer' = Append(buffer, e)
         /\ collected' = Append(collected, e)
         /\ late' = IF flush["forced"] = "none" THEN late ELSE late \cup {e.id}
  /\ ScheduleFlush(Len(buffer) + 1)
  /\ UNCHANGED <<phase, rest, written, dropped, overlapped>>

(***************************************************************************)
(* _flush.                                                                 *)
(***************************************************************************)
\* Mutant: the buffer is not cleared.
TakeKeepsBuffer(f) ==
  /\ rest' = [rest EXCEPT ![f] = buffer]
  /\ flush' = [flush EXCEPT ![f] = IF buffer = <<>> THEN "done" ELSE "writing"]
  /\ overlapped' = (overlapped \/ \E g \in Flushes \ {f} : rest[g] # <<>> /\ buffer # <<>>)
  /\ UNCHANGED <<buffer, written>>

\* The first step of _flush: the buffer is copied and cleared.
Take(f) ==
  /\ rest' = [rest EXCEPT ![f] = buffer]
  /\ buffer' = <<>>
  /\ flush' = [flush EXCEPT ![f] = IF buffer = <<>> THEN "done" ELSE "writing"]
  /\ overlapped' = (overlapped \/ \E g \in Flushes \ {f} : rest[g] # <<>> /\ buffer # <<>>)
  /\ UNCHANGED written

StartFlush ==
  /\ flush["task"] = "scheduled"
  /\ Take("task")
  /\ UNCHANGED <<phase, emitted, collected, dropped, late>>

\* deactivate awaits force_flush, which runs _flush in the caller's task; with an
\* empty buffer it returns at once, and the subscribers are deregistered.
Deactivate ==
  /\ phase = "active"
  /\ phase' = IF buffer = <<>> THEN "closed" ELSE "deactivating"
  /\ Take("forced")
  /\ UNCHANGED <<emitted, collected, dropped, late>>

\* One record_event of a flush returned.
Recorded(f) ==
  /\ flush[f] = "writing"
  /\ issued' = Append(issued, ToRecord(Head(rest[f])))
  /\ rest' = [rest EXCEPT ![f] = Tail(@)]
  /\ LET ends == Len(rest[f]) = 1
     IN  /\ flush' = IF ends THEN [flush EXCEPT ![f] = "done"] ELSE flush
         /\ phase' = IF ends /\ f = "forced" THEN "closed" ELSE phase
  /\ UNCHANGED <<emitted, buffer, collected, doubt, lost, dropped, late, overlapped>>

\* Mutant: the flush passes over an event whose record_event failed.
RecordSkipped(f) ==
  /\ flush[f] = "writing"
  /\ rest' = [rest EXCEPT ![f] = Tail(@)]
  /\ flush' = IF Len(rest[f]) = 1 THEN [flush EXCEPT ![f] = "done"] ELSE flush
  /\ phase' = IF Len(rest[f]) = 1 /\ f = "forced" THEN "closed" ELSE phase
  /\ UNCHANGED <<emitted, buffer, collected, written, dropped, late, overlapped>>

\* One record_event of a flush raised: what it has not written is gone; deactivate
\* ends there and deregisters nothing.
RecordFailed(f) ==
  /\ flush[f] = "writing"
  /\ dropped' = dropped \cup EventIds(rest[f])
  /\ rest' = [rest EXCEPT ![f] = <<>>]
  /\ flush' = [flush EXCEPT ![f] = "done"]
  /\ phase' = IF f = "forced" THEN "raised" ELSE phase
  /\ UNCHANGED <<emitted, buffer, collected, written, late, overlapped>>

\* The task of a flush, or the run that awaits deactivate, is cancelled: before the
\* flush took the buffer, at a record_event that has issued nothing, or at one
\* whose INSERT is issued.
FlushCancelled(f) ==
  /\ flush[f] \in {"scheduled", "writing"}
  /\ flush' = [flush EXCEPT ![f] = "done"]
  /\ rest' = [rest EXCEPT ![f] = <<>>]
  /\ phase' = IF f = "forced" THEN "raised" ELSE phase
  /\ \/ /\ dropped' = dropped \cup EventIds(rest[f])
        /\ UNCHANGED <<issued, doubt>>
     \/ /\ rest[f] # <<>>
        /\ issued' = Append(issued, ToRecord(Head(rest[f])))
        /\ doubt' = doubt \cup {Head(rest[f]).id}
        /\ dropped' = dropped \cup EventIds(Tail(rest[f]))
  /\ UNCHANGED <<emitted, buffer, collected, lost, late, overlapped>>

\* What nobody awaits any more ends: the row is in the table, or the INSERT failed or
\* no COMMIT followed it.
DoubtEnds(i) ==
  /\ i \in doubt
  /\ doubt' = doubt \ {i}
  /\ lost' \in {lost, lost \cup {i}}
  /\ UNCHANGED <<phase, emitted, subscriber, issued, dropped, late, overlapped>>

PluginInit ==
  /\ phase = "inactive" /\ emitted = 0
  /\ buffer = <<>> /\ collected = <<>> /\ issued = <<>>
  /\ flush = [f \in Flushes |-> "none"] /\ rest = [f \in Flushes |-> <<>>]
  /\ doubt = {} /\ lost = {} /\ dropped = {} /\ late = {} /\ overlapped = FALSE

PluginNext ==
  \/ Activate \/ StartFlush \/ Deactivate
  \/ \E k \in Kinds : Emit(k)
  \/ \E f \in Flushes : Recorded(f) \/ RecordFailed(f) \/ FlushCancelled(f)
  \/ \E i \in doubt : DoubtEnds(i)

PluginSpec == PluginInit /\ [][PluginNext]_plugin

\* asyncio runs a task that can go on; the engine deactivates the plugin in a
\* finally clause when the run ends; record_event returns or raises.  Nobody waits for
\* the INSERT a cancelled one left.
PluginFairSpec ==
  /\ PluginSpec
  /\ WF_plugin(Activate) /\ WF_plugin(StartFlush) /\ WF_plugin(Deactivate)
  /\ \A f \in Flushes : WF_plugin(Recorded(f) \/ RecordFailed(f))

(***************************************************************************)
(* Properties.                                                             *)
(***************************************************************************)
\* Every event delivered is in exactly one place, once: the buffer, a flush, the
\* records issued, or among those a failing flush dropped before it issued them.
\* Two flushes that run at once neither write an event twice nor lose one between
\* them, and only of an event that was issued the row can be in doubt or lost.
\* Code: subscribers.py on_event, _flush.
EventsConserved ==
  /\ Len(buffer) + Len(rest["task"]) + Len(rest["forced"]) + Len(issued) + Cardinality(dropped)
       = emitted
  /\ EventIds(buffer) \cup EventIds(rest["task"]) \cup EventIds(rest["forced"])
       \cup EventIds(issued) \cup dropped
       = 1..emitted
  /\ doubt \cup lost \subseteq EventIds(issued)

\* Once nothing is left to write and nothing was dropped, stranded, lost or left in
\* doubt, the trajectory built from the store has the steps of the one built from the
\* collected events, and in the same order unless two flushes overlapped.
\* Code: event_bridge.py relay_to_event_record, exporters.py build_atif_trajectory.
TrajectoriesAgree ==
  /\ phase = "closed" /\ buffer = <<>> /\ \A f \in Flushes : rest[f] = <<>>
  /\ dropped = {} /\ doubt = {} /\ lost = {}
  =>
    LET fromStore  == Trajectory(issued)
        fromEvents == TrajectoryOfEvents(collected)
    IN  /\ ToSet(fromStore) = ToSet(fromEvents)
        /\ Len(fromStore) = Len(fromEvents)
        /\ fromStore = fromEvents \/ overlapped

\* A run comes to a point from which on every event delivered to it is issued to the
\* store, dropped with a flush that failed or was cancelled, or came after deactivate
\* took the buffer: the end of the run flushes what the threshold left.
\* Code: subscribers.py _schedule_flush, plugin.py deactivate.
DeliveredIsSettled ==
  phase = "active" ~> [](1..emitted \subseteq EventIds(issued) \cup dropped \cup late)
==============================================================================
