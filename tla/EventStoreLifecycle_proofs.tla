---------------------- MODULE EventStoreLifecycle_proofs ----------------------
(***************************************************************************)
(* Theorems about EventStoreLifecycle, for any number of writers, closers, *)
(* connections and attempts: tables exist before an INSERT, a store that   *)
(* says it is initialised is usable until somebody closes it, and an       *)
(* acknowledged event is lost only after a second connection was opened.   *)
(***************************************************************************)
EXTENDS EventStoreLifecycle, FiniteSetTheorems, TLAPS

(***************************************************************************)
(* Types.                                                                  *)
(***************************************************************************)
\* Closers close and writers write; a job awaited is on a connection.
Jobs == {"pragma", "script", "init_commit", "insert", "commit", "close"}
Placed ==
  \A c \in Callers :
    /\ c \in Closers => pc[c] \in {"idle", "close"} \cup Ended
    /\ c \in Writers => pc[c] # "close"
    /\ pc[c] \in Jobs => target[c] \in Conns

Typed == TypeOK /\ Placed

LEMMA InitTyped == Init => Typed
<1> SUFFICES ASSUME Init PROVE Typed
  OBVIOUS
<1>1. TypeOK
  <2>1. 1 \in 1..MaxRetries
    BY RetriesAssumption
  <2> QED BY <2>1 DEF Init, TypeOK, PCs
<1>2. Placed
  BY DEF Init, Placed, Jobs
<1> QED BY <1>1, <1>2 DEF Typed

\* Task c goes to where, and its job is on connection k.
LEMMA Moved ==
  ASSUME Typed, NEW c \in Callers, NEW where \in PCs, NEW k \in Conns \cup {NoConn},
         Goto(c, where), target' = [target EXCEPT ![c] = k] \/ (UNCHANGED target /\ k = target[c]),
         c \in Closers => where \in {"idle", "close"} \cup Ended,
         c \in Writers => where # "close",
         where \in Jobs => k \in Conns
  PROVE  /\ pc' \in [Callers -> PCs] /\ target' \in [Callers -> Conns \cup {NoConn}]
         /\ Placed'
BY DEF Typed, TypeOK, Placed, Goto

\* What a task that issues a job becomes.
LEMMA IssueMoved ==
  ASSUME Typed, NEW c \in Callers, NEW where \in Jobs, NEW k \in Conns \cup {NoConn},
         IssueOn(c, k, where),
         c \in Closers => where = "close", c \in Writers => where # "close"
  PROVE  /\ pc' \in [Callers -> PCs] /\ target' \in [Callers -> Conns \cup {NoConn}]
         /\ Placed'
<1>1. CASE k = NoConn
  BY <1>1, Moved, "raised" \in PCs, "raised" \in Ended, target[c] \in Conns \cup {NoConn}
     DEF IssueOn, Typed, TypeOK, PCs, Ended, Jobs
<1>2. CASE k # NoConn
  BY <1>2, Moved DEF IssueOn, PCs, Jobs
<1> QED BY <1>1, <1>2

LEMMA StartMoved ==
  ASSUME Typed, NEW c \in Writers, NEW k \in Conns \cup {NoConn}, StartInsert(c, k)
  PROVE  /\ pc' \in [Callers -> PCs] /\ target' \in [Callers -> Conns \cup {NoConn}]
         /\ Placed'
<1>0. c \in Callers /\ c \notin Closers
  BY CallersAssumption DEF Callers
<1>1. CASE k = NoConn
  BY <1>0, <1>1, Moved, target[c] \in Conns \cup {NoConn}
     DEF StartInsert, Typed, TypeOK, PCs, Ended, Jobs
<1>2. CASE k # NoConn
  BY <1>0, <1>2, IssueMoved DEF StartInsert, Jobs
<1> QED BY <1>1, <1>2

\* A COMMIT on a connection the store has opened.
LEMMA CommitTypes ==
  ASSUME TypeOK, NEW k \in Conns, CommitOn(k)
  PROVE  /\ uncommitted' \in [Conns -> SUBSET Writers]
         /\ writer' \in Conns \cup {NoConn} /\ durable' \subseteq Writers
BY DEF TypeOK, CommitOn

LEMMA StepTyped == Typed /\ [Next]_vars => Typed'
<1> SUFFICES ASSUME Typed, [Next]_vars PROVE Typed'
  OBVIOUS
<1>0. /\ TypeOK /\ Placed
      /\ \A c \in Callers : c \in Writers \/ c \in Closers
      /\ \A c \in Callers : target[c] \in Conns \cup {NoConn}
      /\ \A c \in Callers : pc[c] \in {"connect", "backoff"} \cup (Jobs \ {"close"})
                            => c \in Writers /\ c \notin Closers
  BY CallersAssumption DEF Typed, TypeOK, Placed, Callers, Jobs, Ended
<1>1. CASE UNCHANGED vars
  BY <1>0, <1>1 DEF vars, self, task, disk, Typed, TypeOK, Placed
<1>2. ASSUME NEW c \in Writers, RecordEvent(c) PROVE Typed'
  <2>1. c \in Callers /\ c \notin Closers
    BY CallersAssumption DEF Callers
  <2>2. pc' \in [Callers -> PCs] /\ target' \in [Callers -> Conns \cup {NoConn}] /\ Placed'
    <3>1. CASE StartInsert(c, conn)
      BY <3>1, <1>0, StartMoved DEF TypeOK
    <3>2. CASE Goto(c, "connect") /\ UNCHANGED target
      BY <3>2, <2>1, <1>0, Moved DEF PCs, Jobs
    <3> QED BY <1>2, <3>1, <3>2 DEF RecordEvent
  <2> QED BY <1>0, <1>2, <2>2 DEF RecordEvent, Typed, TypeOK, self, disk
<1>3. ASSUME NEW c \in Closers, Close(c) PROVE Typed'
  <2>1. c \in Callers /\ c \notin Writers
    BY CallersAssumption DEF Callers
  <2>2. pc' \in [Callers -> PCs] /\ target' \in [Callers -> Conns \cup {NoConn}] /\ Placed'
    <3>1. CASE IssueOn(c, conn, "close")
      BY <3>1, <2>1, <1>0, IssueMoved DEF TypeOK, Jobs
    <3>2. CASE Goto(c, "returned") /\ UNCHANGED target
      BY <3>2, <2>1, <1>0, Moved DEF PCs, Jobs, Ended
    <3> QED BY <1>3, <3>1, <3>2 DEF Close
  <2> QED BY <1>0, <1>3, <2>2 DEF Close, Typed, TypeOK, self, disk
<1>4. ASSUME NEW c \in Callers, Connected(c) PROVE Typed'
  <2>1. c \in Writers /\ c \notin Closers
    BY <1>0, <1>4 DEF Connected
  <2>2. PICK k \in Conns : /\ status' = [status EXCEPT ![k] = "open"]
                           /\ conn' = k /\ IssueOn(c, k, "pragma")
    BY <1>4 DEF Connected
  <2>3. pc' \in [Callers -> PCs] /\ target' \in [Callers -> Conns \cup {NoConn}] /\ Placed'
    BY <2>1, <2>2, IssueMoved DEF Jobs
  <2> QED BY <1>0, <1>4, <2>2, <2>3 DEF Connected, Typed, TypeOK, disk
<1>5. ASSUME NEW c \in Callers, Pragmas(c) PROVE Typed'
  <2>1. c \in Writers /\ c \notin Closers
    BY <1>0, <1>5 DEF Pragmas, Jobs
  <2>2. pc' \in [Callers -> PCs] /\ target' \in [Callers -> Conns \cup {NoConn}] /\ Placed'
    <3>1. CASE IssueOn(c, conn, "script")
      BY <3>1, <2>1, <1>0, IssueMoved DEF TypeOK, Jobs
    <3>2. CASE Goto(c, "raised") /\ UNCHANGED target
      BY <3>2, <2>1, <1>0, Moved DEF PCs, Jobs, Ended
    <3> QED BY <1>5, <3>1, <3>2 DEF Pragmas
  <2> QED BY <1>0, <1>5, <2>2 DEF Pragmas, Typed, TypeOK, self, disk
<1>6. ASSUME NEW c \in Callers, Script(c) PROVE Typed'
  <2>1. c \in Writers /\ c \notin Closers /\ target[c] \in Conns
    BY <1>0, <1>6 DEF Script, Jobs, Placed
  <2>2. pc' \in [Callers -> PCs] /\ target' \in [Callers -> Conns \cup {NoConn}] /\ Placed'
    <3>1. CASE IssueOn(c, conn, "init_commit")
      BY <3>1, <2>1, <1>0, IssueMoved DEF TypeOK, Jobs
    <3>2. CASE Goto(c, "raised") /\ UNCHANGED target
      BY <3>2, <2>1, <1>0, Moved DEF PCs, Jobs, Ended
    <3> QED BY <1>6, <3>1, <3>2 DEF Script
  <2>3. /\ uncommitted' \in [Conns -> SUBSET Writers]
        /\ writer' \in Conns \cup {NoConn} /\ durable' \subseteq Writers
    BY <1>0, <1>6, <2>1, CommitTypes DEF Script, disk, TypeOK
  <2> QED BY <1>0, <1>6, <2>2, <2>3 DEF Script, Typed, TypeOK, self, disk
<1>7. ASSUME NEW c \in Callers, Initialized(c) PROVE Typed'
  <2>1. c \in Writers /\ c \notin Closers /\ target[c] \in Conns
    BY <1>0, <1>7 DEF Initialized, Jobs, Placed
  <2>2. pc' \in [Callers -> PCs] /\ target' \in [Callers -> Conns \cup {NoConn}] /\ Placed'
    <3>1. CASE StartInsert(c, conn)
      BY <3>1, <2>1, <1>0, StartMoved DEF TypeOK
    <3>2. CASE Goto(c, "raised") /\ UNCHANGED target
      BY <3>2, <2>1, <1>0, Moved DEF PCs, Jobs, Ended
    <3> QED BY <1>7, <3>1, <3>2 DEF Initialized
  <2>3. /\ uncommitted' \in [Conns -> SUBSET Writers]
        /\ writer' \in Conns \cup {NoConn} /\ durable' \subseteq Writers
    BY <1>0, <1>7, <2>1, CommitTypes DEF Initialized, disk, TypeOK
  <2> QED BY <1>0, <1>7, <2>2, <2>3 DEF Initialized, Typed, TypeOK, self, disk
<1>8. ASSUME NEW c \in Callers, Inserted(c) PROVE Typed'
  <2>1. c \in Writers /\ c \notin Closers /\ target[c] \in Conns
    BY <1>0, <1>8 DEF Inserted, Jobs, Placed
  <2>2. pc' \in [Callers -> PCs] /\ target' \in [Callers -> Conns \cup {NoConn}] /\ Placed'
    BY <1>0, <1>8, <2>1, IssueMoved DEF Inserted, TypeOK, Jobs
  <2> QED BY <1>0, <1>8, <2>1, <2>2 DEF Inserted, Typed, TypeOK, self
<1>9. ASSUME NEW c \in Callers, InsertLocked(c) \/ InsertFailed(c) \/ Retry(c)
      PROVE  Typed'
  <2>1. c \in Writers /\ c \notin Closers
    BY <1>0, <1>9 DEF InsertLocked, InsertFailed, Retry, Jobs
  <2>2. pc' \in [Callers -> PCs] /\ target' \in [Callers -> Conns \cup {NoConn}] /\ Placed'
    <3>1. CASE IssueOn(c, conn, "insert")
      BY <3>1, <2>1, <1>0, IssueMoved DEF TypeOK, Jobs
    <3>2. CASE UNCHANGED target /\ (Goto(c, "raised") \/ Goto(c, "backoff"))
      BY <3>2, <2>1, <1>0, Moved DEF PCs, Jobs, Ended
    <3> QED BY <1>9, <3>1, <3>2 DEF InsertLocked, InsertFailed, Retry
  <2>3. attempt' \in [Callers -> 1..MaxRetries]
    BY <1>0, <1>9, RetriesAssumption DEF InsertLocked, InsertFailed, Retry, TypeOK
  <2> QED BY <1>0, <1>9, <2>2, <2>3 DEF InsertLocked, InsertFailed, Retry, Typed, TypeOK, self, disk
<1>10. ASSUME NEW c \in Callers, Committed(c) PROVE Typed'
  <2>1. c \in Writers /\ c \notin Closers /\ target[c] \in Conns
    BY <1>0, <1>10 DEF Committed, Jobs, Placed
  <2>2. pc' \in [Callers -> PCs] /\ target' \in [Callers -> Conns \cup {NoConn}] /\ Placed'
    BY <1>0, <1>10, <2>1, Moved DEF Committed, PCs, Jobs, Ended
  <2>3. /\ uncommitted' \in [Conns -> SUBSET Writers]
        /\ writer' \in Conns \cup {NoConn} /\ durable' \subseteq Writers
    BY <1>0, <1>10, <2>1, CommitTypes DEF Committed, TypeOK
  <2> QED BY <1>0, <1>10, <2>1, <2>2, <2>3 DEF Committed, Typed, TypeOK, self
<1>11. ASSUME NEW c \in Callers, Closed(c) PROVE Typed'
  <2>1. pc' \in [Callers -> PCs] /\ target' \in [Callers -> Conns \cup {NoConn}] /\ Placed'
    BY <1>0, <1>11, Moved DEF Closed, PCs, Jobs, Ended
  <2> QED BY <1>0, <1>11, <2>1 DEF Closed, Typed, TypeOK
<1> QED
  BY <1>1, <1>2, <1>3, <1>4, <1>5, <1>6, <1>7, <1>8, <1>9, <1>10, <1>11 DEF Next, Resume

\* Every reachable state is well typed; a job that is awaited is on a connection.
THEOREM TypeCorrect == Spec => []Typed
<1> QED BY InitTyped, StepTyped, PTL DEF Spec

(***************************************************************************)
(* Tables before rows.                                                     *)
(***************************************************************************)
\* Whoever is past the script, or an initialised store, has the tables.
Tabled ==
  /\ initialized => schema
  /\ \A c \in Callers : pc[c] \in {"init_commit", "insert", "backoff", "commit"} => schema

LEMMA StepTabled == Typed /\ Tabled /\ [Next]_vars => Tabled'
<1> SUFFICES ASSUME Typed, Tabled, [Next]_vars PROVE Tabled'
  OBVIOUS
<1>0. pc \in [Callers -> PCs] /\ schema \in BOOLEAN /\ initialized \in BOOLEAN
  BY DEF Typed, TypeOK
<1>1. CASE UNCHANGED vars
  BY <1>1 DEF vars, self, task, disk, Tabled
<1>2. ASSUME NEW c \in Writers, RecordEvent(c) PROVE Tabled'
  BY <1>0, <1>2 DEF RecordEvent, StartInsert, IssueOn, Goto, Tabled, Callers, self, disk
<1>3. ASSUME NEW c \in Closers, Close(c) PROVE Tabled'
  BY <1>0, <1>3 DEF Close, IssueOn, Goto, Tabled, Callers, self, disk
<1>4. ASSUME NEW c \in Callers, Connected(c) \/ Pragmas(c) PROVE Tabled'
  BY <1>0, <1>4 DEF Connected, Pragmas, IssueOn, Goto, Tabled, self, disk
<1>5. ASSUME NEW c \in Callers, Script(c) PROVE Tabled'
  BY <1>0, <1>5 DEF Script, IssueOn, Goto, Tabled, self, disk
<1>6. ASSUME NEW c \in Callers, Initialized(c) PROVE Tabled'
  BY <1>0, <1>6 DEF Initialized, StartInsert, IssueOn, Goto, Tabled, disk
<1>7. ASSUME NEW c \in Callers, Inserted(c) \/ InsertLocked(c) \/ InsertFailed(c) \/ Retry(c)
      PROVE  Tabled'
  BY <1>0, <1>7 DEF Inserted, InsertLocked, InsertFailed, Retry, IssueOn, Goto, Tabled, self, disk
<1>8. ASSUME NEW c \in Callers, Committed(c) \/ Closed(c) PROVE Tabled'
  BY <1>0, <1>8 DEF Committed, Closed, Goto, Tabled, self
<1> QED
  BY <1>1, <1>2, <1>3, <1>4, <1>5, <1>6, <1>7, <1>8 DEF Next, Resume

\* No INSERT, and no COMMIT after one, is issued before the tables exist, for
\* any number of tasks inside _initialize and any closes meanwhile.
THEOREM TablesFirst == Spec => []SchemaBeforeInsert
<1>1. Init => Tabled
  BY DEF Init, Tabled
<1>2. Tabled => SchemaBeforeInsert
  BY DEF Tabled, SchemaBeforeInsert, Callers
<1> QED BY <1>1, <1>2, StepTabled, InitTyped, StepTyped, PTL DEF Spec

(***************************************************************************)
(* Usable until closed.                                                    *)
(***************************************************************************)
\* Before the first close nothing is closed, the store's connection is open,
\* and a store some task has connected keeps a connection.
Usable ==
  NoCloseYet =>
    /\ \A k \in Conns : status[k] # "closed"
    /\ conn # NoConn => status[conn] = "open"
    /\ initialized => conn # NoConn
    /\ \A c \in Callers : pc[c] \in {"pragma", "script", "init_commit"} => conn # NoConn

LEMMA StepUsable == Typed /\ Usable /\ [Next]_vars => Usable'
<1> SUFFICES ASSUME Typed, Usable, [Next]_vars, NoCloseYet' PROVE Usable'
  BY DEF Usable
<1>0. /\ pc \in [Callers -> PCs] /\ status \in [Conns -> {"unused", "open", "closed"}]
      /\ conn \in Conns \cup {NoConn} /\ NoConn \notin Conns
      /\ initialized \in BOOLEAN
  BY NoConnAssumption DEF Typed, TypeOK
<1>1. CASE UNCHANGED vars
  BY <1>1 DEF vars, self, task, disk, Usable, NoCloseYet
<1>2. ASSUME NEW c \in Writers, RecordEvent(c) PROVE Usable'
  <2>1. NoCloseYet
    BY <1>0, <1>2, CallersAssumption
       DEF RecordEvent, StartInsert, IssueOn, Goto, NoCloseYet, Callers
  <2> QED
    BY <1>0, <1>2, <2>1 DEF RecordEvent, StartInsert, IssueOn, Goto, Usable, Callers, self
<1>3. ASSUME NEW c \in Closers, Close(c) PROVE FALSE
  BY <1>0, <1>3 DEF Close, IssueOn, Goto, NoCloseYet, Callers
<1>4. ASSUME NEW c \in Callers, Connected(c) PROVE Usable'
  <2>1. NoCloseYet
    BY <1>0, <1>4 DEF Connected, IssueOn, Goto, NoCloseYet, Callers
  <2> QED BY <1>0, <1>4, <2>1 DEF Connected, IssueOn, Goto, Usable
<1>5. ASSUME NEW c \in Callers, Pragmas(c) PROVE Usable'
  <2>1. NoCloseYet
    BY <1>0, <1>5 DEF Pragmas, IssueOn, Goto, NoCloseYet, Callers
  <2> QED BY <1>0, <1>5, <2>1 DEF Pragmas, IssueOn, Goto, Usable, self
<1>6. ASSUME NEW c \in Callers, Script(c) PROVE Usable'
  <2>1. NoCloseYet
    BY <1>0, <1>6 DEF Script, IssueOn, Goto, NoCloseYet, Callers
  <2> QED BY <1>0, <1>6, <2>1 DEF Script, IssueOn, Goto, Usable, self
<1>7. ASSUME NEW c \in Callers, Initialized(c) PROVE Usable'
  <2>1. NoCloseYet
    BY <1>0, <1>7 DEF Initialized, StartInsert, IssueOn, Goto, NoCloseYet, Callers
  <2> QED BY <1>0, <1>7, <2>1 DEF Initialized, StartInsert, IssueOn, Goto, Usable
<1>8. ASSUME NEW c \in Callers, Inserted(c) \/ InsertLocked(c) \/ InsertFailed(c) \/ Retry(c)
      PROVE  Usable'
  <2>1. NoCloseYet
    BY <1>0, <1>8 DEF Inserted, InsertLocked, InsertFailed, Retry, IssueOn, Goto, NoCloseYet, Callers
  <2> QED
    BY <1>0, <1>8, <2>1
       DEF Inserted, InsertLocked, InsertFailed, Retry, IssueOn, Goto, Usable, self
<1>9. ASSUME NEW c \in Callers, Committed(c) PROVE Usable'
  <2>1. NoCloseYet
    BY <1>0, <1>9 DEF Committed, Goto, NoCloseYet, Callers
  <2> QED BY <1>0, <1>9, <2>1 DEF Committed, Goto, Usable, self
<1>10. ASSUME NEW c \in Callers, Closed(c) PROVE FALSE
  <2>1. c \in Closers
    BY <1>10 DEF Closed, Typed, Placed, Callers
  <2> QED BY <1>0, <1>10, <2>1 DEF Closed, Goto, NoCloseYet
<1> QED
  BY <1>1, <1>2, <1>3, <1>4, <1>5, <1>6, <1>7, <1>8, <1>9, <1>10 DEF Next, Resume

\* A store that says it is initialised has an open connection until somebody
\* calls close, whoever is still inside _initialize and about to replace it.
THEOREM UsableUntilClosed == Spec => []UsableOnceInitialized
<1>1. Init => Usable
  BY DEF Init, Usable
<1>2. Usable => UsableOnceInitialized
  BY DEF Usable, UsableOnceInitialized
<1> QED BY <1>1, <1>2, StepUsable, InitTyped, StepTyped, PTL DEF Spec

(***************************************************************************)
(* One connection loses nothing.                                           *)
(***************************************************************************)
\* The store never had two connections.
OneOpened == \A k1, k2 \in Opened : k1 = k2

\* A writer about to commit has its row in the transaction it commits.
RowAtCommit ==
  \A c \in Callers : pc[c] = "commit" /\ Alive(c) => c \in uncommitted[target[c]] \cup durable

Safe ==
  /\ conn # NoConn => conn \in Opened
  /\ \A c \in Callers : pc[c] \in Jobs => target[c] \in Opened
  /\ OneOpened => acked \subseteq durable /\ RowAtCommit

LEMMA StepSafe == Typed /\ Safe /\ [Next]_vars => Safe'
<1> SUFFICES ASSUME Typed, Safe, [Next]_vars PROVE Safe'
  OBVIOUS
<1>0. /\ TypeOK /\ Placed /\ NoConn \notin Conns
      /\ pc \in [Callers -> PCs] /\ status \in [Conns -> {"unused", "open", "closed"}]
      /\ target \in [Callers -> Conns \cup {NoConn}]
      /\ uncommitted \in [Conns -> SUBSET Writers]
      /\ conn \in Conns \cup {NoConn}
  BY NoConnAssumption DEF Typed, TypeOK
<1>1. CASE UNCHANGED vars
  BY <1>1 DEF vars, self, task, disk, Safe, OneOpened, RowAtCommit, Alive, Opened
\* Steps that leave every connection and every row alone.
<1>2. ASSUME NEW c \in Callers, UNCHANGED <<conn, status, uncommitted, durable, acked>>,
             NEW where \in PCs, NEW k \in Conns \cup {NoConn}, where # "commit",
             Goto(c, where), target' = [target EXCEPT ![c] = k] \/ UNCHANGED target,
             where \in Jobs => target'[c] \in Opened
      PROVE  Safe'
  BY <1>0, <1>2 DEF Goto, Safe, OneOpened, RowAtCommit, Alive, Opened
<1>3. ASSUME NEW c \in Callers, UNCHANGED <<conn, status, uncommitted, durable, acked>>,
             NEW where \in Jobs \ {"commit"}, IssueOn(c, conn, where)
      PROVE  Safe'
  <2>1. CASE conn = NoConn
    BY <1>0, <1>2, <1>3, <2>1 DEF IssueOn, PCs, Jobs
  <2>2. CASE conn # NoConn
    BY <1>0, <1>2, <1>3, <2>2 DEF IssueOn, PCs, Jobs, Safe
  <2> QED BY <2>1, <2>2
<1>4. ASSUME NEW c \in Writers, RecordEvent(c) PROVE Safe'
  BY <1>0, <1>2, <1>3, <1>4 DEF RecordEvent, StartInsert, Callers, Jobs, PCs, self, disk
<1>5. ASSUME NEW c \in Closers, Close(c) PROVE Safe'
  BY <1>0, <1>2, <1>3, <1>5 DEF Close, Callers, Jobs, PCs, self, disk
<1>6. ASSUME NEW c \in Callers, Connected(c) PROVE Safe'
  <2>1. PICK k \in Conns : /\ status[k] = "unused" /\ status' = [status EXCEPT ![k] = "open"]
                           /\ conn' = k /\ IssueOn(c, k, "pragma")
    BY <1>6 DEF Connected
  <2>2. Opened' = Opened \cup {k} /\ k \notin Opened
    BY <1>0, <2>1 DEF Opened
  <2>3. /\ conn' \in Opened'
        /\ \A b \in Callers : pc'[b] \in Jobs => target'[b] \in Opened'
    BY <1>0, <2>1, <2>2 DEF IssueOn, Goto, Safe
  <2>4. ASSUME OneOpened' PROVE acked' \subseteq durable' /\ RowAtCommit'
    <3>1. Opened = {} /\ OneOpened
      BY <2>2, <2>4 DEF OneOpened
    <3>2. acked \subseteq durable /\ \A b \in Callers : pc[b] \notin Jobs
      BY <3>1 DEF Safe
    <3>3. \A b \in Callers : pc'[b] # "commit"
      BY <1>0, <2>1, <3>2 DEF IssueOn, Goto, Jobs
    <3> QED BY <1>6, <3>2, <3>3 DEF Connected, disk, RowAtCommit
  <2> QED BY <2>3, <2>4 DEF Safe
<1>7. ASSUME NEW c \in Callers, Pragmas(c) PROVE Safe'
  BY <1>0, <1>2, <1>3, <1>7 DEF Pragmas, Jobs, PCs, self, disk
\* A COMMIT on an opened connection takes its rows to the file.
<1>8. ASSUME NEW c \in Callers, UNCHANGED <<conn, status>>, pc[c] \in Jobs, CommitOn(target[c]),
             NEW where \in PCs, NEW k \in Conns \cup {NoConn}, where # "commit",
             Goto(c, where), target' = [target EXCEPT ![c] = k] \/ UNCHANGED target,
             where \in Jobs => target'[c] \in Opened,
             acked' = acked \/ (pc[c] = "commit" /\ Alive(c) /\ acked' = acked \cup {c})
      PROVE  Safe'
  <2>1. target[c] \in Opened /\ target[c] \in Conns /\ Opened' = Opened
    BY <1>8 DEF Safe, Opened
  <2>2. /\ conn' # NoConn => conn' \in Opened'
        /\ \A b \in Callers : pc'[b] \in Jobs => target'[b] \in Opened'
    BY <1>0, <1>8, <2>1 DEF Goto, Safe
  <2>3. durable' = durable \cup uncommitted[target[c]]
        /\ uncommitted' = [uncommitted EXCEPT ![target[c]] = {}]
    BY <1>8 DEF CommitOn
  <2>4. ASSUME OneOpened' PROVE acked' \subseteq durable' /\ RowAtCommit'
    <3>1. OneOpened /\ acked \subseteq durable /\ RowAtCommit
      BY <2>1, <2>4 DEF OneOpened, Safe
    <3>2. acked' \subseteq durable'
      BY <1>8, <2>3, <3>1 DEF RowAtCommit
    <3>3. ASSUME NEW b \in Callers, pc'[b] = "commit", Alive(b)'
          PROVE  b \in uncommitted'[target'[b]] \cup durable'
      <4>1. b # c /\ pc[b] = "commit" /\ target'[b] = target[b]
        BY <1>0, <1>8, <3>3 DEF Goto
      <4>2. b \in uncommitted[target[b]] \cup durable
        BY <1>8, <3>1, <3>3, <4>1 DEF RowAtCommit, Alive
      <4>3. target[b] \in Conns
        BY <1>0, <4>1 DEF Placed, Jobs
      <4> QED BY <1>0, <2>3, <4>1, <4>2, <4>3
    <3> QED BY <3>2, <3>3 DEF RowAtCommit
  <2> QED BY <2>2, <2>4 DEF Safe
<1>9. ASSUME NEW c \in Callers, Script(c) PROVE Safe'
  <2>1. conn # NoConn => conn \in Opened
    BY DEF Safe
  <2>2. CASE Alive(c) /\ CommitOn(target[c])
    <3>1. CASE IssueOn(c, conn, "init_commit")
      <4>1. CASE conn = NoConn
        BY <1>0, <1>8, <1>9, <2>2, <3>1, <4>1 DEF Script, IssueOn, Jobs, PCs, self
      <4>2. CASE conn # NoConn
        <5>1. Goto(c, "init_commit") /\ target' = [target EXCEPT ![c] = conn]
          BY <3>1, <4>2 DEF IssueOn
        <5>2. target'[c] \in Opened
          BY <1>0, <2>1, <4>2, <5>1
        <5>3. UNCHANGED <<conn, status, acked>> /\ pc[c] \in Jobs
          BY <1>9 DEF Script, self, Jobs
        <5> QED BY <1>0, <1>8, <2>2, <5>1, <5>2, <5>3 DEF PCs
      <4> QED BY <4>1, <4>2
    <3>2. CASE UNCHANGED target /\ Goto(c, "raised")
      BY <1>0, <1>8, <1>9, <2>2, <3>2 DEF Script, Jobs, PCs, self
    <3> QED BY <1>9, <2>2, <3>1, <3>2 DEF Script
  <2>3. CASE ~Alive(c)
    BY <1>0, <1>2, <1>9, <2>3 DEF Script, PCs, Jobs, self, disk
  <2> QED BY <1>9, <2>2, <2>3 DEF Script
<1>10. ASSUME NEW c \in Callers, Initialized(c) PROVE Safe'
  <2>1. conn # NoConn => conn \in Opened
    BY DEF Safe
  <2>2. CASE Alive(c) /\ CommitOn(target[c]) /\ StartInsert(c, conn)
    <3>1. UNCHANGED <<conn, status, acked>> /\ pc[c] \in Jobs
      BY <1>10 DEF Initialized, Jobs
    <3>2. CASE conn = NoConn
      BY <1>0, <1>8, <2>2, <3>1, <3>2 DEF StartInsert, Jobs, PCs
    <3>3. CASE conn # NoConn
      <4>1. Goto(c, "insert") /\ target' = [target EXCEPT ![c] = conn]
        BY <2>2, <3>3 DEF StartInsert, IssueOn
      <4>2. target'[c] \in Opened
        BY <1>0, <2>1, <3>3, <4>1
      <4> QED BY <1>0, <1>8, <2>2, <3>1, <4>1, <4>2 DEF PCs
    <3> QED BY <3>2, <3>3
  <2>3. CASE ~Alive(c)
    BY <1>0, <1>2, <1>10, <2>3 DEF Initialized, PCs, Jobs, disk
  <2> QED BY <1>10, <2>2, <2>3 DEF Initialized
<1>11. ASSUME NEW c \in Callers, Inserted(c) PROVE Safe'
  <2>1. /\ Opened' = Opened /\ target[c] \in Opened /\ target[c] \in Conns
        /\ pc[c] = "insert"
        /\ UNCHANGED <<conn, status, durable, acked>>
        /\ uncommitted' = [uncommitted EXCEPT ![target[c]] = @ \cup {c}]
        /\ IssueOn(c, conn, "commit")
    BY <1>11 DEF Inserted, Opened, Safe, Jobs, self
  <2>2. /\ conn' # NoConn => conn' \in Opened'
        /\ \A b \in Callers : pc'[b] \in Jobs => target'[b] \in Opened'
    BY <1>0, <2>1 DEF IssueOn, Goto, Safe, Jobs
  <2>3. ASSUME OneOpened' PROVE RowAtCommit'
    <3>1. OneOpened /\ RowAtCommit
      BY <2>1, <2>3 DEF OneOpened, Safe
    <3>2. ASSUME NEW b \in Callers, pc'[b] = "commit", Alive(b)'
          PROVE  b \in uncommitted'[target'[b]] \cup durable'
      <4>1. CASE b = c
        <5>1. target'[c] = conn /\ conn \in Opened
          BY <1>0, <2>1, <3>2, <4>1 DEF IssueOn, Goto, Safe
        <5>2. target'[c] = target[c]
          BY <2>1, <3>1, <5>1 DEF OneOpened
        <5> QED BY <1>0, <2>1, <4>1, <5>2
      <4>2. CASE b # c
        <5>1. pc[b] = "commit" /\ target'[b] = target[b] /\ Alive(b)
          BY <1>0, <2>1, <3>2, <4>2 DEF IssueOn, Goto, Alive
        <5>2. target[b] \in Conns
          BY <1>0, <5>1 DEF Placed, Jobs
        <5> QED BY <1>0, <2>1, <3>1, <5>1, <5>2 DEF RowAtCommit
      <4> QED BY <4>1, <4>2
    <3> QED BY <3>2 DEF RowAtCommit
  <2> QED BY <2>1, <2>2, <2>3 DEF Safe, OneOpened
<1>12. ASSUME NEW c \in Callers, InsertLocked(c) \/ InsertFailed(c) PROVE Safe'
  BY <1>0, <1>2, <1>12 DEF InsertLocked, InsertFailed, PCs, Jobs, self, disk
<1>13. ASSUME NEW c \in Callers, Retry(c) PROVE Safe'
  BY <1>3, <1>13 DEF Retry, Jobs, self, disk
<1>14. ASSUME NEW c \in Callers, Committed(c) PROVE Safe'
  BY <1>0, <1>2, <1>8, <1>14 DEF Committed, PCs, Jobs, Ended, self
\* A rolled back transaction was on the connection that is now closed.
<1>15. ASSUME NEW c \in Callers, Closed(c) PROVE Safe'
  <2>1. /\ pc[c] = "close" /\ target[c] \in Conns /\ target[c] \in Opened
        /\ status' = [status EXCEPT ![target[c]] = "closed"]
        /\ uncommitted' = [uncommitted EXCEPT ![target[c]] = {}]
        /\ conn' = NoConn /\ Goto(c, "returned")
        /\ UNCHANGED <<target, durable, acked>>
    BY <1>15 DEF Closed, Safe, Opened, Jobs
  <2>2. Opened' = Opened
    BY <1>0, <2>1 DEF Opened
  <2>3. \A b \in Callers : pc'[b] \in Jobs => pc[b] = pc'[b] /\ b # c
    BY <1>0, <2>1 DEF Goto, Jobs
  <2>4. ASSUME OneOpened' PROVE acked' \subseteq durable' /\ RowAtCommit'
    <3>1. OneOpened /\ acked \subseteq durable
      BY <2>2, <2>4 DEF OneOpened, Safe
    <3>2. ASSUME NEW b \in Callers, pc'[b] = "commit", Alive(b)' PROVE FALSE
      <4>1. target[b] \in Opened
        BY <2>3, <3>2 DEF Safe, Jobs
      <4>2. target[b] = target[c]
        BY <2>1, <3>1, <4>1 DEF OneOpened
      <4> QED BY <1>0, <2>1, <3>2, <4>2 DEF Alive
    <3> QED BY <2>1, <3>1, <3>2 DEF RowAtCommit
  <2> QED BY <2>1, <2>2, <2>3, <2>4 DEF Safe
<1> QED
  BY <1>1, <1>4, <1>5, <1>6, <1>7, <1>9, <1>10, <1>11, <1>12, <1>13, <1>14, <1>15
     DEF Next, Resume

\* With at most one connection ever opened, no interleaving of record_event,
\* _initialize and close loses an event whose call returned normally.
THEOREM OneConnectionIsDurable == Spec => []LossNeedsSecondConnection
<1>1. Init => Safe
  BY DEF Init, Safe, Jobs, RowAtCommit
<1>2. Typed /\ Safe => LossNeedsSecondConnection
  <2> SUFFICES ASSUME Safe, ~(acked \subseteq durable) PROVE Cardinality(Opened) > 1
    BY DEF LossNeedsSecondConnection
  <2>1. PICK k1 \in Opened, k2 \in Opened : k1 # k2
    BY DEF Safe, OneOpened
  <2>2. IsFiniteSet(Opened)
    BY ConnsAssumption, FS_Subset DEF Opened
  <2>3. IsFiniteSet({k1}) /\ Cardinality({k1}) = 1
    BY FS_Singleton
  <2>4. Cardinality({k1} \cup {k2}) = 2
    BY <2>1, <2>3, FS_AddElement
  <2>5. {k1} \cup {k2} \in SUBSET Opened
    OBVIOUS
  <2>6. Cardinality({k1} \cup {k2}) <= Cardinality(Opened)
    BY <2>2, <2>5, FS_Subset
  <2>7. Cardinality(Opened) \in Nat
    BY <2>2, FS_CardinalityType
  <2> QED BY <2>4, <2>6, <2>7
<1> QED BY <1>1, <1>2, StepSafe, InitTyped, StepTyped, PTL DEF Spec
===============================================================================
