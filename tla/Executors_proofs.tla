--------------------------- MODULE Executors_proofs ---------------------------
(***************************************************************************)
(* Proofs about TTCExecutor and Observability, which share no state: for   *)
(* any number of calls, executions and permits and any answers, and for    *)
(* any number of events of any kinds.                                      *)
(***************************************************************************)
EXTENDS TTCExecutor, Observability, DataLemmas

(***************************************************************************)
(* The inductive invariant.                                                *)
(***************************************************************************)
Typed ==
  /\ call \in [Calls -> {"idle", "awaiting", "gathering", "returned", "raised", "cancelled"}]
  /\ stage \in [Executions -> {"none", "waiting", "running", "cancelling", "over"}]
  /\ finished \in [Calls -> Seq(Answers \cup {Raised})]
  /\ results \in [Calls -> Seq(Answers)]

Over(c) == {t \in Own(c) : stage[t] = "over"}

\* While a call awaits its tasks, those that are over are those it has taken and
\* those it may still take: when it has taken all, none is left.
Counted(c) ==
  /\ call[c] = "idle" => /\ results[c] = <<>> /\ finished[c] = <<>>
                         /\ \A t \in Own(c) : stage[t] = "none"
  /\ call[c] = "awaiting" => /\ Cardinality(Over(c)) = Len(results[c]) + Len(finished[c])
                             /\ \A t \in Own(c) : stage[t] # "cancelling"
  /\ call[c] = "returned" => \A t \in Own(c) : stage[t] \in {"none", "over"}

TInv == Typed /\ \A c \in Calls : Counted(c)

\* Arithmetic of the counts: the last result is taken, one is taken, one more ends.
LEMMA LastTaken ==
  ASSUME NEW r \in Nat, NEW f \in Nat \ {0}, NEW n \in Nat, r + 1 = n, r + f <= n
  PROVE  r + f = n
OBVIOUS

LEMMA OneTaken ==
  ASSUME NEW r \in Nat, NEW f \in Nat
  PROVE  (r + 1) + (f - 1) = r + f
OBVIOUS

LEMMA OneMoreEnds ==
  ASSUME NEW r \in Nat, NEW f \in Nat
  PROVE  (r + f) + 1 = r + (f + 1)
OBVIOUS

(***************************************************************************)
(* A call's executions.                                                    *)
(***************************************************************************)
LEMMA OwnIsFinite ==
  ASSUME NEW c \in Calls
  PROVE  IsFiniteSet(Own(c)) /\ Cardinality(Own(c)) = num_executions
<1>1. num_executions \in Nat
  BY ExecutionsAssumption
<1>2. IsFiniteSet(1..num_executions) /\ Cardinality(1..num_executions) = num_executions
  BY <1>1, FS_Interval
<1>3. IsFiniteSet({c}) /\ Cardinality({c}) = 1
  BY FS_Singleton
<1>4. Own(c) = {c} \X (1..num_executions)
  BY DEF Own, Executions
<1>5. /\ IsFiniteSet({c} \X (1..num_executions))
      /\ Cardinality({c} \X (1..num_executions)) = 1 * num_executions
  BY <1>2, <1>3, FS_Product
<1> QED BY <1>1, <1>4, <1>5

LEMMA OwnsAreDisjoint ==
  ASSUME NEW c \in Calls, NEW d \in Calls \ {c}
  PROVE  Own(c) \cap Own(d) = {}
BY DEF Own

LEMMA OwnerIsCall ==
  ASSUME NEW t \in Executions
  PROVE  t[1] \in Calls /\ t \in Own(t[1])
BY DEF Own, Executions

\* What a step does not touch of a call keeps its part of the invariant.
LEMMA Untouched ==
  ASSUME NEW c \in Calls, Counted(c),
         call'[c] = call[c], results'[c] = results[c], finished'[c] = finished[c],
         \A t \in Own(c) : stage'[t] = stage[t]
  PROVE  Counted(c)'
<1>1. Over(c)' = Over(c)
  BY DEF Over
<1> QED BY <1>1 DEF Counted

\* A call that has taken as many results as it has executions has none left.
LEMMA AllTaken ==
  ASSUME Typed, NEW c \in Calls, Counted(c), call[c] = "awaiting",
         finished[c] # <<>>, Len(results[c]) + 1 = num_executions
  PROVE  \A t \in Own(c) : stage[t] = "over"
<1>1. Len(results[c]) \in Nat /\ Len(finished[c]) \in Nat \ {0}
  BY EmptySeq, LenProperties DEF Typed
<1>2. Cardinality(Over(c)) = Len(results[c]) + Len(finished[c])
  BY DEF Counted
<1>3. Over(c) \in SUBSET Own(c)
  BY DEF Over
<1>4. /\ IsFiniteSet(Over(c))
      /\ Cardinality(Over(c)) <= Cardinality(Own(c))
      /\ Cardinality(Own(c)) = Cardinality(Over(c)) => Own(c) = Over(c)
  BY <1>3, OwnIsFinite, FS_Subset
<1>5. Cardinality(Own(c)) = num_executions /\ num_executions \in Nat
  BY OwnIsFinite, ExecutionsAssumption
<1>6. Len(results[c]) + Len(finished[c]) <= num_executions
  BY <1>2, <1>4, <1>5
<1>7. Cardinality(Over(c)) = Cardinality(Own(c))
  BY <1>1, <1>2, <1>5, <1>6, LastTaken
<1> QED BY <1>4, <1>7 DEF Over

(***************************************************************************)
(* The steps.                                                              *)
(***************************************************************************)
LEMMA InitTInv == TTCInit => TInv
BY DEF TTCInit, TInv, Typed, Counted, Own

LEMMA ExecuteTInv ==
  ASSUME TInv, NEW c \in Calls, Execute(c)
  PROVE  TInv'
<1>1. Typed'
  BY DEF Execute, TInv, Typed
<1>2. ASSUME NEW d \in Calls \ {c} PROVE Counted(d)'
  BY OwnsAreDisjoint, Untouched DEF Execute, TInv, Typed, Own
<1>3. Over(c)' = {}
  BY DEF Execute, TInv, Typed, Over, Own
<1>4. /\ call'[c] = "awaiting" /\ results'[c] = <<>> /\ finished'[c] = <<>>
      /\ \A t \in Own(c) : stage'[t] = "waiting"
  BY DEF Execute, TInv, Typed, Counted, Own
<1>5. Cardinality({}) = Len(<<>>) + Len(<<>>)
  BY FS_EmptySet, EmptySeq
<1>6. Counted(c)'
  BY <1>3, <1>4, <1>5 DEF Counted
<1> QED BY <1>1, <1>2, <1>6 DEF TInv

LEMMA TakeResultTInv ==
  ASSUME TInv, NEW c \in Calls, TakeResult(c)
  PROVE  TInv'
<1> DEFINE rs == Append(results[c], Head(finished[c]))
<1>1. /\ call[c] = "awaiting" /\ finished[c] # <<>> /\ Head(finished[c]) # Raised
      /\ results' = [results EXCEPT ![c] = rs]
  BY DEF TakeResult
<1>2. /\ results[c] \in Seq(Answers) /\ finished[c] \in Seq(Answers \cup {Raised})
      /\ Counted(c)
  BY DEF TInv, Typed
<1>3. /\ Head(finished[c]) \in Answers
      /\ Tail(finished[c]) \in Seq(Answers \cup {Raised})
      /\ Len(Tail(finished[c])) = Len(finished[c]) - 1
  BY <1>1, <1>2, HeadTailProperties
<1>4. rs \in Seq(Answers) /\ Len(rs) = Len(results[c]) + 1
  BY <1>2, <1>3, AppendProperties
<1>5. Len(results[c]) \in Nat /\ Len(finished[c]) \in Nat
  BY <1>2, LenProperties
<1>6. CASE /\ ShouldEarlyStop(Len(rs))
           /\ call' = [call EXCEPT ![c] = AfterCancel]
           /\ Leave(c) /\ CancelRemaining(c)
  <2>1. Typed'
    BY <1>1, <1>4, <1>6, EmptySeq DEF TInv, Typed, AfterCancel, Leave, CancelRemaining
  <2>2. Counted(c)'
    BY <1>6 DEF TInv, Typed, Counted, AfterCancel
  <2>3. ASSUME NEW d \in Calls \ {c} PROVE Counted(d)'
    <3>1. /\ call'[d] = call[d] /\ results'[d] = results[d] /\ finished'[d] = finished[d]
          /\ \A t \in Own(d) : stage'[t] = stage[t]
      BY <1>1, <1>6, OwnsAreDisjoint DEF TInv, Typed, Leave, CancelRemaining, Own
    <3> QED BY <3>1, Untouched DEF TInv
  <2> QED BY <2>1, <2>2, <2>3 DEF TInv
<1>7. CASE /\ Len(rs) = num_executions
           /\ call' = [call EXCEPT ![c] = "returned"]
           /\ Leave(c) /\ UNCHANGED tasks
  <2>1. Typed'
    BY <1>1, <1>4, <1>7, EmptySeq DEF TInv, Typed, Leave, tasks
  <2>2. Counted(c)'
    BY <1>1, <1>2, <1>4, <1>7, AllTaken DEF TInv, Typed, Counted, tasks
  <2>3. ASSUME NEW d \in Calls \ {c} PROVE Counted(d)'
    BY <1>1, <1>7, Untouched DEF TInv, Typed, Leave, tasks
  <2> QED BY <2>1, <2>2, <2>3 DEF TInv
<1>8. CASE /\ finished' = [finished EXCEPT ![c] = Tail(@)]
           /\ UNCHANGED <<call, tasks>>
  <2>1. Typed'
    BY <1>1, <1>3, <1>4, <1>8 DEF TInv, Typed, tasks
  <2>2. Over(c)' = Over(c)
    BY <1>8 DEF Over, tasks
  <2>3. results'[c] = rs /\ finished'[c] = Tail(finished[c]) /\ call'[c] = "awaiting"
    BY <1>1, <1>8 DEF TInv, Typed
  <2>4. Cardinality(Over(c)) = Len(results[c]) + Len(finished[c])
    BY <1>1, <1>2 DEF Counted
  <2>5. Len(rs) + Len(Tail(finished[c])) = Len(results[c]) + Len(finished[c])
    BY <1>3, <1>4, <1>5, OneTaken
  <2>6. Cardinality(Over(c)') = Len(results'[c]) + Len(finished'[c])
    BY <2>2, <2>3, <2>4, <2>5
  <2>7. Counted(c)'
    BY <1>1, <1>2, <1>8, <2>3, <2>6 DEF Counted, tasks
  <2>8. ASSUME NEW d \in Calls \ {c} PROVE Counted(d)'
    BY <1>1, <1>8, Untouched DEF TInv, Typed, tasks
  <2> QED BY <2>1, <2>7, <2>8 DEF TInv
<1> QED BY <1>6, <1>7, <1>8 DEF TakeResult

\* A call that returns otherwise, raises or is cancelled leaves its tasks alone.
LEMMA LeaveTInv ==
  ASSUME TInv, NEW c \in Calls, Gathered(c) \/ TakeFailure(c) \/ CancelCall(c)
  PROVE  TInv'
<1>1. Typed'
  BY EmptySeq DEF Gathered, TakeFailure, CancelCall, Leave, tasks, TInv, Typed
<1>2. Counted(c)'
  BY DEF Gathered, TakeFailure, CancelCall, tasks, TInv, Typed, Counted
<1>3. ASSUME NEW d \in Calls \ {c} PROVE Counted(d)'
  BY Untouched DEF Gathered, TakeFailure, CancelCall, Leave, tasks, TInv, Typed
<1> QED BY <1>1, <1>2, <1>3 DEF TInv

\* A task that moves on without ending was not one of a call that returned.
LEMMA MoveTInv ==
  ASSUME TInv, NEW t \in Executions, stage[t] \in {"waiting", "running", "cancelling"},
         NEW s \in {"running", "over"}, stage' = [stage EXCEPT ![t] = s],
         s = "over" => stage[t] = "cancelling" /\ call[t[1]] # "awaiting",
         UNCHANGED <<call, finished, results>>
  PROVE  TInv'
<1> DEFINE c == t[1]
<1>1. c \in Calls /\ t \in Own(c)
  BY OwnerIsCall
<1>2. Typed'
  BY DEF TInv, Typed
<1>3. Counted(c) /\ call[c] \notin {"idle", "returned"}
  BY <1>1 DEF TInv, Counted
<1>4. s = "running" => Over(c)' = Over(c)
  BY <1>1 DEF TInv, Typed, Over, Own
<1>5. Counted(c)'
  BY <1>1, <1>3, <1>4 DEF TInv, Typed, Counted
<1>6. ASSUME NEW d \in Calls \ {c} PROVE Counted(d)'
  <2>1. \A u \in Own(d) : stage'[u] = stage[u]
    BY <1>1 DEF TInv, Typed, Own
  <2> QED BY <2>1, Untouched DEF TInv
<1> QED BY <1>2, <1>5, <1>6 DEF TInv

LEMMA EndTInv ==
  ASSUME TInv, NEW t \in Executions, NEW a \in Answers \cup {Raised}, End(t, a)
  PROVE  TInv'
<1> DEFINE c == t[1]
<1>1. c \in Calls /\ t \in Own(c)
  BY OwnerIsCall
<1>2. /\ stage[t] = "running" /\ stage' = [stage EXCEPT ![t] = "over"]
      /\ finished' = [finished EXCEPT ![c] = IF call[c] = "awaiting" THEN Append(@, a) ELSE @]
      /\ UNCHANGED <<call, results>>
  BY DEF End
<1>3. /\ Append(finished[c], a) \in Seq(Answers \cup {Raised})
      /\ Len(Append(finished[c], a)) = Len(finished[c]) + 1
  BY <1>1, AppendProperties DEF TInv, Typed
<1>4. Typed'
  BY <1>1, <1>2, <1>3 DEF TInv, Typed
<1>5. Counted(c) /\ call[c] \notin {"idle", "returned"}
  BY <1>1, <1>2 DEF TInv, Counted
<1>6. ASSUME call[c] = "awaiting"
      PROVE  Cardinality(Over(c)') = Len(results'[c]) + Len(finished'[c])
  <2>1. Over(c)' = Over(c) \cup {t} /\ t \notin Over(c)
    BY <1>1, <1>2 DEF TInv, Typed, Over, Own
  <2>2. Over(c) \in SUBSET Own(c)
    BY DEF Over
  <2>3. IsFiniteSet(Over(c))
    BY <1>1, <2>2, OwnIsFinite, FS_Subset
  <2>4. Cardinality(Over(c) \cup {t}) = Cardinality(Over(c)) + 1
    BY <2>1, <2>3, FS_AddElement
  <2>5. Cardinality(Over(c)) = Len(results[c]) + Len(finished[c])
    BY <1>5, <1>6 DEF Counted
  <2>6. Len(results[c]) \in Nat /\ Len(finished[c]) \in Nat
    BY <1>1, LenProperties DEF TInv, Typed
  <2>7. results'[c] = results[c] /\ finished'[c] = Append(finished[c], a)
    BY <1>1, <1>2, <1>6 DEF TInv, Typed
  <2>8. Len(results[c]) + Len(finished[c]) + 1 = Len(results'[c]) + Len(finished'[c])
    BY <1>3, <2>6, <2>7, OneMoreEnds
  <2> QED BY <2>1, <2>4, <2>5, <2>8
<1>7. call[c] = "awaiting" => \A u \in Own(c) : stage'[u] # "cancelling"
  BY <1>2, <1>5 DEF TInv, Typed, Counted, Own
<1>8. Counted(c)'
  BY <1>2, <1>5, <1>6, <1>7 DEF Counted
<1>9. ASSUME NEW d \in Calls \ {c} PROVE Counted(d)'
  <2>1. \A u \in Own(d) : stage'[u] = stage[u]
    BY <1>1, <1>2 DEF TInv, Typed, Own
  <2>2. call'[d] = call[d] /\ results'[d] = results[d] /\ finished'[d] = finished[d]
    BY <1>2 DEF TInv, Typed
  <2> QED BY <2>1, <2>2, Untouched DEF TInv
<1> QED BY <1>4, <1>8, <1>9 DEF TInv

LEMMA StepTInv == TInv /\ [TTCNext]_ttc => TInv'
<1> SUFFICES ASSUME TInv, [TTCNext]_ttc PROVE TInv'
  OBVIOUS
<1>1. CASE UNCHANGED ttc
  <2>1. Typed'
    BY <1>1 DEF ttc, tasks, TInv, Typed
  <2>2. ASSUME NEW c \in Calls PROVE Counted(c)'
    BY <1>1, Untouched DEF ttc, tasks, TInv
  <2> QED BY <2>1, <2>2 DEF TInv
<1>2. ASSUME NEW c \in Calls, Execute(c) PROVE TInv'
  BY <1>2, ExecuteTInv
<1>3. ASSUME NEW c \in Calls, CallStep(c) PROVE TInv'
  BY <1>3, TakeResultTInv, LeaveTInv DEF CallStep
<1>4. ASSUME NEW c \in Calls, CancelCall(c) PROVE TInv'
  BY <1>4, LeaveTInv
<1>5. ASSUME NEW t \in Executions, Start(t) PROVE TInv'
  BY <1>5, MoveTInv DEF Start
<1>6. ASSUME NEW t \in Executions, TaskEnds(t) PROVE TInv'
  <2>1. ASSUME NEW a \in Answers, Complete(t, a) PROVE TInv'
    BY <2>1, EndTInv DEF Complete
  <2>2. CASE Fail(t)
    BY <2>2, EndTInv DEF Fail
  <2>3. CASE Cancelled(t)
    <3>1. t[1] \in Calls /\ t \in Own(t[1]) /\ Counted(t[1])
      BY OwnerIsCall DEF TInv
    <3>2. call[t[1]] # "awaiting"
      BY <2>3, <3>1 DEF Counted, Cancelled
    <3> QED BY <2>3, <3>2, MoveTInv DEF Cancelled
  <2> QED BY <1>6, <2>1, <2>2, <2>3 DEF TaskEnds
<1> QED BY <1>1, <1>2, <1>3, <1>4, <1>5, <1>6 DEF TTCNext

(***************************************************************************)
(* Theorems.                                                               *)
(***************************************************************************)
\* Every reachable state is typed, and a call's results and finished tasks together
\* are its tasks that are over.
\* Code: ttc.py execute, as_completed.
THEOREM TasksAreCounted == TTCSpec => []TInv
BY InitTInv, StepTInv, PTL DEF TTCSpec

\* A call that returned has no task that waits, runs or is being cancelled.
\* Code: ttc.py execute, the gather after cancel.
THEOREM QuietWhenReturned == TTCSpec => []ReturnedCallsAreQuiet
<1>1. TInv => ReturnedCallsAreQuiet
  BY DEF TInv, Counted, ReturnedCallsAreQuiet
<1> QED BY <1>1, TasksAreCounted, PTL

(***************************************************************************)
(* TTCExecutor: what a call selects.                                       *)
(***************************************************************************)
LEMMA CountBounds ==
  ASSUME NEW rs \in Seq(Answers), NEW a
  PROVE  /\ Count(a, rs) \in 0..Len(rs)
         /\ a \notin ToSet(rs) => Count(a, rs) = 0
<1> DEFINE places == {i \in DOMAIN rs : rs[i] = a}
<1>1. DOMAIN rs = 1..Len(rs) /\ Len(rs) \in Nat
  BY LenProperties
<1>2. IsFiniteSet(1..Len(rs)) /\ Cardinality(1..Len(rs)) = Len(rs)
  BY <1>1, FS_Interval
<1>3. places \in SUBSET (1..Len(rs))
  BY <1>1
<1> HIDE DEF places
<1>4. IsFiniteSet(places) /\ Cardinality(places) <= Len(rs)
  BY <1>2, <1>3, FS_Subset
<1>5. Cardinality(places) \in Nat
  BY <1>4, FS_CardinalityType
<1>6. a \notin ToSet(rs) => places = {}
  BY DEF ToSet, places
<1>7. Count(a, rs) = Cardinality(places)
  BY DEF Count, places
<1> QED BY <1>1, <1>4, <1>5, <1>6, <1>7, FS_EmptySet

\* The first place of an answer is the least that holds it.
LEMMA FirstPlace ==
  ASSUME NEW rs \in Seq(Answers), NEW a \in ToSet(rs)
  PROVE  FirstIndex(a, rs) \in 1..Len(rs) /\ rs[FirstIndex(a, rs)] = a
<1> DEFINE places == {i \in DOMAIN rs : rs[i] = a}
<1>1. DOMAIN rs = 1..Len(rs) /\ Len(rs) \in Nat
  BY LenProperties
<1>2. places \in SUBSET Nat /\ places # {}
  BY <1>1 DEF ToSet
<1>3. PICK m \in places : \A n \in places : m <= n
  <2> HIDE DEF places
  <2> QED BY <1>2, Least
<1>4. \A j \in 1..m - 1 : rs[j] # a
  BY <1>1, <1>3
<1>5. m \in DOMAIN rs /\ rs[m] = a /\ \A j \in 1..m - 1 : rs[j] # a
  BY <1>3, <1>4
<1>6. FirstIndex(a, rs) \in DOMAIN rs /\ rs[FirstIndex(a, rs)] = a
  BY <1>5 DEF FirstIndex
<1> QED BY <1>1, <1>6

\* Some answer has the most votes and, among those that have them, comes first; it is
\* what MajorityVote chooses.
LEMMA Elected ==
  ASSUME NEW rs \in Seq(Answers), rs # <<>>
  PROVE  /\ MajorityVote(rs) \in Answers
         /\ \A a \in Answers : Count(a, rs) <= Count(MajorityVote(rs), rs)
<1> DEFINE V == ToSet(rs)
           K == {Count(a, rs) : a \in V}
           top == Max(K)
           F == {FirstIndex(a, rs) : a \in {b \in V : Count(b, rs) = top}}
<1>1. DOMAIN rs = 1..Len(rs) /\ Len(rs) \in Nat \ {0} /\ \A i \in 1..Len(rs) : rs[i] \in Answers
  BY EmptySeq, LenProperties, ElementOfSeq
<1>2. V \subseteq Answers /\ V # {}
  BY <1>1 DEF ToSet
<1>3. \A a : Count(a, rs) \in 0..Len(rs)
  BY CountBounds
<1>4. top \in K /\ \A k \in K : k <= top
  <2>1. K \in SUBSET (0..Len(rs)) /\ K # {}
    BY <1>2, <1>3
  <2>2. IsFiniteSet(0..Len(rs))
    BY <1>1, FS_Interval
  <2> HIDE DEF K
  <2>3. IsFiniteSet(K)
    BY <2>1, <2>2, FS_Subset
  <2>4. K \subseteq Int
    BY <2>1
  <2> QED BY <2>1, <2>3, <2>4, Greatest DEF top
<1> HIDE DEF V, top
<1>5. \A a \in V : FirstIndex(a, rs) \in 1..Len(rs) /\ rs[FirstIndex(a, rs)] = a
  BY FirstPlace DEF V
<1>6. F \in SUBSET Nat /\ F # {}
  BY <1>4, <1>5
<1>7. PICK f \in F : \A g \in F : f <= g
  <2> HIDE DEF F
  <2> QED BY <1>6, Least
<1>8. PICK w \in V : Count(w, rs) = top /\ FirstIndex(w, rs) = f
  BY <1>7
<1>9. ASSUME NEW b \in V \ {w}
      PROVE  \/ Count(b, rs) < Count(w, rs)
             \/ Count(b, rs) = Count(w, rs) /\ FirstIndex(w, rs) < FirstIndex(b, rs)
  <2>1. Count(b, rs) \in Nat /\ top \in Nat /\ Count(b, rs) <= top
    BY <1>3, <1>4, <1>8
  <2>2. CASE Count(b, rs) = top
    <3>1. FirstIndex(b, rs) \in F
      BY <2>2
    <3>2. FirstIndex(b, rs) \in Nat /\ f \in Nat
      BY <1>6, <1>7, <3>1
    <3>3. FirstIndex(b, rs) # f
      BY <1>5, <1>8
    <3> QED BY <1>7, <1>8, <2>2, <3>1, <3>2, <3>3
  <2> QED BY <1>8, <2>1, <2>2
<1>10. LET m == MajorityVote(rs)
       IN  m \in V /\ \A b \in V \ {m} :
             \/ Count(b, rs) < Count(m, rs)
             \/ Count(b, rs) = Count(m, rs) /\ FirstIndex(m, rs) < FirstIndex(b, rs)
  BY <1>8, <1>9 DEF MajorityVote, V
<1>11. ASSUME NEW a \in Answers PROVE Count(a, rs) <= Count(MajorityVote(rs), rs)
  <2>1. Count(a, rs) \in Nat /\ Count(MajorityVote(rs), rs) \in Nat
    BY <1>3
  <2>2. a \notin V => Count(a, rs) = 0
    BY CountBounds DEF V
  <2> QED BY <1>10, <2>1, <2>2
<1> QED BY <1>2, <1>10, <1>11

(***************************************************************************)
(* The inductive invariant: how many results a call has at each stage.     *)
(***************************************************************************)
Chosen(c) ==
  /\ call[c] # "idle" => accepted
  /\ call[c] = "awaiting" => /\ Len(results[c]) < num_executions
                             /\ Len(results[c]) < early_stop_threshold
  /\ call[c] = "gathering" => /\ Len(results[c]) = early_stop_threshold
                              /\ early_stop_threshold <= num_executions
  /\ call[c] = "returned" =>
       /\ Len(results[c]) = IF early_stop_threshold < num_executions
                            THEN early_stop_threshold ELSE num_executions
       /\ selected[c] = MajorityVote(results[c])

Configured ==
  /\ early_stop_threshold \in Nat
  /\ accepted => num_executions >= 1 /\ early_stop_threshold >= 1
  /\ selected \in [Calls -> Answers \cup {NoAnswer}]

SInv == Configured /\ \A c \in Calls : Chosen(c)

LEMMA InitSInv == TTCInit => SInv
BY ThresholdsAssumption DEF TTCInit, SInv, Configured, Chosen, PostInit

\* What a step does not touch of a call keeps its part.
LEMMA ChosenStays ==
  ASSUME NEW c \in Calls, Chosen(c), UNCHANGED config,
         call'[c] = call[c], results'[c] = results[c], selected'[c] = selected[c]
  PROVE  Chosen(c)'
BY DEF Chosen, config

LEMMA TakeResultSInv ==
  ASSUME TInv, SInv, NEW c \in Calls, TakeResult(c)
  PROVE  SInv'
<1> DEFINE rs == Append(results[c], Head(finished[c]))
<1>1. /\ call[c] = "awaiting" /\ finished[c] # <<>> /\ Head(finished[c]) # Raised
      /\ results' = [results EXCEPT ![c] = rs] /\ UNCHANGED config
  BY DEF TakeResult
<1>2. /\ results[c] \in Seq(Answers) /\ finished[c] \in Seq(Answers \cup {Raised})
      /\ call \in [Calls -> {"idle", "awaiting", "gathering", "returned", "raised", "cancelled"}]
      /\ results \in [Calls -> Seq(Answers)] /\ selected \in [Calls -> Answers \cup {NoAnswer}]
  BY DEF TInv, Typed, SInv, Configured
<1>3. rs \in Seq(Answers) /\ Len(rs) = Len(results[c]) + 1 /\ rs # <<>>
  <2>1. Head(finished[c]) \in Answers
    BY <1>1, <1>2, HeadTailProperties
  <2>2. rs \in Seq(Answers) /\ Len(rs) = Len(results[c]) + 1
    BY <1>2, <2>1, AppendProperties
  <2>3. Len(results[c]) \in Nat
    BY <1>2, LenProperties
  <2>4. Len(rs) # 0
    BY <2>2, <2>3
  <2> HIDE DEF rs
  <2> QED BY <2>2, <2>4, EmptySeq
<1> HIDE DEF rs
<1>4. /\ Len(results[c]) \in Nat /\ early_stop_threshold \in Nat /\ num_executions \in Nat
      /\ Len(results[c]) < num_executions /\ Len(results[c]) < early_stop_threshold
      /\ accepted /\ early_stop_threshold >= 1 /\ num_executions >= 1
  BY <1>1, <1>2, LenProperties, ExecutionsAssumption DEF SInv, Configured, Chosen
<1>5. early_stop_threshold' = early_stop_threshold /\ accepted' = accepted
  BY <1>1 DEF config
<1>6. results'[c] = rs
  BY <1>1, <1>2
<1>7. CASE ShouldEarlyStop(Len(rs)) /\ call' = [call EXCEPT ![c] = AfterCancel] /\ UNCHANGED selected
  <2>1. Len(rs) = early_stop_threshold /\ early_stop_threshold <= num_executions
    BY <1>3, <1>4, <1>7 DEF ShouldEarlyStop
  <2>2. Chosen(c)'
    BY <1>2, <1>4, <1>5, <1>6, <1>7, <2>1 DEF Chosen, AfterCancel
  <2>3. ASSUME NEW d \in Calls \ {c} PROVE Chosen(d)'
    BY <1>1, <1>2, <1>7, ChosenStays DEF SInv
  <2> QED BY <1>5, <1>7, <2>2, <2>3 DEF SInv, Configured
<1>8. CASE /\ ~ShouldEarlyStop(Len(rs)) /\ Len(rs) = num_executions
           /\ call' = [call EXCEPT ![c] = "returned"]
           /\ selected' = [selected EXCEPT ![c] = MajorityVote(rs)]
  <2>1. ~(early_stop_threshold < num_executions)
    BY <1>3, <1>4, <1>8 DEF ShouldEarlyStop
  <2>2. Chosen(c)'
    BY <1>2, <1>4, <1>5, <1>6, <1>8, <2>1 DEF Chosen
  <2>3. ASSUME NEW d \in Calls \ {c} PROVE Chosen(d)'
    BY <1>1, <1>2, <1>8, ChosenStays DEF SInv
  <2>4. selected' \in [Calls -> Answers \cup {NoAnswer}]
    BY <1>2, <1>3, <1>8, Elected
  <2> QED BY <1>5, <2>2, <2>3, <2>4 DEF SInv, Configured
<1>9. CASE ~ShouldEarlyStop(Len(rs)) /\ Len(rs) < num_executions /\ UNCHANGED <<call, selected>>
  <2>1. Len(rs) < early_stop_threshold
    BY <1>3, <1>4, <1>9 DEF ShouldEarlyStop
  <2>2. Chosen(c)'
    BY <1>1, <1>4, <1>5, <1>6, <1>9, <2>1 DEF Chosen
  <2>3. ASSUME NEW d \in Calls \ {c} PROVE Chosen(d)'
    BY <1>1, <1>2, <1>9, ChosenStays DEF SInv
  <2> QED BY <1>5, <1>9, <2>2, <2>3 DEF SInv, Configured
<1> QED BY <1>7, <1>8, <1>9 DEF TakeResult, rs

LEMMA StepSInv == TInv /\ SInv /\ [TTCNext]_ttc => SInv'
<1> SUFFICES ASSUME TInv, SInv, [TTCNext]_ttc PROVE SInv'
  OBVIOUS
<1>0. /\ call \in [Calls -> {"idle", "awaiting", "gathering", "returned", "raised", "cancelled"}]
      /\ results \in [Calls -> Seq(Answers)] /\ selected \in [Calls -> Answers \cup {NoAnswer}]
      /\ num_executions \in Nat
  BY ExecutionsAssumption DEF TInv, Typed, SInv, Configured
<1>1. ASSUME UNCHANGED <<config, call, results, selected>> PROVE SInv'
  <2>1. ASSUME NEW c \in Calls PROVE Chosen(c)'
    BY <1>1, ChosenStays DEF SInv
  <2> QED BY <1>1, <2>1 DEF SInv, Configured, config
<1>2. ASSUME NEW c \in Calls, Execute(c) PROVE SInv'
  <2>1. /\ accepted /\ call[c] = "idle" /\ call' = [call EXCEPT ![c] = "awaiting"]
        /\ UNCHANGED <<config, results, selected>>
    BY <1>2 DEF Execute
  <2>2. results[c] = <<>> /\ Len(results[c]) = 0
    BY <2>1, EmptySeq DEF TInv, Counted
  <2>3. Chosen(c)'
    BY <1>0, <2>1, <2>2 DEF Chosen, SInv, Configured, config
  <2>4. ASSUME NEW d \in Calls \ {c} PROVE Chosen(d)'
    BY <1>0, <2>1, ChosenStays DEF SInv
  <2> QED BY <2>1, <2>3, <2>4 DEF SInv, Configured, config
<1>3. ASSUME NEW c \in Calls, TakeResult(c) PROVE SInv'
  BY <1>3, TakeResultSInv
<1>4. ASSUME NEW c \in Calls, TakeFailure(c) \/ CancelCall(c) PROVE SInv'
  <2>1. /\ call[c] \in {"awaiting", "gathering"} /\ UNCHANGED <<config, results, selected>>
        /\ \/ call' = [call EXCEPT ![c] = "raised"]
           \/ call' = [call EXCEPT ![c] = "cancelled"]
    BY <1>4 DEF TakeFailure, CancelCall
  <2>2. Chosen(c)'
    BY <1>0, <2>1 DEF Chosen, SInv, config
  <2>3. ASSUME NEW d \in Calls \ {c} PROVE Chosen(d)'
    BY <1>0, <2>1, ChosenStays DEF SInv
  <2> QED BY <2>1, <2>2, <2>3 DEF SInv, Configured, config
<1>5. ASSUME NEW c \in Calls, Gathered(c) PROVE SInv'
  <2>1. /\ call[c] = "gathering" /\ call' = [call EXCEPT ![c] = "returned"]
        /\ selected' = [selected EXCEPT ![c] = MajorityVote(results[c])]
        /\ UNCHANGED <<config, results>>
    BY <1>5 DEF Gathered
  <2>2. /\ Len(results[c]) = early_stop_threshold /\ early_stop_threshold <= num_executions
        /\ early_stop_threshold \in Nat /\ early_stop_threshold >= 1 /\ accepted
    BY <2>1 DEF SInv, Configured, Chosen
  <2>3. MajorityVote(results[c]) \in Answers
    <3>1. Len(results[c]) # 0 /\ results[c] \in Seq(Answers)
      BY <1>0, <2>2
    <3>2. results[c] # <<>>
      BY <3>1, EmptySeq
    <3> QED BY <3>1, <3>2, Elected
  <2>4. Chosen(c)'
    BY <1>0, <2>1, <2>2 DEF Chosen, config
  <2>5. ASSUME NEW d \in Calls \ {c} PROVE Chosen(d)'
    BY <1>0, <2>1, ChosenStays DEF SInv
  <2> QED BY <1>0, <2>1, <2>3, <2>4, <2>5 DEF SInv, Configured, config
<1>6. ASSUME NEW t \in Executions, Start(t) \/ TaskEnds(t) PROVE SInv'
  BY <1>1, <1>6 DEF Start, TaskEnds, Complete, Fail, End, Cancelled
<1>7. CASE UNCHANGED ttc
  BY <1>1, <1>7 DEF ttc
<1> QED BY <1>2, <1>3, <1>4, <1>5, <1>6, <1>7 DEF TTCNext, CallStep

\* What a call that returned selected has as many votes as any other answer among the
\* results it took, for any number of executions and any threshold: there is at least
\* one of them, and nothing touches them after the selection.
\* Code: ttc.py execute, majority_vote_selector.
THEOREM PluralityIsSelected == TTCSpec => []SelectedByPlurality
<1>1. TInv /\ SInv => SelectedByPlurality
  <2> SUFFICES ASSUME TInv, SInv, NEW c \in Calls, call[c] = "returned"
               PROVE  \A a \in Answers : Count(a, results[c]) <= Count(selected[c], results[c])
    BY DEF SelectedByPlurality
  <2>1. /\ Len(results[c]) = IF early_stop_threshold < num_executions
                             THEN early_stop_threshold ELSE num_executions
        /\ selected[c] = MajorityVote(results[c]) /\ results[c] \in Seq(Answers)
        /\ early_stop_threshold >= 1 /\ num_executions >= 1
    BY DEF TInv, Typed, SInv, Configured, Chosen
  <2>2. Len(results[c]) # 0
    BY <2>1, ExecutionsAssumption DEF SInv, Configured
  <2>3. results[c] # <<>>
    BY <2>2, EmptySeq
  <2> QED BY <2>1, <2>3, Elected
<1>2. TInv /\ SInv /\ [TTCNext]_ttc => (TInv /\ SInv)'
  BY StepTInv, StepSInv
<1> QED BY InitTInv, InitSInv, <1>1, <1>2, PTL DEF TTCSpec

(***************************************************************************)
(* Observability: the events and where they are.                           *)
(***************************************************************************)
Delivered == [id : Nat, kind : Kinds]
Records   == [id : Nat, type : {event_type_map[k] : k \in Kinds}]

PluginTyped ==
  /\ phase \in {"inactive", "active", "deactivating", "closed", "raised"}
  /\ emitted \in Nat
  /\ buffer \in Seq(Delivered) /\ collected \in Seq(Delivered) /\ issued \in Seq(Records)
  /\ flush \in [Flushes -> {"none", "scheduled", "writing", "done"}]
  /\ rest \in [Flushes -> Seq(Delivered)]
  /\ \A f \in Flushes : rest[f] # <<>> <=> flush[f] = "writing"
  /\ flush["forced"] = "none" <=> phase \in {"inactive", "active"}

\* The two flushes.
LEMMA TwoFlushes ==
  /\ "task" \in Flushes /\ "forced" \in Flushes
  /\ \A f \in Flushes : f = "task" \/ f = "forced"
BY DEF Flushes

LEMMA RecordIsWritten ==
  ASSUME NEW e \in Delivered
  PROVE  ToRecord(e) \in Records /\ ToRecord(e).id = e.id
BY DEF Delivered, Records, ToRecord

LEMMA InitPluginTyped == PluginInit => PluginTyped
BY EmptySeq, TwoFlushes DEF PluginInit, PluginTyped, Flushes

LEMMA TakeTyped ==
  ASSUME PluginTyped, NEW f \in Flushes, flush[f] # "writing", Take(f),
         UNCHANGED <<emitted, collected>>,
         f = "task" => phase' = phase /\ flush["task"] # "none",
         f = "forced" => phase' \in {"closed", "deactivating"}
  PROVE  PluginTyped'
<1>1. buffer' \in Seq(Delivered) /\ rest' = [rest EXCEPT ![f] = buffer]
  BY EmptySeq DEF Take, PluginTyped
<1>2. flush' = [flush EXCEPT ![f] = IF buffer = <<>> THEN "done" ELSE "writing"]
  BY DEF Take
<1>3. \A g \in Flushes : rest'[g] # <<>> <=> flush'[g] = "writing"
  BY <1>1, <1>2 DEF PluginTyped
<1>4. flush'["forced"] = "none" <=> phase' \in {"inactive", "active"}
  BY <1>2, TwoFlushes DEF PluginTyped
<1>5. phase' \in {"inactive", "active", "deactivating", "closed", "raised"}
  BY TwoFlushes DEF PluginTyped
<1> QED BY <1>1, <1>2, <1>3, <1>4, <1>5 DEF PluginTyped, Take, written

LEMMA StepPluginTyped == PluginTyped /\ [PluginNext]_plugin => PluginTyped'
<1> SUFFICES ASSUME PluginTyped, [PluginNext]_plugin PROVE PluginTyped'
  OBVIOUS
<1>1. CASE UNCHANGED plugin
  BY <1>1 DEF plugin, subscriber, written, PluginTyped
<1>2. CASE Activate
  BY <1>2 DEF Activate, subscriber, written, PluginTyped
<1>3. CASE StartFlush
  BY <1>3, TakeTyped, TwoFlushes DEF StartFlush
<1>4. CASE Deactivate
  BY <1>4, TakeTyped, TwoFlushes DEF Deactivate, PluginTyped
<1>5. ASSUME NEW k \in Kinds, Emit(k) PROVE PluginTyped'
  <2> DEFINE e == [id |-> emitted + 1, kind |-> k]
  <2>1. e \in Delivered /\ emitted' \in Nat
    BY <1>5 DEF Delivered, PluginTyped, Emit
  <2>2. buffer' = Append(buffer, e) /\ collected' = Append(collected, e)
        /\ UNCHANGED <<phase, rest, issued>>
    BY <1>5 DEF Emit, written
  <2> HIDE DEF e
  <2>3. buffer' \in Seq(Delivered) /\ collected' \in Seq(Delivered)
    BY <2>1, <2>2, AppendProperties DEF PluginTyped
  <2>4. \/ UNCHANGED flush
        \/ flush' = [flush EXCEPT !["task"] = "scheduled"] /\ flush["task"] \in {"none", "done"}
    BY <1>5 DEF Emit, ScheduleFlush
  <2>5. /\ flush' \in [Flushes -> {"none", "scheduled", "writing", "done"}]
        /\ \A f \in Flushes : rest'[f] # <<>> <=> flush'[f] = "writing"
        /\ flush'["forced"] = flush["forced"]
    BY <2>2, <2>4, TwoFlushes DEF PluginTyped
  <2> QED BY <2>1, <2>2, <2>3, <2>5 DEF PluginTyped
<1>6. ASSUME NEW f \in Flushes, Recorded(f) PROVE PluginTyped'
  <2>1. /\ flush[f] = "writing" /\ rest' = [rest EXCEPT ![f] = Tail(@)]
        /\ issued' = Append(issued, ToRecord(Head(rest[f])))
        /\ UNCHANGED <<emitted, buffer, collected>>
    BY <1>6 DEF Recorded
  <2>2. rest[f] \in Seq(Delivered) /\ rest[f] # <<>> /\ issued \in Seq(Records)
    BY <2>1 DEF PluginTyped
  <2>3. Head(rest[f]) \in Delivered /\ Tail(rest[f]) \in Seq(Delivered)
        /\ Len(Tail(rest[f])) = Len(rest[f]) - 1 /\ Len(rest[f]) \in Nat
    BY <2>2, HeadTailProperties, LenProperties
  <2>4. issued' \in Seq(Records) /\ rest' \in [Flushes -> Seq(Delivered)]
    BY <2>1, <2>2, <2>3, RecordIsWritten, AppendProperties DEF PluginTyped
  <2>5. Tail(rest[f]) = <<>> <=> Len(rest[f]) = 1
    <3>1. Tail(rest[f]) = <<>> <=> Len(Tail(rest[f])) = 0
      BY <2>3, EmptySeq
    <3> QED BY <2>3, <3>1
  <2>6. /\ flush' = IF Len(rest[f]) = 1 THEN [flush EXCEPT ![f] = "done"] ELSE flush
        /\ phase' = IF Len(rest[f]) = 1 /\ f = "forced" THEN "closed" ELSE phase
    BY <1>6 DEF Recorded
  <2>7. \A g \in Flushes : rest'[g] # <<>> <=> flush'[g] = "writing"
    BY <2>1, <2>5, <2>6 DEF PluginTyped
  <2>8. flush'["forced"] = "none" <=> phase' \in {"inactive", "active"}
    BY <2>1, <2>6, TwoFlushes DEF PluginTyped
  <2> QED BY <2>1, <2>4, <2>6, <2>7, <2>8 DEF PluginTyped
<1>7. ASSUME NEW f \in Flushes, RecordFailed(f) PROVE PluginTyped'
  <2>1. /\ flush[f] = "writing" /\ rest' = [rest EXCEPT ![f] = <<>>]
        /\ flush' = [flush EXCEPT ![f] = "done"]
        /\ phase' = IF f = "forced" THEN "raised" ELSE phase
        /\ UNCHANGED <<emitted, buffer, issued, collected>>
    BY <1>7 DEF RecordFailed, written
  <2>2. rest' \in [Flushes -> Seq(Delivered)]
    BY <2>1, EmptySeq DEF PluginTyped
  <2>3. flush'["forced"] = "none" <=> phase' \in {"inactive", "active"}
    BY <2>1, TwoFlushes DEF PluginTyped
  <2> QED BY <2>1, <2>2, <2>3 DEF PluginTyped
<1>8. ASSUME NEW f \in Flushes, FlushCancelled(f) PROVE PluginTyped'
  <2>1. /\ flush[f] \in {"scheduled", "writing"} /\ rest' = [rest EXCEPT ![f] = <<>>]
        /\ flush' = [flush EXCEPT ![f] = "done"]
        /\ phase' = IF f = "forced" THEN "raised" ELSE phase
        /\ UNCHANGED <<emitted, buffer, collected>>
    BY <1>8 DEF FlushCancelled
  <2>2. rest' \in [Flushes -> Seq(Delivered)]
    BY <2>1, EmptySeq DEF PluginTyped
  <2>3. flush'["forced"] = "none" <=> phase' \in {"inactive", "active"}
    BY <2>1, TwoFlushes DEF PluginTyped
  <2>4. issued' \in Seq(Records)
    <3>1. CASE UNCHANGED issued
      BY <3>1 DEF PluginTyped
    <3>2. CASE rest[f] # <<>> /\ issued' = Append(issued, ToRecord(Head(rest[f])))
      <4>1. Head(rest[f]) \in Delivered /\ issued \in Seq(Records)
        BY <3>2, HeadTailProperties DEF PluginTyped
      <4> QED BY <3>2, <4>1, RecordIsWritten, AppendProperties
    <3> QED BY <1>8, <3>1, <3>2 DEF FlushCancelled
  <2> QED BY <2>1, <2>2, <2>3, <2>4 DEF PluginTyped
<1>9. ASSUME NEW i \in doubt, DoubtEnds(i) PROVE PluginTyped'
  BY <1>9 DEF DoubtEnds, subscriber, PluginTyped
<1> QED BY <1>1, <1>2, <1>3, <1>4, <1>5, <1>6, <1>7, <1>8, <1>9 DEF PluginNext

(***************************************************************************)
(* Observability: every event is in one place.                             *)
(***************************************************************************)
LEMMA IdsOf ==
  ASSUME NEW S, NEW s \in Seq(S)
  PROVE  /\ IsFiniteSet(EventIds(s)) /\ Cardinality(EventIds(s)) <= Len(s)
         /\ Len(s) \in Nat /\ Cardinality(EventIds(s)) \in Nat
<1> DEFINE h == [i \in 1..Len(s) |-> s[i].id]
<1>1. Len(s) \in Nat /\ DOMAIN s = 1..Len(s)
  BY LenProperties
<1>2. h \in Surjection(1..Len(s), EventIds(s))
  BY <1>1 DEF Surjection, EventIds
<1>3. IsFiniteSet(1..Len(s)) /\ Cardinality(1..Len(s)) = Len(s)
  BY <1>1, FS_Interval
<1> HIDE DEF h
<1>4. IsFiniteSet(EventIds(s)) /\ Cardinality(EventIds(s)) <= Len(s)
  BY <1>2, <1>3, FS_Surjection
<1> QED BY <1>1, <1>4, FS_CardinalityType

LEMMA NoIds == EventIds(<<>>) = {} /\ Len(<<>>) = 0
<1>1. DOMAIN <<>> = {}
  BY EmptySeq
<1> QED BY <1>1, EmptySeq DEF EventIds

LEMMA IdsAppend ==
  ASSUME NEW S, NEW s \in Seq(S), NEW e \in S
  PROVE  EventIds(Append(s, e)) = EventIds(s) \cup {e.id} /\ Len(Append(s, e)) = Len(s) + 1
<1>1. /\ Append(s, e) \in Seq(S) /\ Len(Append(s, e)) = Len(s) + 1 /\ Len(s) \in Nat
      /\ \A i \in 1..Len(s) : Append(s, e)[i] = s[i]
      /\ Append(s, e)[Len(s) + 1] = e
  BY AppendProperties, LenProperties
<1>2. DOMAIN s = 1..Len(s) /\ DOMAIN Append(s, e) = 1..Len(s) + 1
  BY <1>1, LenProperties
<1> QED BY <1>1, <1>2 DEF EventIds

LEMMA IdsHead ==
  ASSUME NEW S, NEW s \in Seq(S), s # <<>>
  PROVE  EventIds(s) = {Head(s).id} \cup EventIds(Tail(s)) /\ Len(s) = Len(Tail(s)) + 1
<1>1. /\ Head(s) = s[1] /\ Tail(s) \in Seq(S) /\ Len(Tail(s)) = Len(s) - 1
      /\ \A i \in 1..Len(Tail(s)) : Tail(s)[i] = s[i + 1]
      /\ Len(s) \in Nat \ {0}
  BY HeadTailProperties, EmptySeq, LenProperties
<1>2. DOMAIN s = 1..Len(s) /\ DOMAIN Tail(s) = 1..Len(s) - 1
  BY <1>1, LenProperties
<1>3. \A i \in 1..Len(s) : i = 1 \/ (i - 1 \in 1..Len(s) - 1 /\ s[i] = Tail(s)[i - 1])
  BY <1>1
<1>4. \A i \in 1..Len(s) - 1 : i + 1 \in 1..Len(s) /\ Tail(s)[i] = s[i + 1]
  BY <1>1
<1>5. ASSUME NEW n \in EventIds(s) PROVE n \in {Head(s).id} \cup EventIds(Tail(s))
  <2>1. PICK i \in 1..Len(s) : n = s[i].id
    BY <1>2 DEF EventIds
  <2>2. CASE i = 1
    BY <1>1, <2>1, <2>2
  <2>3. CASE i # 1
    BY <1>2, <1>3, <2>1, <2>3 DEF EventIds
  <2> QED BY <2>2, <2>3
<1>6. {Head(s).id} \cup EventIds(Tail(s)) \subseteq EventIds(s)
  BY <1>1, <1>2, <1>4 DEF EventIds
<1> QED BY <1>1, <1>5, <1>6

LEMMA UnionBound ==
  ASSUME NEW A, IsFiniteSet(A), NEW B, IsFiniteSet(B)
  PROVE  /\ IsFiniteSet(A \cup B)
         /\ Cardinality(A \cup B) <= Cardinality(A) + Cardinality(B)
         /\ Cardinality(A) \in Nat /\ Cardinality(B) \in Nat /\ Cardinality(A \cup B) \in Nat
<1>1. IsFiniteSet(A \cap B) /\ Cardinality(A \cap B) \in Nat
  BY FS_Subset, FS_CardinalityType
<1>2. /\ IsFiniteSet(A \cup B)
      /\ Cardinality(A \cup B) = Cardinality(A) + Cardinality(B) - Cardinality(A \cap B)
  BY FS_Union
<1> QED BY <1>1, <1>2, FS_CardinalityType

\* How many there are in the five places, and what moving some from one to another does.
Total(b, r, o, s, d) == b + r + o + s + d

LEMMA TotalSwaps ==
  ASSUME NEW b \in Nat, NEW r \in Nat, NEW o \in Nat, NEW s \in Nat, NEW d \in Nat
  PROVE  Total(b, r, o, s, d) = Total(b, o, r, s, d)
BY DEF Total

LEMMA TotalTaken ==
  ASSUME NEW b \in Nat, NEW r \in Nat, NEW o \in Nat, NEW s \in Nat, NEW d \in Nat
  PROVE  Total(0, b, o, s, d) = Total(b, 0, o, s, d)
BY DEF Total

LEMMA TotalEmitted ==
  ASSUME NEW b \in Nat, NEW r \in Nat, NEW o \in Nat, NEW s \in Nat, NEW d \in Nat,
         NEW m \in Nat, m = b + 1
  PROVE  Total(m, r, o, s, d) = Total(b, r, o, s, d) + 1
BY DEF Total

LEMMA TotalRecorded ==
  ASSUME NEW b \in Nat, NEW r \in Nat, NEW o \in Nat, NEW s \in Nat, NEW d \in Nat,
         NEW m \in Nat, m = s + 1, NEW n \in Nat, n = r + 1
  PROVE  Total(b, r, o, m, d) = Total(b, n, o, s, d)
BY DEF Total

LEMMA TotalDropped ==
  ASSUME NEW b \in Nat, NEW r \in Nat, NEW o \in Nat, NEW s \in Nat, NEW d \in Nat,
         NEW m \in Nat, m = r + d
  PROVE  Total(b, 0, o, s, m) = Total(b, r, o, s, d)
BY DEF Total

\* When four sequences and a set hold together as many events as their lengths and its
\* size say, the last of the sequences and the set share none.
LEMMA NothingShared ==
  ASSUME NEW v \in Seq(Delivered), NEW w \in Seq(Delivered), NEW x \in Seq(Records),
         NEW y \in Seq(Delivered), NEW D, IsFiniteSet(D),
         Cardinality(EventIds(v) \cup (EventIds(w) \cup (EventIds(x) \cup (EventIds(y) \cup D))))
           = Total(Len(v), Len(y), Len(w), Len(x), Cardinality(D))
  PROVE  Cardinality(EventIds(y) \cup D) = Len(y) + Cardinality(D)
<1> DEFINE A == EventIds(v)
           B == EventIds(w)
           C == EventIds(x)
           R == EventIds(y)
           a == Len(v)
           b == Len(w)
           c == Len(x)
           r == Len(y)
<1>0. /\ IsFiniteSet(A) /\ Cardinality(A) <= a /\ a \in Nat
      /\ IsFiniteSet(B) /\ Cardinality(B) <= b /\ b \in Nat
      /\ IsFiniteSet(C) /\ Cardinality(C) <= c /\ c \in Nat
      /\ IsFiniteSet(R) /\ Cardinality(R) <= r /\ r \in Nat
      /\ Cardinality(A \cup (B \cup (C \cup (R \cup D)))) = a + r + b + c + Cardinality(D)
  BY IdsOf DEF Total
<1> SUFFICES Cardinality(R \cup D) = r + Cardinality(D)
  OBVIOUS
<1> HIDE DEF A, B, C, R, a, b, c, r
<1> DEFINE RD == R \cup D
           CRD == C \cup RD
           BCRD == B \cup CRD
           all == A \cup BCRD
           rd == Cardinality(RD)
           crd == Cardinality(CRD)
           bcrd == Cardinality(BCRD)
           n == Cardinality(all)
           d == Cardinality(D)
<1>1. IsFiniteSet(RD) /\ rd <= Cardinality(R) + d /\ Cardinality(R) \in Nat /\ d \in Nat /\ rd \in Nat
  BY <1>0, UnionBound
<1>2. n = a + r + b + c + d
  BY <1>0
<1> HIDE DEF RD, rd, d
<1>3. IsFiniteSet(CRD) /\ crd <= Cardinality(C) + rd /\ Cardinality(C) \in Nat /\ crd \in Nat
  BY <1>0, <1>1, UnionBound DEF rd
<1> HIDE DEF CRD, crd
<1>4. IsFiniteSet(BCRD) /\ bcrd <= Cardinality(B) + crd /\ Cardinality(B) \in Nat /\ bcrd \in Nat
  BY <1>0, <1>3, UnionBound DEF crd
<1> HIDE DEF BCRD, bcrd
<1>5. n <= Cardinality(A) + bcrd /\ Cardinality(A) \in Nat /\ n \in Nat
  BY <1>0, <1>4, UnionBound DEF bcrd
<1> HIDE DEF all, n
<1>6. rd <= r + d /\ crd <= c + rd /\ bcrd <= b + crd /\ n <= a + bcrd
  <2> DEFINE ca == Cardinality(A)
             cb == Cardinality(B)
             cc == Cardinality(C)
             cr == Cardinality(R)
  <2>1. /\ ca \in Nat /\ ca <= a /\ n <= ca + bcrd /\ cb \in Nat /\ cb <= b /\ bcrd <= cb + crd
        /\ cc \in Nat /\ cc <= c /\ crd <= cc + rd /\ cr \in Nat /\ cr <= r /\ rd <= cr + d
        /\ a \in Nat /\ b \in Nat /\ c \in Nat /\ r \in Nat
        /\ n \in Nat /\ bcrd \in Nat /\ crd \in Nat /\ rd \in Nat /\ d \in Nat
    BY <1>0, <1>1, <1>3, <1>4, <1>5
  <2> HIDE DEF ca, cb, cc, cr
  <2> QED BY <2>1
<1>7. a \in Nat /\ b \in Nat /\ c \in Nat /\ r \in Nat
  BY <1>0
<1>8. rd = r + d
  BY <1>1, <1>2, <1>3, <1>4, <1>5, <1>6, <1>7
<1> QED BY <1>8 DEF rd, RD, d

\* n events, each in one of five places: the buffer b, a flush r, the other o, the
\* records x, the dropped D.
InPlaces(b, r, o, x, D, n) ==
  /\ b \in Seq(Delivered) /\ r \in Seq(Delivered) /\ o \in Seq(Delivered)
  /\ x \in Seq(Records) /\ IsFiniteSet(D) /\ n \in Nat
  /\ Total(Len(b), Len(r), Len(o), Len(x), Cardinality(D)) = n
  /\ EventIds(b) \cup (EventIds(o) \cup (EventIds(x) \cup (EventIds(r) \cup D))) = 1..n

\* The first event of a flush becomes a record.
LEMMA FirstIsIssued ==
  ASSUME NEW b, NEW r, NEW o, NEW x, NEW D, NEW n, InPlaces(b, r, o, x, D, n), r # <<>>
  PROVE  InPlaces(b, Tail(r), o, Append(x, ToRecord(Head(r))), D, n)
<1> DEFINE e == Head(r)
           t == Tail(r)
           y == Append(x, ToRecord(e))
<1>1. /\ b \in Seq(Delivered) /\ r \in Seq(Delivered) /\ o \in Seq(Delivered)
      /\ x \in Seq(Records) /\ IsFiniteSet(D) /\ n \in Nat
      /\ Total(Len(b), Len(r), Len(o), Len(x), Cardinality(D)) = n
      /\ EventIds(b) \cup (EventIds(o) \cup (EventIds(x) \cup (EventIds(r) \cup D))) = 1..n
  BY DEF InPlaces
<1>2. e \in Delivered /\ t \in Seq(Delivered)
  BY <1>1, HeadTailProperties
<1>3. ToRecord(e) \in Records /\ ToRecord(e).id = e.id
  BY <1>2, RecordIsWritten
<1>4. EventIds(r) = {e.id} \cup EventIds(t) /\ Len(r) = Len(t) + 1
  BY <1>1, IdsHead
<1>5. y \in Seq(Records) /\ EventIds(y) = EventIds(x) \cup {e.id} /\ Len(y) = Len(x) + 1
  BY <1>1, <1>3, IdsAppend, AppendProperties
<1> HIDE DEF e, t, y
<1>6. Total(Len(b), Len(t), Len(o), Len(y), Cardinality(D)) = n
  <2> DEFINE lb == Len(b)
             lr == Len(r)
             lt == Len(t)
             lo == Len(o)
             lx == Len(x)
             ly == Len(y)
             d  == Cardinality(D)
  <2>1. /\ lb \in Nat /\ lr \in Nat /\ lt \in Nat /\ lo \in Nat /\ lx \in Nat /\ ly \in Nat /\ d \in Nat
        /\ lr = lt + 1 /\ ly = lx + 1 /\ Total(lb, lr, lo, lx, d) = n
    BY <1>1, <1>2, <1>4, <1>5, LenProperties, FS_CardinalityType
  <2> HIDE DEF lb, lr, lt, lo, lx, ly, d
  <2>2. Total(lb, lt, lo, ly, d) = n
    BY <2>1, TotalRecorded
  <2> QED BY <2>2 DEF lb, lt, lo, ly, d
<1>7. EventIds(b) \cup (EventIds(o) \cup (EventIds(y) \cup (EventIds(t) \cup D))) = 1..n
  BY <1>1, <1>4, <1>5
<1>8. InPlaces(b, t, o, y, D, n)
  BY <1>1, <1>2, <1>5, <1>6, <1>7 DEF InPlaces
<1> QED BY <1>8 DEF e, t, y

\* What a flush holds is dropped; none of it was dropped before.
LEMMA RestIsDropped ==
  ASSUME NEW b, NEW r, NEW o, NEW x, NEW D, NEW n, InPlaces(b, r, o, x, D, n)
  PROVE  InPlaces(b, <<>>, o, x, D \cup EventIds(r), n)
<1> DEFINE E == D \cup EventIds(r)
<1>1. /\ b \in Seq(Delivered) /\ r \in Seq(Delivered) /\ o \in Seq(Delivered)
      /\ x \in Seq(Records) /\ IsFiniteSet(D) /\ n \in Nat
      /\ Total(Len(b), Len(r), Len(o), Len(x), Cardinality(D)) = n
      /\ EventIds(b) \cup (EventIds(o) \cup (EventIds(x) \cup (EventIds(r) \cup D))) = 1..n
  BY DEF InPlaces
<1>2. Cardinality(1..n) = n
  BY <1>1, FS_Interval
<1>3. Cardinality(EventIds(r) \cup D) = Len(r) + Cardinality(D)
  <2>1. Cardinality(EventIds(b) \cup (EventIds(o) \cup (EventIds(x) \cup (EventIds(r) \cup D))))
          = Total(Len(b), Len(r), Len(o), Len(x), Cardinality(D))
    BY <1>1, <1>2
  <2> QED BY <1>1, <2>1, NothingShared
<1>4. E = EventIds(r) \cup D /\ IsFiniteSet(E)
  <2>1. E = EventIds(r) \cup D
    OBVIOUS
  <2>2. IsFiniteSet(EventIds(r))
    BY <1>1, IdsOf
  <2> QED BY <1>1, <2>1, <2>2, FS_Union
<1> HIDE DEF E
<1>5. Total(Len(b), 0, Len(o), Len(x), Cardinality(E)) = n
  <2> DEFINE lb == Len(b)
             lr == Len(r)
             lo == Len(o)
             lx == Len(x)
             d  == Cardinality(D)
             m  == Cardinality(E)
  <2>1. /\ lb \in Nat /\ lr \in Nat /\ lo \in Nat /\ lx \in Nat /\ d \in Nat /\ m \in Nat
        /\ m = lr + d /\ Total(lb, lr, lo, lx, d) = n
    BY <1>1, <1>3, <1>4, LenProperties, FS_CardinalityType
  <2> HIDE DEF lb, lr, lo, lx, d, m
  <2>2. Total(lb, 0, lo, lx, m) = n
    BY <2>1, TotalDropped
  <2> QED BY <2>2 DEF lb, lo, lx, m
<1>6. EventIds(b) \cup (EventIds(o) \cup (EventIds(x) \cup (EventIds(<<>>) \cup E))) = 1..n
  BY <1>1, <1>4, NoIds
<1>7. <<>> \in Seq(Delivered) /\ Len(<<>>) = 0
  BY EmptySeq
<1>8. InPlaces(b, <<>>, o, x, E, n)
  BY <1>1, <1>4, <1>5, <1>6, <1>7 DEF InPlaces
<1> QED BY <1>8 DEF E

\* The state, seen from one of the flushes.
Other(f) == IF f = "task" THEN "forced" ELSE "task"

Placed(f) == InPlaces(buffer, rest[f], rest[Other(f)], issued, dropped, emitted)

\* Only of an event that was issued the row can be in doubt or lost.
UncertainInv == doubt \cup lost \subseteq EventIds(issued)

ConservedInv == PluginTyped /\ IsFiniteSet(dropped) /\ EventsConserved

LEMMA OtherFlush ==
  ASSUME NEW f \in Flushes
  PROVE  Other(f) \in Flushes \ {f} /\ \A g \in Flushes : g = f \/ g = Other(f)
BY DEF Other, Flushes

LEMMA PlacesAreNat ==
  ASSUME PluginTyped, IsFiniteSet(dropped), NEW f \in Flushes
  PROVE  /\ Len(buffer) \in Nat /\ Len(rest[f]) \in Nat /\ Len(rest[Other(f)]) \in Nat
         /\ Len(issued) \in Nat /\ Cardinality(dropped) \in Nat /\ emitted \in Nat
BY OtherFlush, LenProperties, FS_CardinalityType DEF PluginTyped

LEMMA EitherWay ==
  ASSUME NEW B, NEW T, NEW F, NEW S, NEW D
  PROVE  /\ B \cup T \cup F \cup S \cup D = B \cup (F \cup (S \cup (T \cup D)))
         /\ B \cup T \cup F \cup S \cup D = B \cup (T \cup (S \cup (F \cup D)))
OBVIOUS

LEMMA PlacedFrom ==
  ASSUME PluginTyped, IsFiniteSet(dropped), NEW f \in Flushes
  PROVE  EventsConserved <=> Placed(f) /\ UncertainInv
<1> DEFINE n == Total(Len(buffer), Len(rest["task"]), Len(rest["forced"]), Len(issued),
                      Cardinality(dropped))
<1>1. /\ Len(buffer) \in Nat /\ Len(rest["task"]) \in Nat /\ Len(rest["forced"]) \in Nat
      /\ Len(issued) \in Nat /\ Cardinality(dropped) \in Nat
  BY PlacesAreNat, TwoFlushes DEF Other
<1>2. n = Len(buffer) + Len(rest["task"]) + Len(rest["forced"]) + Len(issued) + Cardinality(dropped)
  BY DEF Total
<1>3. n = Total(Len(buffer), Len(rest["forced"]), Len(rest["task"]), Len(issued),
                Cardinality(dropped))
  BY <1>1, TotalSwaps
<1>4. /\ buffer \in Seq(Delivered) /\ rest["task"] \in Seq(Delivered)
      /\ rest["forced"] \in Seq(Delivered) /\ issued \in Seq(Records) /\ emitted \in Nat
  BY TwoFlushes DEF PluginTyped
<1> HIDE DEF n
<1>5. CASE f = "task"
  BY <1>2, <1>4, <1>5, EitherWay DEF EventsConserved, UncertainInv, Placed, InPlaces, Other, n
<1>6. CASE f = "forced"
  BY <1>2, <1>3, <1>4, <1>6, EitherWay DEF EventsConserved, UncertainInv, Placed, InPlaces, Other
<1> QED BY <1>5, <1>6, TwoFlushes

LEMMA PlacedFromNext ==
  ASSUME PluginTyped', NEW f \in Flushes, Placed(f)', UncertainInv'
  PROVE  ConservedInv'
<1> DEFINE n == Total(Len(buffer'), Len(rest'["task"]), Len(rest'["forced"]), Len(issued'),
                      Cardinality(dropped'))
<1>0. /\ rest' \in [Flushes -> Seq(Delivered)] /\ buffer' \in Seq(Delivered)
      /\ issued' \in Seq(Records) /\ IsFiniteSet(dropped') /\ Cardinality(dropped') \in Nat
  BY FS_CardinalityType DEF PluginTyped, Placed, InPlaces
<1>1. /\ Len(buffer') \in Nat /\ Len(rest'["task"]) \in Nat /\ Len(rest'["forced"]) \in Nat
      /\ Len(issued') \in Nat /\ Cardinality(dropped') \in Nat
  BY <1>0, LenProperties, TwoFlushes
<1>2. n = Len(buffer') + Len(rest'["task"]) + Len(rest'["forced"]) + Len(issued')
            + Cardinality(dropped')
  BY DEF Total
<1>3. n = Total(Len(buffer'), Len(rest'["forced"]), Len(rest'["task"]), Len(issued'),
                Cardinality(dropped'))
  BY <1>1, TotalSwaps
<1> HIDE DEF n
<1>4. EventsConserved'
  <2>1. CASE f = "task"
    BY <1>2, <2>1, EitherWay DEF EventsConserved, UncertainInv, Placed, InPlaces, Other, n
  <2>2. CASE f = "forced"
    BY <1>2, <1>3, <2>2, EitherWay DEF EventsConserved, UncertainInv, Placed, InPlaces, Other
  <2> QED BY <2>1, <2>2, TwoFlushes
<1> QED BY <1>0, <1>4 DEF ConservedInv

LEMMA InitConserved == PluginInit => ConservedInv
<1> SUFFICES ASSUME PluginInit PROVE ConservedInv
  OBVIOUS
<1>1. /\ buffer = <<>> /\ rest["task"] = <<>> /\ rest["forced"] = <<>> /\ issued = <<>>
      /\ dropped = {} /\ doubt = {} /\ lost = {} /\ emitted = 0
  BY TwoFlushes DEF PluginInit
<1>2. IsFiniteSet({}) /\ Cardinality({}) = 0 /\ 1..0 = {}
  BY FS_EmptySet
<1>3. EventsConserved
  BY <1>1, <1>2, NoIds DEF EventsConserved
<1> QED BY <1>1, <1>2, <1>3, InitPluginTyped DEF ConservedInv

\* A flush holds nothing until it takes the buffer, which then holds nothing.
LEMMA UnionTaken ==
  ASSUME NEW B, NEW O, NEW X, NEW D, NEW N, B \cup (O \cup (X \cup ({} \cup D))) = N
  PROVE  {} \cup (O \cup (X \cup (B \cup D))) = N
OBVIOUS

\* A flush takes what the buffer holds.
LEMMA TakeConserved ==
  ASSUME ConservedInv, PluginTyped', NEW f \in Flushes, flush[f] # "writing", Take(f),
         UNCHANGED <<emitted, dropped>>
  PROVE  ConservedInv'
<1>1. /\ rest' = [rest EXCEPT ![f] = buffer] /\ buffer' = <<>>
      /\ UNCHANGED <<issued, doubt, lost>>
      /\ rest[f] = <<>>
  BY DEF Take, written, ConservedInv, PluginTyped
<1>2. Placed(f) /\ PluginTyped /\ IsFiniteSet(dropped) /\ UncertainInv
  BY PlacedFrom DEF ConservedInv
<1>3. /\ rest'[f] = buffer /\ rest'[Other(f)] = rest[Other(f)]
      /\ rest[f] = <<>>
  BY <1>1, <1>2, OtherFlush DEF PluginTyped
<1>4. /\ Len(buffer) \in Nat /\ Len(rest[Other(f)]) \in Nat
      /\ Len(issued) \in Nat /\ Cardinality(dropped) \in Nat
  BY <1>2, PlacesAreNat
<1>5. /\ Len(buffer') = 0 /\ Len(rest[f]) = 0 /\ EventIds(buffer') = {} /\ EventIds(rest[f]) = {}
      /\ buffer' \in Seq(Delivered)
  BY <1>1, NoIds, EmptySeq
<1>6. Total(Len(buffer'), Len(rest'[f]), Len(rest'[Other(f)]), Len(issued'), Cardinality(dropped'))
        = emitted'
  <2>1. /\ Len(buffer') = 0 /\ Len(rest'[f]) = Len(buffer)
        /\ Len(rest'[Other(f)]) = Len(rest[Other(f)])
        /\ Len(issued') = Len(issued) /\ Cardinality(dropped') = Cardinality(dropped)
        /\ emitted' = emitted
    BY <1>1, <1>3, <1>5
  <2>2. Total(Len(buffer), Len(rest[f]), Len(rest[Other(f)]), Len(issued), Cardinality(dropped))
          = emitted
    BY <1>2 DEF Placed, InPlaces
  <2>3. Total(0, Len(buffer), Len(rest[Other(f)]), Len(issued), Cardinality(dropped))
          = Total(Len(buffer), 0, Len(rest[Other(f)]), Len(issued), Cardinality(dropped))
    BY <1>4, TotalTaken
  <2> QED BY <2>1, <2>2, <2>3, <1>5
<1>7. EventIds(buffer') \cup (EventIds(rest'[Other(f)]) \cup (EventIds(issued') \cup (EventIds(rest'[f]) \cup dropped')))
        = 1..emitted'
  <2>1. /\ EventIds(buffer') = {} /\ EventIds(rest'[f]) = EventIds(buffer)
        /\ EventIds(rest'[Other(f)]) = EventIds(rest[Other(f)])
        /\ EventIds(issued') = EventIds(issued) /\ dropped' = dropped /\ emitted' = emitted
    BY <1>1, <1>3, <1>5
  <2>2. EventIds(buffer) \cup (EventIds(rest[Other(f)]) \cup (EventIds(issued)
          \cup (EventIds(rest[f]) \cup dropped))) = 1..emitted
    BY <1>2 DEF Placed, InPlaces
  <2>3. EventIds(rest[f]) = {}
    BY <1>5
  <2> QED BY <2>1, <2>2, <2>3, UnionTaken
<1>8. InPlaces(buffer', rest'[f], rest'[Other(f)], issued', dropped', emitted')
  BY <1>1, <1>2, <1>3, <1>5, <1>6, <1>7 DEF Placed, InPlaces
<1>9. Placed(f)' /\ UncertainInv'
  BY <1>1, <1>2, <1>8 DEF Placed, Other, UncertainInv
<1> QED BY <1>9, PlacedFromNext

LEMMA EmitConserved ==
  ASSUME ConservedInv, PluginTyped', NEW k \in Kinds, Emit(k)
  PROVE  ConservedInv'
<1> DEFINE e == [id |-> emitted + 1, kind |-> k]
           f == "task"
<1>1. /\ buffer' = Append(buffer, e) /\ emitted' = emitted + 1
      /\ UNCHANGED <<rest, issued, doubt, lost, dropped>>
  BY DEF Emit, written
<1>2. f \in Flushes /\ Placed(f) /\ PluginTyped /\ IsFiniteSet(dropped) /\ UncertainInv
  BY PlacedFrom, TwoFlushes DEF ConservedInv
<1>3. e \in Delivered /\ e.id = emitted + 1 /\ buffer \in Seq(Delivered)
  BY <1>2 DEF PluginTyped, Delivered
<1> HIDE DEF e, f
<1>4. /\ Len(buffer) \in Nat /\ Len(rest[f]) \in Nat /\ Len(rest[Other(f)]) \in Nat
      /\ Len(issued) \in Nat /\ Cardinality(dropped) \in Nat /\ emitted \in Nat
  BY <1>2, PlacesAreNat
<1>5. /\ EventIds(buffer') = EventIds(buffer) \cup {emitted + 1} /\ Len(buffer') = Len(buffer) + 1
      /\ buffer' \in Seq(Delivered)
  BY <1>1, <1>3, IdsAppend, AppendProperties
<1>6. Total(Len(buffer'), Len(rest'[f]), Len(rest'[Other(f)]), Len(issued'), Cardinality(dropped'))
        = emitted'
  <2>1. Total(Len(buffer'), Len(rest[f]), Len(rest[Other(f)]), Len(issued), Cardinality(dropped))
          = Total(Len(buffer), Len(rest[f]), Len(rest[Other(f)]), Len(issued), Cardinality(dropped)) + 1
    <3> DEFINE r == Len(rest[f])
               o == Len(rest[Other(f)])
    <3>1. r \in Nat /\ o \in Nat /\ Len(buffer') \in Nat
      BY <1>4, <1>5
    <3> HIDE DEF r, o
    <3>2. Total(Len(buffer'), r, o, Len(issued), Cardinality(dropped))
            = Total(Len(buffer), r, o, Len(issued), Cardinality(dropped)) + 1
      BY <1>4, <1>5, <3>1, TotalEmitted
    <3> QED BY <3>2 DEF r, o
  <2> QED BY <1>1, <1>2, <1>5, <2>1 DEF Placed, InPlaces
<1>7. 1..emitted + 1 = (1..emitted) \cup {emitted + 1}
  BY <1>4
<1>8. EventIds(buffer') \cup (EventIds(rest'[Other(f)]) \cup (EventIds(issued') \cup (EventIds(rest'[f]) \cup dropped')))
        = 1..emitted'
  BY <1>1, <1>2, <1>5, <1>7 DEF Placed, InPlaces
<1>9. InPlaces(buffer', rest'[f], rest'[Other(f)], issued', dropped', emitted')
  BY <1>1, <1>2, <1>4, <1>5, <1>6, <1>8 DEF Placed, InPlaces
<1>10. Placed(f)' /\ UncertainInv'
  BY <1>1, <1>2, <1>9 DEF Placed, Other, UncertainInv, f
<1> QED BY <1>2, <1>10, PlacedFromNext

\* A flush issues the first of the events it holds.
LEMMA RecordedConserved ==
  ASSUME ConservedInv, PluginTyped', NEW f \in Flushes, Recorded(f)
  PROVE  ConservedInv'
<1>1. /\ flush[f] = "writing" /\ rest' = [rest EXCEPT ![f] = Tail(@)]
      /\ issued' = Append(issued, ToRecord(Head(rest[f])))
      /\ UNCHANGED <<emitted, buffer, doubt, lost, dropped>>
  BY DEF Recorded
<1>2. Placed(f) /\ PluginTyped /\ UncertainInv
  BY PlacedFrom DEF ConservedInv
<1>3. /\ rest'[f] = Tail(rest[f]) /\ rest'[Other(f)] = rest[Other(f)] /\ rest[f] # <<>>
      /\ rest[f] \in Seq(Delivered) /\ issued \in Seq(Records)
  BY <1>1, <1>2, OtherFlush DEF PluginTyped
<1>4. InPlaces(buffer, Tail(rest[f]), rest[Other(f)], issued', dropped, emitted)
  BY <1>1, <1>2, <1>3, FirstIsIssued DEF Placed
<1>5. EventIds(issued') = EventIds(issued) \cup {Head(rest[f]).id}
  BY <1>1, <1>3, HeadTailProperties, RecordIsWritten, IdsAppend
<1>6. Placed(f)' /\ UncertainInv'
  BY <1>1, <1>2, <1>3, <1>4, <1>5 DEF Placed, Other, UncertainInv
<1> QED BY <1>6, PlacedFromNext

\* A flush that failed drops what it still held, and nothing that was dropped before.
LEMMA FailedConserved ==
  ASSUME ConservedInv, PluginTyped', NEW f \in Flushes, RecordFailed(f)
  PROVE  ConservedInv'
<1>1. /\ rest' = [rest EXCEPT ![f] = <<>>] /\ dropped' = dropped \cup EventIds(rest[f])
      /\ UNCHANGED <<emitted, buffer, issued, doubt, lost>>
  BY DEF RecordFailed, written
<1>2. Placed(f) /\ PluginTyped /\ UncertainInv
  BY PlacedFrom DEF ConservedInv
<1>3. rest'[f] = <<>> /\ rest'[Other(f)] = rest[Other(f)]
  BY <1>1, <1>2, OtherFlush DEF PluginTyped
<1>4. InPlaces(buffer, <<>>, rest[Other(f)], issued, dropped', emitted)
  BY <1>1, <1>2, RestIsDropped DEF Placed
<1>5. Placed(f)' /\ UncertainInv'
  BY <1>1, <1>2, <1>3, <1>4 DEF Placed, Other, UncertainInv
<1> QED BY <1>5, PlacedFromNext

\* One that was cancelled drops it too, but for the record it may have issued.
LEMMA CancelledConserved ==
  ASSUME ConservedInv, PluginTyped', NEW f \in Flushes, FlushCancelled(f)
  PROVE  ConservedInv'
<1>1. rest' = [rest EXCEPT ![f] = <<>>] /\ UNCHANGED <<emitted, buffer, lost>>
  BY DEF FlushCancelled
<1>2. Placed(f) /\ PluginTyped /\ UncertainInv
  BY PlacedFrom DEF ConservedInv
<1>3. /\ rest'[f] = <<>> /\ rest'[Other(f)] = rest[Other(f)]
      /\ rest[f] \in Seq(Delivered) /\ issued \in Seq(Records)
  BY <1>1, <1>2, OtherFlush DEF PluginTyped
<1>4. CASE dropped' = dropped \cup EventIds(rest[f]) /\ UNCHANGED <<issued, doubt>>
  <2>1. InPlaces(buffer, <<>>, rest[Other(f)], issued, dropped', emitted)
    BY <1>2, <1>4, RestIsDropped DEF Placed
  <2>2. Placed(f)' /\ UncertainInv'
    BY <1>1, <1>2, <1>3, <1>4, <2>1 DEF Placed, Other, UncertainInv
  <2> QED BY <2>2, PlacedFromNext
<1>5. CASE /\ rest[f] # <<>> /\ issued' = Append(issued, ToRecord(Head(rest[f])))
           /\ doubt' = doubt \cup {Head(rest[f]).id}
           /\ dropped' = dropped \cup EventIds(Tail(rest[f]))
  <2>1. InPlaces(buffer, Tail(rest[f]), rest[Other(f)], issued', dropped, emitted)
    BY <1>2, <1>5, FirstIsIssued DEF Placed
  <2>2. InPlaces(buffer, <<>>, rest[Other(f)], issued', dropped', emitted)
    BY <1>5, <2>1, RestIsDropped
  <2>3. EventIds(issued') = EventIds(issued) \cup {Head(rest[f]).id}
    BY <1>3, <1>5, HeadTailProperties, RecordIsWritten, IdsAppend
  <2>4. Placed(f)' /\ UncertainInv'
    BY <1>1, <1>2, <1>3, <1>5, <2>2, <2>3 DEF Placed, Other, UncertainInv
  <2> QED BY <2>4, PlacedFromNext
<1> QED BY <1>4, <1>5 DEF FlushCancelled

LEMMA StepConserved == ConservedInv /\ [PluginNext]_plugin => ConservedInv'
<1> SUFFICES ASSUME ConservedInv, [PluginNext]_plugin PROVE ConservedInv'
  OBVIOUS
<1>0. PluginTyped /\ PluginTyped'
  BY StepPluginTyped DEF ConservedInv
<1>1. CASE UNCHANGED plugin \/ Activate
  <2>1. UNCHANGED <<emitted, buffer, rest, issued, doubt, lost, dropped>>
    BY <1>1 DEF plugin, subscriber, written, Activate
  <2> QED BY <1>0, <2>1 DEF ConservedInv, EventsConserved, EventIds
<1>2. CASE StartFlush
  BY <1>0, <1>2, TakeConserved, TwoFlushes DEF StartFlush
<1>3. CASE Deactivate
  BY <1>0, <1>3, TakeConserved, TwoFlushes DEF Deactivate, PluginTyped
<1>4. ASSUME NEW k \in Kinds, Emit(k) PROVE ConservedInv'
  BY <1>0, <1>4, EmitConserved
<1>5. ASSUME NEW f \in Flushes, Recorded(f) \/ RecordFailed(f) \/ FlushCancelled(f)
      PROVE  ConservedInv'
  BY <1>0, <1>5, RecordedConserved, FailedConserved, CancelledConserved
<1>6. ASSUME NEW i \in doubt, DoubtEnds(i) PROVE ConservedInv'
  <2>1. /\ UNCHANGED <<emitted, buffer, rest, issued, dropped>>
        /\ doubt' \cup lost' \subseteq doubt \cup lost
    BY <1>6 DEF DoubtEnds, subscriber
  <2> QED BY <1>0, <2>1 DEF ConservedInv, EventsConserved, EventIds
<1> QED BY <1>1, <1>2, <1>3, <1>4, <1>5, <1>6 DEF PluginNext

\* Every event NeMo Relay delivered is in exactly one place, once, whatever the two
\* flushes do, whichever of their writes fail and wherever they are cancelled.
\* Code: subscribers.py on_event, _flush.
THEOREM NoEventLostOrDoubled == PluginSpec => []EventsConserved
<1>1. ConservedInv => EventsConserved
  BY DEF ConservedInv
<1> QED BY InitConserved, StepConserved, <1>1, PTL DEF PluginSpec

(***************************************************************************)
(* Observability: what the loop of build_atif_trajectory makes of a list.  *)
(***************************************************************************)
\* A function over the sets of places of a list that makes the steps of the last one
\* after those of the others: what the fold computes with.
Folds(rs, D, g) ==
  g = [s \in SUBSET D |-> IF s = {} THEN <<>> ELSE AddStep(g[s \ {Max(s)}], rs[Max(s)])]

LEMMA LastOf ==
  ASSUME NEW n \in Nat, NEW s \in SUBSET (1..n), s # {}
  PROVE  Max(s) \in s /\ \A i \in s : i <= Max(s)
<1>1. IsFiniteSet(1..n)
  BY FS_Interval
<1>2. IsFiniteSet(s)
  BY <1>1, FS_Subset
<1>3. s \subseteq Int
  OBVIOUS
<1> QED BY <1>2, <1>3, Greatest

\* There is one for every length: induction over the length, as a least counterexample.
LEMMA FoldExists ==
  ASSUME NEW rs, NEW n \in Nat
  PROVE  \E g : Folds(rs, 1..n, g)
<1> DEFINE Bad == {k \in Nat : \A g : ~Folds(rs, 1..k, g)}
<1> SUFFICES ASSUME Bad # {} PROVE FALSE
  OBVIOUS
<1>1. PICK k \in Bad : \A j \in Bad : k <= j
  <2>1. Bad \in SUBSET Nat
    OBVIOUS
  <2> HIDE DEF Bad
  <2> QED BY <2>1, Least
<1>2. k # 0
  <2> SUFFICES ASSUME k = 0 PROVE FALSE
    OBVIOUS
  <2> DEFINE g == [s \in SUBSET {} |-> <<>>]
  <2>1. 1..k = {}
    OBVIOUS
  <2>2. \A s \in SUBSET {} : s = {}
    OBVIOUS
  <2>3. g = [s \in SUBSET {} |-> IF s = {} THEN <<>> ELSE AddStep(g[s \ {Max(s)}], rs[Max(s)])]
    BY <2>2
  <2>4. Folds(rs, 1..k, g)
    BY <2>1, <2>3 DEF Folds
  <2> QED BY <2>4
<1>3. k - 1 \in Nat /\ k \in Nat
  BY <1>2
<1>4. k - 1 \notin Bad
  BY <1>1, <1>3
<1>5. PICK h : Folds(rs, 1..k - 1, h)
  BY <1>3, <1>4
<1> DEFINE g == [s \in SUBSET (1..k) |-> IF k \in s THEN AddStep(h[s \ {k}], rs[k]) ELSE h[s]]
<1>6. ASSUME NEW s \in SUBSET (1..k), s # {}
      PROVE  g[s] = AddStep(g[s \ {Max(s)}], rs[Max(s)])
  <2>1. Max(s) \in s /\ \A i \in s : i <= Max(s)
    BY <1>3, <1>6, LastOf
  <2>2. CASE k \in s
    <3>1. Max(s) = k
      <4>1. Max(s) \in 1..k /\ k <= Max(s)
        BY <2>1, <2>2
      <4> QED BY <1>3, <4>1
    <3> QED BY <2>2, <3>1
  <2>3. CASE k \notin s
    <3>1. s \in SUBSET (1..k - 1)
      BY <1>3, <2>3
    <3>2. h[s] = AddStep(h[s \ {Max(s)}], rs[Max(s)])
      BY <1>5, <1>6, <3>1 DEF Folds
    <3> QED BY <2>3, <3>2
  <2> QED BY <2>2, <2>3
<1>7. g[{}] = <<>>
  <2>1. h[{}] = <<>>
    BY <1>5 DEF Folds
  <2> QED BY <2>1
<1>8. \A s \in SUBSET (1..k) :
        g[s] = IF s = {} THEN <<>> ELSE AddStep(g[s \ {Max(s)}], rs[Max(s)])
  <2> HIDE DEF g
  <2> QED BY <1>6, <1>7
<1>9. Folds(rs, 1..k, g)
  <2>1. g = [s \in SUBSET (1..k) |-> g[s]]
    OBVIOUS
  <2> HIDE DEF g
  <2> QED BY <1>8, <2>1 DEF Folds
<1> QED BY <1>1, <1>9

\* The steps after each turn of the loop.
LEMMA TrajectoryByTurns ==
  ASSUME NEW rs, NEW n \in Nat, DOMAIN rs = 1..n
  PROVE  \E T : /\ T[0] = <<>> /\ T[n] = Trajectory(rs)
                /\ \A i \in 1..n : T[i] = AddStep(T[i - 1], rs[i])
<1> DEFINE iter == CHOOSE g : Folds(rs, 1..n, g)
           T == [i \in 0..n |-> iter[1..i]]
<1>1. Trajectory(rs) = iter[1..n]
  BY DEF Trajectory, FoldLeft, MapThenFoldSet, Folds
<1>2. Folds(rs, 1..n, iter)
  BY FoldExists
<1> HIDE DEF iter
<1>3. \A s \in SUBSET (1..n) :
        iter[s] = IF s = {} THEN <<>> ELSE AddStep(iter[s \ {Max(s)}], rs[Max(s)])
  BY <1>2 DEF Folds
<1>4. ASSUME NEW i \in 1..n PROVE T[i] = AddStep(T[i - 1], rs[i])
  <2>1. 1..i \in SUBSET (1..n) /\ 1..i # {} /\ i \in 1..i /\ (1..i) \ {i} = 1..i - 1
    <3>1. i \in Nat /\ i >= 1 /\ i <= n
      OBVIOUS
    <3>2. \A j \in 1..i : j \in 1..n
      BY <3>1
    <3>3. \A j \in Int : j \in (1..i) \ {i} <=> j \in 1..i - 1
      BY <3>1
    <3> QED BY <3>1, <3>2, <3>3
  <2>2. Max(1..i) \in 1..i /\ i <= Max(1..i)
    BY <2>1, LastOf
  <2>3. Max(1..i) = i
    BY <2>2
  <2>4. iter[1..i] = AddStep(iter[1..i - 1], rs[i])
    BY <1>3, <2>1, <2>3
  <2> QED BY <2>4
<1>5. T[0] = <<>>
  <2>1. 1..0 = {} /\ {} \in SUBSET (1..n)
    OBVIOUS
  <2>2. iter[1..0] = <<>>
    BY <1>3, <2>1
  <2> QED BY <2>2
<1>6. T[n] = Trajectory(rs)
  BY <1>1
<1> HIDE DEF T
<1> QED BY <1>4, <1>5, <1>6

\* The records that make a step, and the step each of them makes.
Places(rs, k) == {i \in 1..k : rs[i].type \in DOMAIN StepOf}
StepFor(r)    == [id |-> r.id, step |-> StepOf[r.type]]

LEMMA PlacesGrow ==
  ASSUME NEW rs, NEW k \in Nat \ {0}
  PROVE  /\ Places(rs, k) = IF rs[k].type \in DOMAIN StepOf THEN Places(rs, k - 1) \cup {k}
                                                           ELSE Places(rs, k - 1)
         /\ k \notin Places(rs, k - 1)
         /\ IsFiniteSet(Places(rs, k - 1)) /\ Cardinality(Places(rs, k - 1)) \in Nat
<1>1. \A i \in Int : i \in 1..k <=> i \in 1..k - 1 \/ i = k
  OBVIOUS
<1>2. Places(rs, k) \subseteq Int /\ Places(rs, k - 1) \subseteq Int /\ k \in Int
  BY DEF Places
<1>3. \A i \in Int : i \in Places(rs, k) <=>
        i \in Places(rs, k - 1) \/ (i = k /\ rs[k].type \in DOMAIN StepOf)
  BY <1>1 DEF Places
<1>4. k \notin Places(rs, k - 1)
  BY DEF Places
<1>5. IsFiniteSet(1..k - 1)
  BY FS_Interval
<1>6. IsFiniteSet(Places(rs, k - 1))
  <2>1. Places(rs, k - 1) \in SUBSET (1..k - 1)
    BY DEF Places
  <2> QED BY <1>5, <2>1, FS_Subset
<1> QED BY <1>2, <1>3, <1>4, <1>6, FS_CardinalityType

\* A trajectory has one step for every record that makes one.
LEMMA TrajectoryHas ==
  ASSUME NEW rs, NEW n \in Nat, DOMAIN rs = 1..n
  PROVE  /\ ToSet(Trajectory(rs)) = {StepFor(rs[i]) : i \in Places(rs, n)}
         /\ Len(Trajectory(rs)) = Cardinality(Places(rs, n))
<1>1. PICK T : /\ T[0] = <<>> /\ T[n] = Trajectory(rs)
               /\ \A i \in 1..n : T[i] = AddStep(T[i - 1], rs[i])
  BY TrajectoryByTurns
<1> DEFINE S == {StepFor(rs[i]) : i \in 1..n}
           Good(k) == /\ T[k] \in Seq(S)
                      /\ ToSet(T[k]) = {StepFor(rs[i]) : i \in Places(rs, k)}
                      /\ Len(T[k]) = Cardinality(Places(rs, k))
           Bad == {k \in 0..n : ~Good(k)}
<1> SUFFICES ASSUME Bad # {} PROVE FALSE
  <2> SUFFICES ASSUME Bad = {}
               PROVE  /\ ToSet(Trajectory(rs)) = {StepFor(rs[i]) : i \in Places(rs, n)}
                      /\ Len(Trajectory(rs)) = Cardinality(Places(rs, n))
    OBVIOUS
  <2>1. n \in 0..n
    OBVIOUS
  <2>2. Good(n)
    <3> SUFFICES ASSUME ~Good(n) PROVE n \in Bad
      OBVIOUS
    <3> HIDE DEF Good
    <3> QED BY <2>1
  <2> HIDE DEF Bad
  <2> QED BY <1>1, <2>2
<1>2. PICK k \in Bad : \A j \in Bad : k <= j
  <2>1. Bad \in SUBSET Nat
    OBVIOUS
  <2> HIDE DEF Bad
  <2> QED BY <2>1, Least
<1> HIDE DEF S
<1>3. Good(0)
  <2>1. Places(rs, 0) = {}
    BY DEF Places
  <2>2. DOMAIN <<>> = {} /\ Len(<<>>) = 0 /\ <<>> \in Seq(S)
    BY EmptySeq
  <2>3. Cardinality({}) = 0
    BY FS_EmptySet
  <2> QED BY <1>1, <2>1, <2>2, <2>3 DEF ToSet
<1>4. k \in 1..n /\ k - 1 \in 0..n /\ k \in Nat \ {0}
  BY <1>2, <1>3
<1>5. Good(k - 1)
  <2>1. k - 1 \notin Bad
    <3> HIDE DEF Bad
    <3>1. ~(k <= k - 1)
      BY <1>4
    <3> QED BY <1>2, <3>1
  <2> QED BY <1>4, <2>1
<1>6. T[k] = AddStep(T[k - 1], rs[k]) /\ StepFor(rs[k]) \in S
  BY <1>1, <1>4 DEF S
<1>7. CASE rs[k].type \in DOMAIN StepOf
  <2> DEFINE x == StepFor(rs[k])
             v == T[k - 1]
  <2>1. T[k] = Append(v, x)
    BY <1>6, <1>7 DEF AddStep, StepFor
  <2>2. /\ Places(rs, k) = Places(rs, k - 1) \cup {k} /\ k \notin Places(rs, k - 1)
        /\ IsFiniteSet(Places(rs, k - 1))
    BY <1>4, <1>7, PlacesGrow
  <2>3. Cardinality(Places(rs, k)) = Cardinality(Places(rs, k - 1)) + 1
    BY <2>2, FS_AddElement
  <2>4. v \in Seq(S) /\ x \in S /\ Len(v) = Cardinality(Places(rs, k - 1))
        /\ ToSet(v) = {StepFor(rs[i]) : i \in Places(rs, k - 1)}
    BY <1>5, <1>6
  <2>5. {StepFor(rs[i]) : i \in Places(rs, k)} = {StepFor(rs[i]) : i \in Places(rs, k - 1)} \cup {x}
    BY <2>2
  <2> HIDE DEF x, v
  <2>6. /\ Append(v, x) \in Seq(S) /\ Len(Append(v, x)) = Len(v) + 1
        /\ ToSet(Append(v, x)) = ToSet(v) \cup {x}
    BY <2>4, OneMore, AppendProperties
  <2>7. Good(k)
    BY <2>1, <2>3, <2>4, <2>5, <2>6
  <2> QED BY <1>2, <2>7
<1>8. CASE rs[k].type \notin DOMAIN StepOf
  <2>1. T[k] = T[k - 1] /\ Places(rs, k) = Places(rs, k - 1)
    BY <1>4, <1>6, <1>8, PlacesGrow DEF AddStep
  <2>2. Good(k)
    BY <1>5, <2>1
  <2> QED BY <1>2, <2>2
<1> QED BY <1>7, <1>8

\* Two lists of the same records in some order have the same steps, and as many.
Rearranged(rs, qs, n, p) ==
  /\ n \in Nat /\ DOMAIN rs = 1..n /\ DOMAIN qs = 1..n
  /\ p \in Bijection(1..n, 1..n) /\ \A i \in 1..n : rs[i] = qs[p[i]]

LEMMA SameSteps ==
  ASSUME NEW rs, NEW qs, NEW n, NEW p, Rearranged(rs, qs, n, p)
  PROVE  /\ ToSet(Trajectory(rs)) = ToSet(Trajectory(qs))
         /\ Len(Trajectory(rs)) = Len(Trajectory(qs))
<1> DEFINE A == Places(rs, n)
           B == Places(qs, n)
           f == [i \in A |-> p[i]]
<1>0. /\ n \in Nat /\ DOMAIN rs = 1..n /\ DOMAIN qs = 1..n
      /\ p \in Bijection(1..n, 1..n) /\ \A i \in 1..n : rs[i] = qs[p[i]]
  BY DEF Rearranged
<1>1. /\ p \in [1..n -> 1..n]
      /\ \A i, j \in 1..n : p[i] = p[j] => i = j
      /\ \A j \in 1..n : \E i \in 1..n : p[i] = j
  BY <1>0 DEF Bijection, Injection, Surjection, IsInjective
<1>2. \A i \in 1..n : i \in A <=> p[i] \in B
  BY <1>0, <1>1 DEF Places
<1>3. A \subseteq 1..n /\ B \subseteq 1..n
  BY DEF Places
<1>4. f \in Bijection(A, B)
  <2> HIDE DEF A, B
  <2>1. f \in [A -> B] /\ \A i, j \in A : f[i] = f[j] => i = j
    BY <1>1, <1>2, <1>3
  <2>2. \A j \in B : \E i \in A : f[i] = j
    BY <1>1, <1>2, <1>3
  <2> QED BY <2>1, <2>2, Fun_IsBij
<1>5. IsFiniteSet(A)
  <2>1. IsFiniteSet(1..n)
    BY <1>0, FS_Interval
  <2> HIDE DEF A
  <2> QED BY <1>3, <2>1, FS_Subset
<1>6. Cardinality(A) = Cardinality(B)
  <2> HIDE DEF A, B, f
  <2>1. ExistsBijection(A, B)
    BY <1>4 DEF ExistsBijection
  <2> QED BY <1>5, <2>1, FS_Bijection
<1>7. {StepFor(rs[i]) : i \in A} = {StepFor(qs[j]) : j \in B}
  <2> HIDE DEF A, B, f
  <2>1. \A i \in A : p[i] \in B /\ rs[i] = qs[p[i]]
    BY <1>0, <1>2, <1>3
  <2>2. \A j \in B : \E i \in A : p[i] = j
    BY <1>1, <1>2, <1>3
  <2> QED BY <2>1, <2>2
<1> QED BY <1>0, <1>6, <1>7, TrajectoryHas

(***************************************************************************)
(* Observability: the trajectory of the store is that of the events.       *)
(***************************************************************************)
\* An event that is on its way is the one collected under its number.
OneOf(e, n, events) == e.id \in 1..n /\ e = events[e.id]

CollectedInv ==
  /\ Len(collected) = emitted /\ \A i \in 1..emitted : collected[i].id = i
  /\ \A i \in 1..Len(buffer) : OneOf(buffer[i], emitted, collected) /\ buffer[i].id = (emitted - Len(buffer)) + i
  /\ \A f \in Flushes : \A i \in 1..Len(rest[f]) : OneOf(rest[f][i], emitted, collected)
  /\ \A i \in 1..Len(issued) : /\ issued[i].id \in 1..emitted
                               /\ issued[i] = ToRecord(collected[issued[i].id])

\* While nothing was dropped and no two flushes overlapped, only one of them holds
\* events, and what it writes follows what is issued.
OrderedInv ==
  dropped = {} /\ ~overlapped =>
    /\ rest["task"] = <<>> \/ rest["forced"] = <<>>
    /\ \A i \in 1..Len(issued) : issued[i].id = i
    /\ \A f \in Flushes : \A i \in 1..Len(rest[f]) : rest[f][i].id = Len(issued) + i

LEMMA InitCollected == PluginInit => CollectedInv /\ OrderedInv
<1> SUFFICES ASSUME PluginInit PROVE CollectedInv /\ OrderedInv
  OBVIOUS
<1>1. /\ collected = <<>> /\ buffer = <<>> /\ issued = <<>> /\ emitted = 0
      /\ \A f \in Flushes : rest[f] = <<>>
  BY DEF PluginInit
<1>2. Len(<<>>) = 0 /\ 1..0 = {}
  BY EmptySeq
<1>3. CollectedInv
  BY <1>1, <1>2 DEF CollectedInv
<1>4. OrderedInv
  BY <1>1, <1>2, TwoFlushes DEF OrderedInv
<1> QED BY <1>3, <1>4

LEMMA TakeCollected ==
  ASSUME ConservedInv, CollectedInv, OrderedInv, NEW f \in Flushes, flush[f] # "writing", Take(f),
         UNCHANGED <<emitted, collected, dropped>>
  PROVE  CollectedInv' /\ OrderedInv'
<1>1. /\ rest' = [rest EXCEPT ![f] = buffer] /\ buffer' = <<>> /\ issued' = issued
      /\ overlapped' = (overlapped \/ \E g \in Flushes \ {f} : rest[g] # <<>> /\ buffer # <<>>)
      /\ rest[f] = <<>> /\ rest \in [Flushes -> Seq(Delivered)] /\ buffer \in Seq(Delivered)
  BY DEF Take, written, ConservedInv, PluginTyped
<1>2. /\ rest'[f] = buffer /\ \A g \in Flushes \ {f} : rest'[g] = rest[g]
      /\ Len(buffer') = 0 /\ 1..0 = {} /\ Len(buffer) \in Nat
  BY <1>1, EmptySeq, LenProperties
<1>3. \A e : OneOf(e, emitted, collected) => OneOf(e, emitted', collected')
  BY DEF OneOf
<1>4. CollectedInv'
  <2>1. \A g \in Flushes : \A i \in 1..Len(rest'[g]) : OneOf(rest'[g][i], emitted', collected')
    <3>1. \A i \in 1..Len(buffer) : OneOf(buffer[i], emitted', collected')
      BY <1>3 DEF CollectedInv
    <3>2. \A g \in Flushes \ {f} : \A i \in 1..Len(rest'[g]) : OneOf(rest'[g][i], emitted', collected')
      BY <1>2, <1>3 DEF CollectedInv
    <3> QED BY <1>2, <3>1, <3>2
  <2> QED BY <1>1, <1>2, <2>1 DEF CollectedInv, OneOf
<1>5. ASSUME dropped' = {}, ~overlapped' PROVE buffer = <<>> \/ rest'[Other(f)] = <<>>
  BY <1>1, <1>2, <1>5, OtherFlush
<1>6. ASSUME dropped' = {}, ~overlapped', NEW i \in 1..Len(buffer) PROVE buffer[i].id = Len(issued) + i
  <2>1. buffer # <<>>
    BY <1>6, EmptySeq
  <2>2. rest[Other(f)] = <<>> /\ rest[f] = <<>>
    BY <1>1, <1>2, <1>5, <1>6, <2>1, OtherFlush
  <2>3. Placed(f) /\ Cardinality(dropped) = 0
    BY <1>6, PlacedFrom, FS_EmptySet DEF ConservedInv
  <2>4. Total(Len(buffer), 0, 0, Len(issued), 0) = emitted
    BY <2>2, <2>3, NoIds DEF Placed, InPlaces
  <2>5. Len(issued) \in Nat /\ emitted \in Nat
    BY PlacesAreNat DEF ConservedInv
  <2>6. emitted - Len(buffer) = Len(issued)
    BY <1>2, <2>4, <2>5 DEF Total
  <2> QED BY <2>6 DEF CollectedInv
<1>7. ASSUME dropped' = {}, ~overlapped' PROVE OrderedInv'
  <2>1. dropped = {} /\ ~overlapped
    BY <1>1, <1>7
  <2>2. rest'["task"] = <<>> \/ rest'["forced"] = <<>>
    BY <1>1, <1>2, <1>5, <1>7, <2>1, TwoFlushes DEF Other
  <2>3. \A g \in Flushes : \A i \in 1..Len(rest'[g]) : rest'[g][i].id = Len(issued') + i
    <3>1. \A i \in 1..Len(rest'[f]) : rest'[f][i].id = Len(issued') + i
      BY <1>1, <1>2, <1>6, <1>7
    <3>2. \A g \in Flushes \ {f} : \A i \in 1..Len(rest'[g]) : rest'[g][i].id = Len(issued') + i
      BY <1>1, <1>2, <2>1 DEF OrderedInv
    <3> QED BY <3>1, <3>2
  <2> QED BY <1>1, <2>1, <2>2, <2>3 DEF OrderedInv
<1>8. OrderedInv'
  BY <1>7 DEF OrderedInv
<1> QED BY <1>4, <1>8

LEMMA EmitCollected ==
  ASSUME ConservedInv, CollectedInv, OrderedInv, NEW k \in Kinds, Emit(k)
  PROVE  CollectedInv' /\ OrderedInv'
<1> DEFINE e == [id |-> emitted + 1, kind |-> k]
<1>1. /\ buffer' = Append(buffer, e) /\ collected' = Append(collected, e) /\ emitted' = emitted + 1
      /\ UNCHANGED <<rest, issued, dropped, overlapped>>
  BY DEF Emit, written
<1>2. /\ buffer \in Seq(Delivered) /\ collected \in Seq(Delivered) /\ emitted \in Nat
      /\ e \in Delivered /\ e.id = emitted + 1
  BY DEF ConservedInv, PluginTyped, Delivered
<1> HIDE DEF e
<1>3. /\ Len(collected) = emitted /\ Len(collected') = emitted + 1
      /\ \A i \in 1..emitted : collected'[i] = collected[i]
      /\ collected'[emitted + 1] = e
  BY <1>1, <1>2, AppendProperties DEF CollectedInv
<1>4. /\ Len(buffer) \in Nat /\ Len(buffer') = Len(buffer) + 1
      /\ \A i \in 1..Len(buffer) : buffer'[i] = buffer[i]
      /\ buffer'[Len(buffer) + 1] = e
  BY <1>1, <1>2, AppendProperties, LenProperties
<1>5. \A x : OneOf(x, emitted, collected) => OneOf(x, emitted', collected')
  BY <1>1, <1>2, <1>3 DEF OneOf
<1>6. OneOf(e, emitted', collected')
  BY <1>1, <1>2, <1>3 DEF OneOf
<1>7. ASSUME NEW i \in 1..emitted' PROVE collected'[i].id = i
  BY <1>1, <1>2, <1>3, <1>7 DEF CollectedInv
<1>8. ASSUME NEW i \in 1..Len(buffer')
      PROVE  OneOf(buffer'[i], emitted', collected') /\ buffer'[i].id = (emitted' - Len(buffer')) + i
  <2>1. CASE i \in 1..Len(buffer)
    <3>1. OneOf(buffer[i], emitted, collected) /\ buffer[i].id = (emitted - Len(buffer)) + i /\ buffer'[i] = buffer[i]
      BY <1>4, <2>1 DEF CollectedInv
    <3>2. emitted' - Len(buffer') = emitted - Len(buffer)
      BY <1>1, <1>2, <1>4
    <3> QED BY <1>5, <3>1, <3>2
  <2>2. CASE i = Len(buffer) + 1
    <3>1. (emitted' - Len(buffer')) + i = emitted + 1
      BY <1>1, <1>2, <1>4, <2>2
    <3> QED BY <1>2, <1>4, <1>6, <2>2, <3>1
  <2> QED BY <1>4, <2>1, <2>2
<1>9. \A f \in Flushes : \A i \in 1..Len(rest'[f]) : OneOf(rest'[f][i], emitted', collected')
  BY <1>1, <1>5 DEF CollectedInv
<1>10. ASSUME NEW i \in 1..Len(issued')
       PROVE  issued'[i].id \in 1..emitted' /\ issued'[i] = ToRecord(collected'[issued'[i].id])
  <2>1. issued'[i] = issued[i] /\ issued[i].id \in 1..emitted /\ i \in 1..Len(issued)
    BY <1>1 DEF CollectedInv
  <2>2. collected'[issued[i].id] = collected[issued[i].id]
    BY <1>3, <2>1
  <2>3. issued[i] = ToRecord(collected[issued[i].id])
    BY <2>1 DEF CollectedInv
  <2>4. issued[i].id \in 1..emitted'
    BY <1>1, <1>2, <2>1
  <2> QED BY <2>1, <2>2, <2>3, <2>4
<1>11. CollectedInv'
  BY <1>1, <1>3, <1>7, <1>8, <1>9, <1>10 DEF CollectedInv
<1>12. OrderedInv'
  BY <1>1 DEF OrderedInv
<1> QED BY <1>11, <1>12

LEMMA HeadAndTail ==
  ASSUME NEW S, NEW s \in Seq(S), s # <<>>
  PROVE  /\ Head(s) = s[1] /\ Head(s) \in S /\ Len(s) \in Nat \ {0}
         /\ Tail(s) \in Seq(S) /\ Len(Tail(s)) = Len(s) - 1
         /\ \A i \in 1..Len(Tail(s)) : Tail(s)[i] = s[i + 1]
BY HeadTailProperties, LenProperties, EmptySeq

LEMMA RecordedCollected ==
  ASSUME ConservedInv, CollectedInv, OrderedInv, NEW f \in Flushes,
         rest[f] # <<>>, rest' = [rest EXCEPT ![f] = Tail(@)],
         issued' = Append(issued, ToRecord(Head(rest[f]))),
         UNCHANGED <<emitted, buffer, collected, dropped, overlapped>>
  PROVE  CollectedInv' /\ OrderedInv'
<1> DEFINE e == Head(rest[f])
           v == rest[f]
           w == rest'[f]
<1>1. /\ rest' = [rest EXCEPT ![f] = Tail(@)]
      /\ issued' = Append(issued, ToRecord(e))
      /\ UNCHANGED <<emitted, buffer, collected, dropped, overlapped>>
  OBVIOUS
<1>2. /\ v \in Seq(Delivered) /\ v # <<>> /\ issued \in Seq(Records)
      /\ w = Tail(v) /\ \A g \in Flushes \ {f} : rest'[g] = rest[g]
  BY <1>1 DEF ConservedInv, PluginTyped
<1>3. /\ e = v[1] /\ e \in Delivered /\ Len(v) \in Nat \ {0} /\ Len(w) = Len(v) - 1
      /\ \A i \in 1..Len(w) : w[i] = v[i + 1]
  <2> HIDE DEF v, w
  <2>1. /\ Head(v) = v[1] /\ Head(v) \in Delivered /\ Len(v) \in Nat \ {0}
        /\ Len(Tail(v)) = Len(v) - 1 /\ \A i \in 1..Len(Tail(v)) : Tail(v)[i] = v[i + 1]
    BY <1>2, HeadAndTail
  <2>2. e = Head(v)
    BY DEF v
  <2> HIDE DEF e
  <2> QED BY <1>2, <2>1, <2>2
<1>4. ToRecord(e) \in Records /\ ToRecord(e).id = e.id
  BY <1>3, RecordIsWritten
<1>5. /\ Len(issued) \in Nat /\ Len(issued') = Len(issued) + 1
      /\ \A i \in 1..Len(issued) : issued'[i] = issued[i]
      /\ issued'[Len(issued) + 1] = ToRecord(e)
  BY <1>1, <1>2, <1>4, AppendProperties, LenProperties
<1>6. \A i \in 1..Len(v) : OneOf(v[i], emitted, collected)
  BY DEF CollectedInv
<1>7. OneOf(e, emitted, collected)
  BY <1>3, <1>6
<1>8. \A i \in 1..Len(w) : OneOf(w[i], emitted, collected)
  <2>1. \A i \in 1..Len(w) : i + 1 \in 1..Len(v)
    BY <1>3
  <2> QED BY <1>3, <1>6, <2>1
<1>9. \A g \in Flushes : \A i \in 1..Len(rest'[g]) : OneOf(rest'[g][i], emitted, collected)
  <2>1. \A g \in Flushes \ {f} : \A i \in 1..Len(rest'[g]) : OneOf(rest'[g][i], emitted, collected)
    BY <1>2 DEF CollectedInv
  <2> QED BY <1>8, <2>1
<1> HIDE DEF e
<1>10. ASSUME NEW i \in 1..Len(issued')
       PROVE  issued'[i].id \in 1..emitted /\ issued'[i] = ToRecord(collected[issued'[i].id])
  <2>1. CASE i \in 1..Len(issued)
    BY <1>5, <2>1 DEF CollectedInv
  <2>2. CASE i = Len(issued) + 1
    BY <1>4, <1>5, <1>7, <2>2 DEF OneOf
  <2> QED BY <1>5, <2>1, <2>2
<1>11. CollectedInv'
  BY <1>1, <1>9, <1>10 DEF CollectedInv
<1>12. ASSUME dropped = {}, ~overlapped PROVE OrderedInv'
  <2>1. /\ rest["task"] = <<>> \/ rest["forced"] = <<>>
        /\ \A i \in 1..Len(issued) : issued[i].id = i
        /\ \A i \in 1..Len(v) : v[i].id = Len(issued) + i
    BY <1>12 DEF OrderedInv
  <2>2. rest[Other(f)] = <<>>
    BY <1>2, <2>1, TwoFlushes DEF Other
  <2>3. rest'[Other(f)] = <<>> /\ Len(rest'[Other(f)]) = 0
    BY <1>2, <2>2, OtherFlush, NoIds
  <2>4. e.id = Len(issued) + 1
    <3>1. 1 \in 1..Len(v)
      BY <1>3
    <3>2. v[1].id = Len(issued) + 1
      BY <2>1, <3>1
    <3> QED BY <1>3, <3>2
  <2>5. \A i \in 1..Len(issued') : issued'[i].id = i
    BY <1>4, <1>5, <2>1, <2>4
  <2>6. ASSUME NEW i \in 1..Len(w) PROVE w[i].id = Len(issued') + i
    <3>1. i + 1 \in 1..Len(v) /\ w[i] = v[i + 1]
      BY <1>3
    <3>2. v[i + 1].id = Len(issued) + (i + 1)
      BY <2>1, <3>1
    <3>3. Len(issued) + (i + 1) = Len(issued') + i
      BY <1>5
    <3> QED BY <3>1, <3>2, <3>3
  <2>7. \A g \in Flushes : \A i \in 1..Len(rest'[g]) : rest'[g][i].id = Len(issued') + i
    <3>1. \A i \in 1..0 : FALSE
      OBVIOUS
    <3> QED BY <2>3, <2>6, <3>1, OtherFlush
  <2>8. rest'["task"] = <<>> \/ rest'["forced"] = <<>>
    BY <2>3, TwoFlushes DEF Other
  <2> QED BY <2>5, <2>7, <2>8 DEF OrderedInv
<1>13. OrderedInv'
  BY <1>1, <1>12 DEF OrderedInv
<1> QED BY <1>11, <1>13

\* A flush that ends early drops what it holds, or all of it but the first event.
LEMMA DroppedCollected ==
  ASSUME ConservedInv, CollectedInv, OrderedInv, NEW f \in Flushes,
         rest' = [rest EXCEPT ![f] = <<>>],
         UNCHANGED <<emitted, buffer, collected, overlapped>>,
         \/ dropped' = dropped \cup EventIds(rest[f]) /\ UNCHANGED issued
         \/ /\ rest[f] # <<>> /\ issued' = Append(issued, ToRecord(Head(rest[f])))
            /\ dropped' = dropped \cup EventIds(Tail(rest[f]))
  PROVE  CollectedInv' /\ OrderedInv'
<1>1. /\ rest[f] \in Seq(Delivered) /\ rest'[f] = <<>> /\ issued \in Seq(Records)
      /\ rest \in [Flushes -> Seq(Delivered)]
      /\ \A g \in Flushes \ {f} : rest'[g] = rest[g]
  BY DEF ConservedInv, PluginTyped
<1>2. Len(<<>>) = 0 /\ 1..0 = {}
  BY EmptySeq
<1>3. \A g \in Flushes : \A i \in 1..Len(rest'[g]) : OneOf(rest'[g][i], emitted, collected)
  BY <1>1, <1>2 DEF CollectedInv
<1>4. CASE rest[f] = <<>> /\ UNCHANGED issued
  <2>1. rest' = rest
    BY <1>1, <1>4
  <2>2. dropped \subseteq dropped'
    OBVIOUS
  <2> QED BY <1>4, <2>1, <2>2 DEF CollectedInv, OrderedInv
<1>5. CASE rest[f] # <<>> /\ UNCHANGED issued /\ dropped' = dropped \cup EventIds(rest[f])
  <2>1. EventIds(rest[f]) = {Head(rest[f]).id} \cup EventIds(Tail(rest[f]))
    BY <1>1, <1>5, IdsHead
  <2>2. dropped' # {}
    BY <1>5, <2>1
  <2>3. CollectedInv'
    BY <1>3, <1>5 DEF CollectedInv
  <2> QED BY <2>2, <2>3 DEF OrderedInv
<1>6. CASE /\ rest[f] # <<>> /\ issued' = Append(issued, ToRecord(Head(rest[f])))
           /\ dropped' = dropped \cup EventIds(Tail(rest[f]))
  <2> DEFINE e == Head(rest[f])
             t == Tail(rest[f])
  <2>1. e \in Delivered /\ t \in Seq(Delivered) /\ e = rest[f][1] /\ Len(rest[f]) \in Nat \ {0}
    BY <1>1, <1>6, HeadTailProperties, LenProperties, EmptySeq
  <2>2. CASE t = <<>>
    <3>1. rest' = [rest EXCEPT ![f] = Tail(@)] /\ dropped' = dropped
      BY <1>6, <2>2, NoIds
    <3> QED BY <1>6, <3>1, RecordedCollected
  <2>3. CASE t # <<>>
    <3>1. EventIds(t) = {Head(t).id} \cup EventIds(Tail(t))
      BY <2>1, <2>3, IdsHead
    <3>2. dropped' # {}
      BY <1>6, <3>1
    <3>3. ToRecord(e) \in Records /\ ToRecord(e).id = e.id
      BY <2>1, RecordIsWritten
    <3>4. OneOf(e, emitted, collected)
      BY <2>1 DEF CollectedInv
    <3>5. /\ Len(issued) \in Nat /\ Len(issued') = Len(issued) + 1
          /\ \A i \in 1..Len(issued) : issued'[i] = issued[i]
          /\ issued'[Len(issued) + 1] = ToRecord(e)
      BY <1>1, <1>6, <3>3, AppendProperties, LenProperties
    <3> HIDE DEF e, t
    <3>6. ASSUME NEW i \in 1..Len(issued')
          PROVE  issued'[i].id \in 1..emitted /\ issued'[i] = ToRecord(collected[issued'[i].id])
      <4>1. CASE i \in 1..Len(issued)
        BY <3>5, <4>1 DEF CollectedInv
      <4>2. CASE i = Len(issued) + 1
        BY <3>3, <3>4, <3>5, <4>2 DEF OneOf
      <4> QED BY <3>5, <4>1, <4>2
    <3>7. CollectedInv'
      BY <1>3, <3>6 DEF CollectedInv
    <3> QED BY <3>2, <3>7 DEF OrderedInv
  <2> QED BY <2>2, <2>3
<1> QED BY <1>4, <1>5, <1>6

TrajectoryInv == ConservedInv /\ CollectedInv /\ OrderedInv

LEMMA StepTrajectoryInv == TrajectoryInv /\ [PluginNext]_plugin => TrajectoryInv'
<1> SUFFICES ASSUME TrajectoryInv, [PluginNext]_plugin PROVE TrajectoryInv'
  OBVIOUS
<1>0. ConservedInv /\ CollectedInv /\ OrderedInv /\ ConservedInv' /\ PluginTyped
  BY StepConserved DEF TrajectoryInv, ConservedInv
<1>1. ASSUME \/ UNCHANGED plugin
             \/ Activate
             \/ \E i \in doubt : DoubtEnds(i)
      PROVE  TrajectoryInv'
  <2>1. UNCHANGED <<emitted, buffer, rest, issued, collected, dropped, overlapped>>
    BY <1>1 DEF plugin, subscriber, written, Activate, DoubtEnds
  <2> QED BY <1>0, <2>1 DEF TrajectoryInv, CollectedInv, OrderedInv
<1>2. CASE StartFlush
  BY <1>0, <1>2, TakeCollected, TwoFlushes DEF StartFlush, TrajectoryInv
<1>3. CASE Deactivate
  BY <1>0, <1>3, TakeCollected, TwoFlushes DEF Deactivate, PluginTyped, TrajectoryInv
<1>4. ASSUME NEW k \in Kinds, Emit(k) PROVE TrajectoryInv'
  BY <1>0, <1>4, EmitCollected DEF TrajectoryInv
<1>5. ASSUME NEW f \in Flushes, Recorded(f) PROVE TrajectoryInv'
  <2>1. rest[f] # <<>>
    BY <1>0, <1>5 DEF PluginTyped, Recorded
  <2>2. CollectedInv' /\ OrderedInv'
    BY <1>0, <1>5, <2>1, RecordedCollected DEF Recorded
  <2> QED BY <1>0, <2>2 DEF TrajectoryInv
<1>6. ASSUME NEW f \in Flushes, RecordFailed(f) \/ FlushCancelled(f) PROVE TrajectoryInv'
  <2>1. CollectedInv' /\ OrderedInv'
    BY <1>0, <1>6, DroppedCollected DEF RecordFailed, FlushCancelled, written
  <2> QED BY <1>0, <2>1 DEF TrajectoryInv
<1> QED BY <1>1, <1>2, <1>3, <1>4, <1>5, <1>6 DEF PluginNext

\* Once everything is written, the store holds the record of every event once.
LEMMA StoredIsCollected ==
  ASSUME TrajectoryInv, buffer = <<>>, dropped = {}, \A f \in Flushes : rest[f] = <<>>
  PROVE  /\ DOMAIN issued = 1..emitted /\ DOMAIN collected = 1..emitted /\ emitted \in Nat
         /\ [i \in 1..emitted |-> issued[i].id] \in Bijection(1..emitted, 1..emitted)
         /\ \A i \in 1..emitted : issued[i] = ToRecord(collected[issued[i].id])
         /\ ~overlapped => \A i \in 1..emitted : issued[i].id = i
<1> DEFINE p == [i \in 1..emitted |-> issued[i].id]
<1>1. /\ issued \in Seq(Records) /\ collected \in Seq(Delivered) /\ emitted \in Nat
      /\ IsFiniteSet(dropped) /\ PluginTyped /\ EventsConserved
  BY DEF TrajectoryInv, ConservedInv, PluginTyped
<1>2. Placed("task") /\ rest["task"] = <<>> /\ rest[Other("task")] = <<>>
  BY <1>1, PlacedFrom, TwoFlushes, OtherFlush
<1>3. Len(issued) = emitted /\ EventIds(issued) = 1..emitted
  <2>1. Cardinality({}) = 0
    BY FS_EmptySet
  <2>2. Total(0, 0, 0, Len(issued), 0) = emitted /\ EventIds(issued) = 1..emitted
    BY <1>2, <2>1, NoIds DEF Placed, InPlaces
  <2>3. Len(issued) \in Nat
    BY <1>1, LenProperties
  <2> QED BY <2>2, <2>3 DEF Total
<1>4. Len(collected) = emitted
  BY DEF TrajectoryInv, CollectedInv
<1>5. DOMAIN issued = 1..emitted /\ DOMAIN collected = 1..emitted
  BY <1>1, <1>3, <1>4, LenProperties
<1>6. \A i \in 1..emitted : /\ issued[i].id \in 1..emitted
                            /\ issued[i] = ToRecord(collected[issued[i].id])
  BY <1>3 DEF TrajectoryInv, CollectedInv
<1>7. p \in Bijection(1..emitted, 1..emitted)
  <2>1. IsFiniteSet(1..emitted)
    BY <1>1, FS_Interval
  <2>2. \A j \in 1..emitted : \E i \in 1..emitted : issued[i].id = j
    BY <1>3, <1>5 DEF EventIds
  <2>3. p \in Surjection(1..emitted, 1..emitted)
    BY <1>6, <2>2 DEF Surjection
  <2> HIDE DEF p
  <2>4. p \in Injection(1..emitted, 1..emitted)
    BY <2>1, <2>3, FS_SurjSameCardinalityImpliesInj
  <2> QED BY <2>3, <2>4 DEF Bijection
<1>8. ~overlapped => \A i \in 1..emitted : issued[i].id = i
  BY <1>3 DEF TrajectoryInv, OrderedInv
<1> QED BY <1>1, <1>5, <1>6, <1>7, <1>8

\* Once nothing is left to write and nothing was dropped, stranded, lost or left in
\* doubt, the trajectory built from the store has the steps of the one built from the
\* collected events, and in the same order unless two flushes overlapped, for any
\* number of events.
\* Code: event_bridge.py relay_to_event_record, exporters.py build_atif_trajectory.
THEOREM TrajectoriesAreTheSame == PluginSpec => []TrajectoriesAgree
<1>1. TrajectoryInv => TrajectoriesAgree
  <2> DEFINE qs == [i \in DOMAIN collected |->
                      [id |-> collected[i].id, type |-> event_type_map[collected[i].kind]]]
  <2> SUFFICES ASSUME TrajectoryInv, buffer = <<>>, dropped = {}, \A f \in Flushes : rest[f] = <<>>
               PROVE  /\ ToSet(Trajectory(issued)) = ToSet(Trajectory(qs))
                      /\ Len(Trajectory(issued)) = Len(Trajectory(qs))
                      /\ Trajectory(issued) = Trajectory(qs) \/ overlapped
    BY DEF TrajectoriesAgree, TrajectoryOfEvents
  <2> DEFINE p == [i \in 1..emitted |-> issued[i].id]
  <2>1. /\ DOMAIN issued = 1..emitted /\ DOMAIN collected = 1..emitted /\ emitted \in Nat
        /\ p \in Bijection(1..emitted, 1..emitted)
        /\ \A i \in 1..emitted : issued[i] = ToRecord(collected[issued[i].id])
        /\ ~overlapped => \A i \in 1..emitted : issued[i].id = i
        /\ \A i \in 1..emitted : issued[i].id \in 1..emitted
    <3>1. /\ DOMAIN issued = 1..emitted /\ DOMAIN collected = 1..emitted /\ emitted \in Nat
          /\ p \in Bijection(1..emitted, 1..emitted)
          /\ \A i \in 1..emitted : issued[i] = ToRecord(collected[issued[i].id])
          /\ ~overlapped => \A i \in 1..emitted : issued[i].id = i
      BY StoredIsCollected
    <3> HIDE DEF p
    <3>2. p \in [1..emitted -> 1..emitted]
      BY <3>1 DEF Bijection, Injection
    <3> QED BY <3>1, <3>2 DEF p
  <2>2. \A i \in 1..emitted : qs[i] = ToRecord(collected[i])
    BY <2>1 DEF ToRecord
  <2>3. DOMAIN qs = 1..emitted
    BY <2>1
  <2>4. \A i \in 1..emitted : issued[i] = qs[p[i]]
    BY <2>1, <2>2
  <2> HIDE DEF p
  <2>5. ASSUME ~overlapped PROVE issued = qs
    <3>1. \A i \in 1..emitted : issued[i] = qs[i]
      BY <2>1, <2>2, <2>5
    <3>2. issued = [i \in 1..emitted |-> issued[i]] /\ qs = [i \in 1..emitted |-> qs[i]]
      <4>1. issued = [i \in DOMAIN issued |-> issued[i]]
        <5>1. issued \in Seq(Records)
          BY DEF TrajectoryInv, ConservedInv, PluginTyped
        <5> QED BY <5>1, LenProperties
      <4> QED BY <2>1, <2>3, <4>1
    <3> HIDE DEF qs
    <3> QED BY <3>1, <3>2
  <2> HIDE DEF qs
  <2>6. /\ ToSet(Trajectory(issued)) = ToSet(Trajectory(qs))
        /\ Len(Trajectory(issued)) = Len(Trajectory(qs))
    <3>1. DOMAIN issued = 1..emitted /\ emitted \in Nat /\ p \in Bijection(1..emitted, 1..emitted)
      BY <2>1
    <3>2. Rearranged(issued, qs, emitted, p)
      BY <2>3, <2>4, <3>1 DEF Rearranged
    <3> QED BY <3>2, SameSteps
  <2> QED BY <2>5, <2>6
<1>2. PluginInit => TrajectoryInv
  BY InitConserved, InitCollected DEF TrajectoryInv
<1> QED BY <1>1, <1>2, StepTrajectoryInv, PTL DEF PluginSpec
==============================================================================
