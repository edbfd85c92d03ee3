------------------------------ MODULE DataLemmas ------------------------------
(***************************************************************************)
(* What the proofs need to know of the data the models are built from:     *)
(* queues of tasks, finite sets, and sequences.                            *)
(***************************************************************************)
EXTENDS Sequences, SequencesExt, SequenceTheorems, FiniteSetTheorems, FunctionTheorems,
        WellFoundedInduction, TLAPS

(***************************************************************************)
(* Queues of tasks that wait for a lock or a semaphore: sequences in which *)
(* nobody is twice.  What joining, being served and leaving do to one.     *)
(***************************************************************************)
Queue(S, w) == /\ w \in Seq(S)
               /\ \A i, j \in 1..Len(w) : w[i] = w[j] => i = j

\* A task that is not in a queue joins it at the end.
LEMMA Joined ==
  ASSUME NEW S, NEW w, Queue(S, w), NEW c \in S, ~Contains(w, c)
  PROVE  /\ Queue(S, Append(w, c))
         /\ \A d : Contains(Append(w, c), d) <=> Contains(w, d) \/ d = c
<1>1. /\ w \in Seq(S) /\ Len(w) \in Nat
      /\ \A i \in 1..Len(w) : w[i] # c
  BY LenProperties DEF Queue, Contains
<1>2. /\ Append(w, c) \in Seq(S)
      /\ Len(Append(w, c)) = Len(w) + 1
      /\ \A i \in 1..Len(w) : Append(w, c)[i] = w[i]
      /\ Append(w, c)[Len(w) + 1] = c
  BY <1>1, AppendProperties
<1>3. \A i \in 1..Len(w) + 1 : i \in 1..Len(w) \/ i = Len(w) + 1
  BY <1>1
<1>4. Queue(S, Append(w, c))
  BY <1>1, <1>2, <1>3 DEF Queue
<1>5. ASSUME NEW d PROVE Contains(Append(w, c), d) <=> Contains(w, d) \/ d = c
  BY <1>1, <1>2, <1>3 DEF Contains
<1> QED BY <1>4, <1>5

\* The first of a queue leaves it.
LEMMA Served ==
  ASSUME NEW S, NEW w, Queue(S, w), w # <<>>
  PROVE  /\ Queue(S, Tail(w))
         /\ Head(w) \in S /\ Contains(w, Head(w))
         /\ \A d : Contains(Tail(w), d) <=> Contains(w, d) /\ d # Head(w)
<1>1. /\ w \in Seq(S) /\ Len(w) \in Nat \ {0}
  BY EmptySeq DEF Queue
<1>2. /\ Head(w) \in S /\ Head(w) = w[1]
      /\ Tail(w) \in Seq(S)
      /\ Len(Tail(w)) = Len(w) - 1
      /\ \A i \in 1..Len(Tail(w)) : Tail(w)[i] = w[i + 1]
  BY <1>1, HeadTailProperties
<1>3. Queue(S, Tail(w))
  BY <1>1, <1>2 DEF Queue
<1>4. Contains(w, Head(w))
  BY <1>1, <1>2 DEF Contains
<1>5. ASSUME NEW d PROVE Contains(Tail(w), d) <=> Contains(w, d) /\ d # Head(w)
  <2>1. ASSUME Contains(Tail(w), d) PROVE Contains(w, d) /\ d # Head(w)
    BY <1>1, <1>2, <2>1 DEF Contains, Queue
  <2>2. ASSUME Contains(w, d), d # Head(w) PROVE Contains(Tail(w), d)
    <3>1. PICK i \in 1..Len(w) : w[i] = d
      BY <2>2 DEF Contains
    <3>2. i - 1 \in 1..Len(Tail(w)) /\ Tail(w)[i - 1] = d
      BY <1>1, <1>2, <2>2, <3>1
    <3> QED BY <3>2 DEF Contains
  <2> QED BY <2>1, <2>2
<1> QED BY <1>2, <1>3, <1>4, <1>5

\* A task that gives up leaves a queue from any place.
LEMMA Removed ==
  ASSUME NEW S, NEW w, Queue(S, w), NEW p \in 1..Len(w)
  PROVE  /\ Queue(S, RemoveAt(w, p))
         /\ \A d : Contains(RemoveAt(w, p), d) <=> Contains(w, d) /\ d # w[p]
<1>1. w \in Seq(S) /\ Len(w) \in Nat
  BY LenProperties DEF Queue
<1> DEFINE l == SubSeq(w, 1, p - 1)
           r == SubSeq(w, p + 1, Len(w))
           v == RemoveAt(w, p)
<1>2. /\ l \in Seq(S) /\ Len(l) = p - 1
      /\ \A i \in 1..p - 1 : l[i] = w[i]
  <2>1. \A i \in 1..p - 1 : w[i] \in S
    BY <1>1, ElementOfSeq
  <2> QED BY <1>1, <2>1, SubSeqProperties
<1>3. /\ r \in Seq(S) /\ Len(r) = Len(w) - p
      /\ \A i \in 1..Len(w) - p : r[i] = w[p + i]
  <2>1. \A i \in p + 1..Len(w) : w[i] \in S
    BY <1>1, ElementOfSeq
  <2> QED BY <1>1, <2>1, SubSeqProperties
<1>0. v = l \o r
  BY DEF RemoveAt
<1> HIDE DEF l, r, v
<1>4. /\ v \in Seq(S) /\ Len(v) = Len(w) - 1
      /\ \A i \in 1..Len(w) - 1 : v[i] = IF i <= Len(l) THEN l[i] ELSE r[i - Len(l)]
  <2>1. /\ l \o r \in Seq(S) /\ Len(l \o r) = Len(l) + Len(r)
        /\ \A i \in 1..Len(l) + Len(r) : (l \o r)[i] = IF i <= Len(l) THEN l[i] ELSE r[i - Len(l)]
    BY <1>2, <1>3, ConcatProperties
  <2>2. Len(l) + Len(r) = Len(w) - 1
    BY <1>1, <1>2, <1>3
  <2> QED BY <1>0, <2>1, <2>2
<1>5. ASSUME NEW i \in 1..Len(w) - 1
      PROVE  v[i] = IF i < p THEN w[i] ELSE w[i + 1]
  <2>1. CASE i < p
    <3>1. i \in 1..p - 1 /\ i <= Len(l)
      BY <1>1, <1>2, <2>1
    <3> QED BY <1>2, <1>4, <2>1, <3>1
  <2>2. CASE ~(i < p)
    <3> DEFINE k == i - Len(l)
    <3>1. ~(i <= Len(l)) /\ k \in 1..Len(w) - p /\ p + k = i + 1
      BY <1>1, <1>2, <2>2
    <3>2. v[i] = r[k]
      BY <1>4, <3>1
    <3> HIDE DEF k
    <3>3. r[k] = w[i + 1]
      BY <1>3, <3>1
    <3> QED BY <2>2, <3>2, <3>3
  <2> QED BY <2>1, <2>2
<1>6. Queue(S, v)
  <2>1. ASSUME NEW i \in 1..Len(v), NEW j \in 1..Len(v), v[i] = v[j]
        PROVE  i = j
    <3> DEFINE at(k) == IF k < p THEN k ELSE k + 1
    <3>1. at(i) \in 1..Len(w) /\ at(j) \in 1..Len(w)
      BY <1>1, <1>4
    <3>2. w[at(i)] = w[at(j)]
      BY <1>4, <1>5, <2>1
    <3>3. at(i) = at(j)
      BY <3>1, <3>2 DEF Queue
    <3> QED BY <1>1, <1>4, <3>3
  <2> QED BY <1>4, <2>1 DEF Queue
<1>7. ASSUME NEW d PROVE Contains(v, d) <=> Contains(w, d) /\ d # w[p]
  <2>1. ASSUME Contains(v, d) PROVE Contains(w, d) /\ d # w[p]
    BY <1>1, <1>4, <1>5, <2>1 DEF Contains, Queue
  <2>2. ASSUME Contains(w, d), d # w[p] PROVE Contains(v, d)
    <3>1. PICK i \in 1..Len(w) : w[i] = d
      BY <2>2 DEF Contains
    <3>2. CASE i < p
      BY <1>1, <1>4, <1>5, <3>1, <3>2 DEF Contains
    <3>3. CASE i > p
      <4>1. i - 1 \in 1..Len(v) /\ v[i - 1] = d
        BY <1>1, <1>4, <1>5, <3>1, <3>3
      <4> QED BY <4>1 DEF Contains
    <3> QED BY <1>1, <2>2, <3>1, <3>2, <3>3
  <2> QED BY <2>1, <2>2
<1> QED BY <1>6, <1>7 DEF v

\* Nobody is in the empty queue.
LEMMA NobodyWaits == (\A S : Queue(S, <<>>)) /\ (\A c : ~Contains(<<>>, c))
BY EmptySeq DEF Queue, Contains

(***************************************************************************)
(* Finite sets.                                                            *)
(***************************************************************************)
\* A collection of subsets of a finite set has one that contains no other: induction
\* over finite sets, in the form of a smallest counterexample.
Minimal(T, F) == T \in F /\ \A U \in F : U \subseteq T => U = T

LEMMA MinimalSet ==
  ASSUME NEW S, IsFiniteSet(S), NEW F \in SUBSET SUBSET S, F # {}
  PROVE  \E T : Minimal(T, F)
<1>1. IsWellFoundedOn(StrictSubsetOrdering(S), SUBSET S)
  BY FS_StrictSubsetOrderingWellFounded, FS_FiniteSubsetsOfFinite
<1>2. PICK T \in F : \A U \in F : ~(<<U, T>> \in StrictSubsetOrdering(S))
  BY <1>1, WFMin
<1>3. ASSUME NEW U \in F, U \subseteq T PROVE U = T
  BY <1>2, <1>3 DEF StrictSubsetOrdering
<1> QED BY <1>3 DEF Minimal

\* A finite set of integers that is not empty has a greatest element.
LEMMA Greatest ==
  ASSUME NEW S, S \subseteq Int, IsFiniteSet(S), S # {}
  PROVE  Max(S) \in S /\ \A n \in S : n <= Max(S)
<1> DEFINE Above(n) == {k \in S : k > n}
           F == {Above(n) : n \in S}
<1>1. F \in SUBSET SUBSET S /\ F # {}
  OBVIOUS
<1>2. PICK T : Minimal(T, F)
  <2> HIDE DEF F
  <2> QED BY <1>1, MinimalSet
<1>3. PICK m \in S : T = Above(m)
  BY <1>2 DEF Minimal
<1>4. ASSUME NEW n \in S PROVE n <= m
  <2> SUFFICES ASSUME n > m PROVE FALSE
    BY <1>4
  <2>1. n \in Int /\ m \in Int
    OBVIOUS
  <2>3. n \in Above(m) /\ n \notin Above(n)
    BY <2>1
  <2>4. ASSUME NEW k \in Above(n) PROVE k \in Above(m)
    <3>1. k \in S /\ k \in Int /\ k > n
      BY <2>4
    <3>2. k > m
      BY <2>1, <3>1
    <3> QED BY <3>1, <3>2
  <2>2. Above(n) \in F
    OBVIOUS
  <2> QED BY <1>2, <1>3, <2>2, <2>3, <2>4 DEF Minimal
<1>5. \E x \in S : \A y \in S : x >= y
  BY <1>3, <1>4
<1> QED BY <1>5 DEF Max

\* What is in a set made of two has at most as many elements as both.
LEMMA OfTwo ==
  ASSUME NEW S, IsFiniteSet(S), NEW T, IsFiniteSet(T), NEW U, U \subseteq S \cup T
  PROVE  IsFiniteSet(U) /\ Cardinality(U) <= Cardinality(S) + Cardinality(T)
<1>1. /\ IsFiniteSet(S \cup T)
      /\ Cardinality(S \cup T) = Cardinality(S) + Cardinality(T) - Cardinality(S \cap T)
  BY FS_Union
<1>2. IsFiniteSet(S \cap T) /\ Cardinality(S \cap T) \in Nat
  BY FS_Subset, FS_CardinalityType, S \cap T \subseteq S
<1>3. Cardinality(S) \in Nat /\ Cardinality(T) \in Nat
  BY FS_CardinalityType
<1>4. IsFiniteSet(U) /\ Cardinality(U) <= Cardinality(S \cup T)
  BY <1>1, FS_Subset
<1>5. Cardinality(U) \in Nat /\ Cardinality(S \cup T) \in Nat
  BY <1>1, <1>4, FS_CardinalityType
<1> QED BY <1>1, <1>2, <1>3, <1>4, <1>5

\* A set of natural numbers that is not empty has a least element.
LEMMA Least ==
  ASSUME NEW S, S \in SUBSET Nat, S # {}
  PROVE  \E m \in S : \A n \in S : m <= n
<1>1. PICK k \in S : TRUE
  OBVIOUS
<1> DEFINE D == 0..k
           F == {0..j : j \in S \cap D}
<1>2. k \in Nat /\ F \in SUBSET SUBSET D /\ F # {}
  OBVIOUS
<1>3. PICK T : Minimal(T, F)
  <2> HIDE DEF F
  <2>1. IsFiniteSet(D)
    BY <1>2, FS_Interval
  <2> QED BY <1>2, <2>1, MinimalSet
<1>4. PICK m \in S \cap D : T = 0..m
  BY <1>3 DEF Minimal
<1>5. ASSUME NEW n \in S PROVE m <= n
  <2> SUFFICES ASSUME n < m PROVE FALSE
    BY <1>5
  <2>1. n \in S \cap D /\ 0..n \in F
    OBVIOUS
  <2>2. 0..n \subseteq 0..m /\ m \in 0..m /\ m \notin 0..n
    OBVIOUS
  <2> HIDE DEF F
  <2> QED BY <1>3, <1>4, <2>1, <2>2 DEF Minimal
<1> QED BY <1>4, <1>5

(***************************************************************************)
(* Sequences.                                                              *)
(***************************************************************************)
\* A set made a sequence, and back.
LEMMA ThereAndBack ==
  ASSUME NEW S, IsFiniteSet(S)
  PROVE  ToSet(SetToSeq(S)) = S
<1> DEFINE n == Cardinality(S)
           Q == SetToSeq(S)
<1>1. n \in Nat /\ ExistsBijection(1..n, S)
  BY FS_CardinalityType
<1>2. PICK f \in [1..n -> S] : IsInjective(f)
  BY <1>1, Fun_BijectionProperties DEF ExistsBijection, IsInjective
<1>3. Q \in [1..n -> S] /\ IsInjective(Q)
  BY <1>2 DEF SetToSeq
<1> HIDE DEF Q
<1>4. Q \in Injection(1..n, S)
  BY <1>3 DEF Injection
<1>5. IsFiniteSet(1..n) /\ Cardinality(1..n) = n
  BY <1>1, FS_Interval
<1>6. Q \in Surjection(1..n, S)
  BY <1>4, <1>5, FS_Injection
<1>7. \A x \in S : \E i \in 1..n : Q[i] = x
  BY <1>6 DEF Surjection
<1>8. ToSet(Q) = S
  BY <1>3, <1>7 DEF ToSet
<1> QED BY <1>8 DEF Q

\* What joins a sequence joins its elements.
LEMMA OneMore ==
  ASSUME NEW S, NEW w \in Seq(S), NEW x \in S
  PROVE  Range(Append(w, x)) = Range(w) \cup {x} /\ ToSet(Append(w, x)) = ToSet(w) \cup {x}
<1>1. /\ Append(w, x) \in Seq(S) /\ Len(Append(w, x)) = Len(w) + 1
      /\ \A i \in 1..Len(w) : Append(w, x)[i] = w[i]
      /\ Append(w, x)[Len(w) + 1] = x
  BY AppendProperties
<1>2. /\ DOMAIN w = 1..Len(w) /\ Len(w) \in Nat
      /\ DOMAIN Append(w, x) = 1..Len(w) + 1
  BY <1>1, LenProperties
<1> QED BY <1>1, <1>2 DEF Range, ToSet

\* The head of one sequence moves to the end of the one before it.
LEMMA HeadMoves ==
  ASSUME NEW S, NEW v \in Seq(S), NEW w \in Seq(S), w # <<>>
  PROVE  Append(v, Head(w)) \o Tail(w) = v \o w
<1>1. /\ Head(w) \in S /\ Head(w) = w[1] /\ Tail(w) \in Seq(S)
      /\ Len(Tail(w)) = Len(w) - 1
      /\ \A i \in 1..Len(Tail(w)) : Tail(w)[i] = w[i + 1]
      /\ Len(w) \in Nat \ {0} /\ Len(v) \in Nat
  BY HeadTailProperties, EmptySeq, LenProperties
<1>2. /\ Append(v, Head(w)) \in Seq(S) /\ Len(Append(v, Head(w))) = Len(v) + 1
      /\ \A i \in 1..Len(v) : Append(v, Head(w))[i] = v[i]
      /\ Append(v, Head(w))[Len(v) + 1] = w[1]
  BY <1>1, AppendProperties
<1>3. /\ v \o w \in Seq(S) /\ Len(v \o w) = Len(v) + Len(w)
      /\ \A i \in 1..Len(v) + Len(w) : (v \o w)[i] = IF i <= Len(v) THEN v[i] ELSE w[i - Len(v)]
  BY ConcatProperties
<1> DEFINE u == Append(v, Head(w))
<1>4. /\ u \o Tail(w) \in Seq(S) /\ Len(u \o Tail(w)) = Len(v) + Len(w)
      /\ \A i \in 1..Len(v) + Len(w) : (u \o Tail(w))[i] =
           IF i <= Len(v) + 1 THEN u[i] ELSE Tail(w)[i - (Len(v) + 1)]
  <2> HIDE DEF u
  <2>1. u \in Seq(S) /\ Len(u) = Len(v) + 1
    BY <1>2 DEF u
  <2>2. Len(u) + Len(Tail(w)) = Len(v) + Len(w)
    BY <1>1, <2>1
  <2>3. Tail(w) \in Seq(S)
    BY <1>1
  <2>4. /\ u \o Tail(w) \in Seq(S) /\ Len(u \o Tail(w)) = Len(u) + Len(Tail(w))
        /\ \A i \in 1..Len(u) + Len(Tail(w)) : (u \o Tail(w))[i] =
             IF i <= Len(u) THEN u[i] ELSE Tail(w)[i - Len(u)]
    BY <2>1, <2>3, ConcatProperties
  <2> QED BY <2>1, <2>2, <2>4
<1>5. ASSUME NEW i \in 1..Len(v) + Len(w)
      PROVE  (u \o Tail(w))[i] = (v \o w)[i]
  <2>1. CASE i <= Len(v)
    BY <1>1, <1>2, <1>3, <1>4, <2>1
  <2>2. CASE i = Len(v) + 1
    BY <1>1, <1>2, <1>3, <1>4, <2>2
  <2>3. CASE i > Len(v) + 1
    <3>1. i - (Len(v) + 1) \in 1..Len(Tail(w)) /\ i - (Len(v) + 1) + 1 = i - Len(v)
      BY <1>1, <2>3
    <3>2. (u \o Tail(w))[i] = Tail(w)[i - (Len(v) + 1)]
      BY <1>1, <1>4, <2>3
    <3>3. Tail(w)[i - (Len(v) + 1)] = w[i - Len(v)]
      BY <1>1, <3>1
    <3> QED BY <1>1, <1>3, <2>3, <3>2, <3>3
  <2> QED BY <1>1, <2>1, <2>2, <2>3
<1> QED BY <1>3, <1>4, <1>5, SeqEqual
===============================================================================
