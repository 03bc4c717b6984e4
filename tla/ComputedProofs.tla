--------------------------- MODULE ComputedProofs ---------------------------
(***************************************************************************)
(* Proofs about the searches of ComputedOrder, for every list of computed  *)
(* sensors of any length: the cycle check refuses exactly the lists with a *)
(* cycle, and a list without one is sorted so that each sensor comes after *)
(* those it reads.  Visits and lists of visits are followed with the       *)
(* inductions of SequenceProofs; a list without a cycle has a rank for     *)
(* each sensor, above those of the sensors it reads, and the number of     *)
(* sensors bounds how deep a visit goes.                                   *)
(***************************************************************************)
EXTENDS ComputedOrder, SequenceProofs, FiniteSetTheorems

\* Lists of computed sensors that validate can be given: no identifier twice.
Lists(S) ==
  {q \in Seq([sensor : S, inputs : Seq(S)]) :
     \A i, j \in DOMAIN q : q[i].sensor = q[j].sensor => i = j}

\* What an element of a list is.
LEMMA ListElement ==
  ASSUME NEW S, NEW q \in Lists(S), NEW j \in DOMAIN q
  PROVE  q[j].sensor \in S /\ q[j].inputs \in Seq(S)
<1> DEFINE R == [sensor : S, inputs : Seq(S)]
<1>1. q \in Seq(R)
  BY DEF Lists
<1>2. q[j] \in R
  <2> HIDE DEF R
  <2> QED
    BY <1>1
<1> QED
  BY <1>2

\* The first sensor with an identifier has it (build finds it by it).
LEMMA NamedSensor ==
  ASSUME NEW S, NEW q \in Lists(S), NEW id \in Ids(q)
  PROVE  /\ \E j \in DOMAIN q : Named(q, id) = q[j] /\ q[j].sensor = id
         /\ Named(q, id).sensor = id
         /\ Named(q, id).inputs \in Seq(S)
<1>1. PICK j \in DOMAIN q : q[j].sensor = id
  BY DEF Ids
<1> DEFINE k == CHOOSE k \in DOMAIN q : q[k].sensor = id
<1>2. k \in DOMAIN q /\ q[k].sensor = id
  BY <1>1
<1>3. Named(q, id) = q[k]
  BY DEF Named
<1> HIDE DEF k
<1> QED
  BY <1>2, <1>3, ListElement

\* Identifiers and listed identifiers are the same.
LEMMA ListedIds ==
  ASSUME NEW S, NEW q \in Lists(S)
  PROVE  /\ Ids(q) \subseteq S
         /\ Listed(q) \in Seq(Ids(q)) /\ Len(Listed(q)) = Len(q)
         /\ \A j \in DOMAIN q : /\ Listed(q)[j] = q[j].sensor
                                /\ Named(q, q[j].sensor) = q[j]
<1>1. q \in Seq([sensor : S, inputs : Seq(S)])
  BY DEF Lists
<1>2. ASSUME NEW j \in DOMAIN q PROVE q[j].sensor \in S /\ q[j].sensor \in Ids(q)
  <2>1. q[j].sensor \in Ids(q)
    BY DEF Ids
  <2> QED
    BY <2>1, ListElement
<1>3. Ids(q) \subseteq S
  BY <1>2 DEF Ids
<1>4. Listed(q) \in Seq(Ids(q)) /\ Len(Listed(q)) = Len(q)
  BY <1>1, <1>2 DEF Listed
<1>5. ASSUME NEW j \in DOMAIN q
      PROVE  Listed(q)[j] = q[j].sensor /\ Named(q, q[j].sensor) = q[j]
  <2>1. PICK k \in DOMAIN q : Named(q, q[j].sensor) = q[k] /\ q[k].sensor = q[j].sensor
    BY <1>2, NamedSensor
  <2>2. k = j
    BY <2>1 DEF Lists
  <2> QED
    BY <2>1, <2>2 DEF Listed
<1> QED
  BY <1>3, <1>4, <1>5

-----------------------------------------------------------------------------
(* One visit after the other *)

\* The states a sequence of visits goes through.
Through(tr, q, V, visits, st, ids) ==
  /\ tr \in [0..Len(ids) -> V]
  /\ tr[0] = st
  /\ \A k \in 0..(Len(ids) - 1) :
       tr[k + 1] = IF ids[k + 1] \in Ids(q) THEN visits[ids[k + 1]][tr[k]]
                   ELSE tr[k]
  /\ tr[Len(ids)] = VisitEach(q, visits, st, ids)

\* Visits that stay in a set of states go through states of the set.
LEMMA VisitsInTurn ==
  ASSUME NEW q, NEW V, NEW visits \in [Ids(q) -> [V -> V]], NEW st \in V,
         NEW X, NEW ids \in Seq(X)
  PROVE  \E tr : Through(tr, q, V, visits, st, ids)
<1> DEFINE n == Len(ids)
           One(s, i) == IF i \in Ids(q) THEN visits[i][s] ELSE s
           P(f) == f = [T \in SUBSET (1..n) |->
                          IF T = {} THEN st ELSE One(f[T \ {Max(T)}], ids[Max(T)])]
           iter == CHOOSE f : P(f)
           step == [x \in V \X (1..n) |-> One(x[1], ids[x[2]])]
<1>1. DOMAIN ids = 1..n /\ n \in Nat
  OBVIOUS
<1>2. VisitEach(q, visits, st, ids) = iter[1..n]
  BY <1>1, Zenon DEF VisitEach, FoldLeft, MapThenFoldSet
<1>3. step \in [V \X (1..n) -> V]
  OBVIOUS
<1>4. P(iter)
  <2>1. PICK g \in [SUBSET (1..n) -> V] : Solves(g, n, st, step)
    <3> HIDE DEF step, n
    <3> QED
      BY <1>1, <1>3, FoldSolution
  <2>2. ASSUME NEW T \in SUBSET (1..n), T # {}
        PROVE  step[<<g[T \ {Max(T)}], Max(T)>>] = One(g[T \ {Max(T)}], ids[Max(T)])
    <3>1. Max(T) \in 1..n
      <4>1. T \subseteq 0..n
        OBVIOUS
      <4> QED
        BY <1>1, <2>2, <4>1, MaxOfNumbers
    <3>2. g[T \ {Max(T)}] \in V
      OBVIOUS
    <3> HIDE DEF One
    <3> QED
      BY <3>1, <3>2
  <2>3. P(g)
    <3> HIDE DEF One, step
    <3> QED
      BY <2>1, <2>2 DEF Solves
  <2> HIDE DEF P
  <2> QED
    BY <2>3
<1>5. iter[1..0] = st
  <2>1. 1..0 \in SUBSET (1..n) /\ 1..0 = {}
    BY <1>1
  <2> HIDE DEF iter
  <2> QED
    BY <1>4, <2>1
<1>6. ASSUME NEW k \in 0..(n - 1)
      PROVE  iter[1..(k + 1)] = One(iter[1..k], ids[k + 1])
  <2>1. /\ 1..(k + 1) \in SUBSET (1..n) /\ 1..(k + 1) # {}
        /\ (1..(k + 1)) \ {k + 1} = 1..k
        /\ Max(1..(k + 1)) = k + 1
    <3> HIDE DEF n
    <3> QED
      BY <1>1, FirstPositions
  <2> HIDE DEF iter, One
  <2> QED
    BY <1>4, <2>1
<1> DEFINE tr == [k \in 0..n |-> iter[1..k]]
<1> HIDE DEF iter
<1>7. tr[0] = st /\ \A k \in 0..(n - 1) : tr[k + 1] = One(tr[k], ids[k + 1])
  <2>1. \A k \in 0..n : tr[k] = iter[1..k]
    OBVIOUS
  <2>2. 0 \in 0..n
    BY <1>1
  <2> HIDE DEF One, tr
  <2>3. tr[0] = st
    BY <1>5, <2>1, <2>2
  <2>4. ASSUME NEW k \in 0..(n - 1) PROVE tr[k + 1] = One(tr[k], ids[k + 1])
    <3>1. k \in 0..n /\ k + 1 \in 0..n
      BY <1>1
    <3>2. tr[k] = iter[1..k] /\ tr[k + 1] = iter[1..(k + 1)]
      BY <2>1, <3>1
    <3>3. iter[1..(k + 1)] = One(iter[1..k], ids[k + 1])
      BY <1>6
    <3> QED
      BY <3>2, <3>3
  <2> QED
    BY <2>3, <2>4
<1>8. tr \in [0..n -> V]
  <2> DEFINE Typed == {k \in 0..n : tr[k] \in V}
  <2>1. 0 \in Typed
    BY <1>1, <1>7
  <2>2. ASSUME NEW k \in 0..(n - 1), k \in Typed PROVE k + 1 \in Typed
    <3>1. One(tr[k], ids[k + 1]) \in V
      BY <2>2
    <3>2. k + 1 \in 0..n
      BY <1>1
    <3> HIDE DEF One, tr
    <3> QED
      BY <1>7, <3>1, <3>2
  <2>3. 0..n \subseteq Typed
    <3> HIDE DEF Typed, n
    <3> QED
      BY <1>1, <2>1, <2>2, IntervalInduction
  <2> QED
    BY <2>3
<1>9. tr[n] = VisitEach(q, visits, st, ids)
  BY <1>1, <1>2
<1> QED
  BY <1>7, <1>8, <1>9 DEF Through

-----------------------------------------------------------------------------
(* A list without a cycle has ranks *)

\* Each sensor has a higher rank than those it reads.
Ranks(q, rank) ==
  /\ rank \in [Ids(q) -> 0..(Len(q) - 1)]
  /\ \A id \in Ids(q) : \A i \in InputsOf(Named(q, id)) \cap Ids(q) :
       rank[i] < rank[id]

\* A list has as many positions as it is long.
LEMMA PositionsFinite ==
  ASSUME NEW S, NEW q \in Lists(S)
  PROVE  IsFiniteSet(DOMAIN q) /\ Cardinality(DOMAIN q) = Len(q) /\ Len(q) \in Nat
<1> DEFINE n == Len(q)
<1>1. DOMAIN q = 1..n /\ n \in Nat
  BY DEF Lists
<1>2. 1 \in Int /\ n \in Int /\ (IF 1 > n THEN 0 ELSE n - 1 + 1) = n
  BY <1>1
<1> HIDE DEF n
<1>3. IsFiniteSet(1..n) /\ Cardinality(1..n) = n
  BY <1>2, FS_Interval
<1> QED
  BY <1>1, <1>3 DEF n

\* With no identifier twice there are as many of them as positions.
LEMMA IdsCounted ==
  ASSUME NEW S, NEW q \in Lists(S)
  PROVE  IsFiniteSet(Ids(q)) /\ Cardinality(Ids(q)) = Len(q)
<1> DEFINE f == [j \in DOMAIN q |-> q[j].sensor]
<1>1. IsFiniteSet(DOMAIN q) /\ Cardinality(DOMAIN q) = Len(q)
  BY PositionsFinite
<1>2. f \in Surjection(DOMAIN q, Ids(q))
  BY DEF Surjection, Ids
<1>3. f \in Injection(DOMAIN q, Ids(q))
  BY <1>2 DEF Injection, IsInjective, Surjection, Lists
<1> HIDE DEF f
<1> QED
  BY <1>1, <1>2, <1>3, FS_Surjection

LEMMA AcyclicHasRanks ==
  ASSUME NEW S, NEW q \in Lists(S), Acyclic(q)
  PROVE  \E rank : Ranks(q, rank)
<1> DEFINE RanksOf(r, T) ==
             /\ r \in [T -> 0..(Cardinality(T) - 1)]
             /\ \A j, k \in T : q[k].sensor \in InputsOf(q[j]) => r[k] < r[j]
           Has == {n \in Nat : \A T \in SUBSET DOMAIN q :
                     Cardinality(T) = n => \E r : RanksOf(r, T)}
<1>0. IsFiniteSet(DOMAIN q) /\ Cardinality(DOMAIN q) = Len(q) /\ Len(q) \in Nat
  BY PositionsFinite
<1>1. 0 \in Has
  <2>1. SUFFICES ASSUME NEW T \in SUBSET DOMAIN q, Cardinality(T) = 0
                 PROVE  \E r : RanksOf(r, T)
    OBVIOUS
  <2>2. T = {}
    BY <1>0, <2>1, FS_Subset, FS_EmptySet
  <2>3. RanksOf([x \in T |-> 0], T)
    BY <2>2
  <2> QED
    BY <2>3
<1>2. ASSUME NEW n \in Nat, n \in Has PROVE n + 1 \in Has
  <2>1. SUFFICES ASSUME NEW T \in SUBSET DOMAIN q, Cardinality(T) = n + 1
                 PROVE  \E r : RanksOf(r, T)
    OBVIOUS
  <2>2. IsFiniteSet(T) /\ T # {}
    BY <1>0, <2>1, FS_Subset, FS_EmptySet
  <2>3. PICK j \in T : InputsOf(q[j]) \cap {q[k].sensor : k \in T} = {}
    BY <2>2 DEF Acyclic
  <2>4. Cardinality(T \ {j}) = n
    <3>1. Cardinality(T \ {j}) = Cardinality(T) - 1
      BY <2>2, FS_RemoveElement
    <3> QED
      BY <2>1, <3>1
  <2>5. PICK r : RanksOf(r, T \ {j})
    BY <1>2, <2>4
  <2> DEFINE s == [k \in T |-> IF k = j THEN 0 ELSE r[k] + 1]
  <2>6. s \in [T -> 0..((n + 1) - 1)]
    BY <2>4, <2>5
  <2>7. ASSUME NEW a \in T, NEW k \in T, q[k].sensor \in InputsOf(q[a])
        PROVE  s[k] < s[a]
    <3>1. a # j
      BY <2>3, <2>7
    <3>2. CASE k = j
      <4>1. r[a] \in 0..(n - 1)
        BY <2>4, <2>5, <3>1
      <4> QED
        BY <3>1, <3>2, <4>1
    <3>3. CASE k # j
      <4>1. r[a] \in 0..(n - 1) /\ r[k] \in 0..(n - 1) /\ r[k] < r[a]
        BY <2>4, <2>5, <2>7, <3>1, <3>3
      <4> QED
        BY <3>1, <3>3, <4>1
    <3> QED
      BY <3>2, <3>3
  <2> HIDE DEF s
  <2> QED
    BY <2>1, <2>6, <2>7
<1>3. Len(q) \in Has
  <2> HIDE DEF Has
  <2> QED
    BY <1>0, <1>1, <1>2, InductiveSet
<1>4. PICK r : RanksOf(r, DOMAIN q)
  BY <1>0, <1>3
<1> DEFINE At(id) == CHOOSE j \in DOMAIN q : q[j].sensor = id
           rank == [id \in Ids(q) |-> r[At(id)]]
<1>5. ASSUME NEW id \in Ids(q)
      PROVE  At(id) \in DOMAIN q /\ q[At(id)].sensor = id /\ Named(q, id) = q[At(id)]
  <2>1. \E j \in DOMAIN q : q[j].sensor = id
    BY DEF Ids
  <2> QED
    BY <2>1 DEF Named
<1> HIDE DEF At
<1>6. rank \in [Ids(q) -> 0..(Len(q) - 1)]
  BY <1>0, <1>4, <1>5
<1>7. ASSUME NEW id \in Ids(q), NEW i \in InputsOf(Named(q, id)) \cap Ids(q)
      PROVE  rank[i] < rank[id]
  BY <1>4, <1>5
<1> QED
  BY <1>6, <1>7 DEF Ranks

-----------------------------------------------------------------------------
(* One visit after the other, from state to state *)

Elements(order) == {order[p] : p \in DOMAIN order}

\* The sensors that are visited and not yet placed.
Opened(st) == st.visited \ Elements(st.order)

\* The order so far is good: no sensor twice, each after those it reads.
GoodOrder(q, order) ==
  /\ \A a, b \in DOMAIN order : order[a] = order[b] => a = b
  /\ \A b \in DOMAIN order : \A i \in InputsOf(Named(q, order[b])) \cap Ids(q) :
       \E a \in DOMAIN order : a < b /\ order[a] = i

Good(q, st) == /\ st \in SortStates(q)
               /\ Elements(st.order) \subseteq st.visited
               /\ GoodOrder(q, st.order)

\* A visit places the sensors of X, and others, and leaves none open.
Placed(q, st, res, X) ==
  /\ Good(q, res)
  /\ Opened(res) = Opened(st)
  /\ Elements(st.order) \cup X \subseteq Elements(res.order)

\* Visits that each place their sensor, one after the other, place all of theirs.
LEMMA EachPlaced ==
  ASSUME NEW q, NEW visits \in [Ids(q) -> [SortStates(q) -> SortStates(q)]],
         NEW st, Good(q, st), NEW X, NEW ids \in Seq(X),
         \A i \in Elements(ids) \cap Ids(q) : \A s \in SortStates(q) :
            Good(q, s) /\ Opened(s) = Opened(st) => Placed(q, s, visits[i][s], {i})
  PROVE  Placed(q, st, VisitEach(q, visits, st, ids), Elements(ids) \cap Ids(q))
<1> DEFINE V == SortStates(q)
           n == Len(ids)
           First(k) == {ids[j] : j \in 1..k} \cap Ids(q)
<1>1. st \in V
  BY DEF Good
<1>2. PICK tr : Through(tr, q, V, visits, st, ids)
  BY <1>1, VisitsInTurn
<1>3. n \in Nat /\ DOMAIN ids = 1..n
  OBVIOUS
<1> DEFINE Has == {k \in 0..n : Placed(q, st, tr[k], First(k))}
<1>4. 0 \in Has
  <2>1. tr[0] = st /\ First(0) = {} /\ 0 \in 0..n
    BY <1>2, <1>3 DEF Through
  <2> QED
    BY <2>1 DEF Placed
<1>5. ASSUME NEW k \in 0..(n - 1), k \in Has PROVE k + 1 \in Has
  <2>1. k + 1 \in 1..n /\ k + 1 \in 0..n /\ k \in 0..n
    BY <1>3
  <2>2. tr[k + 1] = IF ids[k + 1] \in Ids(q) THEN visits[ids[k + 1]][tr[k]] ELSE tr[k]
    BY <1>2 DEF Through
  <2>3. First(k + 1) \subseteq First(k) \cup ({ids[k + 1]} \cap Ids(q))
    <3>1. \A j \in 1..(k + 1) : j \in 1..k \/ j = k + 1
      OBVIOUS
    <3> QED
      BY <3>1
  <2>4. Placed(q, st, tr[k], First(k)) /\ tr[k] \in V
    BY <1>2, <1>5, <2>1 DEF Through
  <2>5. CASE ids[k + 1] \in Ids(q)
    <3>1. ids[k + 1] \in Elements(ids) \cap Ids(q)
      BY <1>3, <2>1, <2>5 DEF Elements
    <3>2. Good(q, tr[k]) /\ Opened(tr[k]) = Opened(st)
      BY <2>4 DEF Placed
    <3>3. Placed(q, tr[k], tr[k + 1], {ids[k + 1]})
      BY <2>2, <2>4, <2>5, <3>1, <3>2
    <3>4. Placed(q, st, tr[k + 1], First(k + 1))
      <4> HIDE DEF First
      <4> QED
        BY <2>3, <2>4, <3>3 DEF Placed
    <3> QED
      BY <2>1, <3>4
  <2>6. CASE ids[k + 1] \notin Ids(q)
    <3>1. First(k + 1) \subseteq First(k)
      BY <2>3, <2>6
    <3>2. Placed(q, st, tr[k + 1], First(k + 1))
      <4> HIDE DEF First
      <4> QED
        BY <2>2, <2>4, <2>6, <3>1 DEF Placed
    <3> QED
      BY <2>1, <3>2
  <2> QED
    BY <2>5, <2>6
<1>6. n \in Has
  <2> HIDE DEF Has, n
  <2>1. 0..n \subseteq Has
    BY <1>3, <1>4, <1>5, IntervalInduction
  <2> QED
    BY <1>3, <2>1
<1>7. First(n) = Elements(ids) \cap Ids(q)
  BY <1>3 DEF Elements
<1> QED
  BY <1>2, <1>6, <1>7 DEF Through

\* What a visit promises of a sensor, in a good state where no open sensor has
\* a rank as low as its own.
Above(rank, st, id) == \A i \in Opened(st) : rank[i] > rank[id]

\* A visit goes from a state of the search to a state of the search.
LEMMA VisitOneTyped ==
  ASSUME NEW S, NEW q \in Lists(S), NEW st \in SortStates(q), NEW id \in Ids(q),
         NEW visits \in [Ids(q) -> [SortStates(q) -> SortStates(q)]]
  PROVE  VisitOne(q, visits, st, id) \in SortStates(q)
<1> DEFINE V == SortStates(q)
           st1 == [st EXCEPT !.visited = @ \cup {id}]
           ids == Named(q, id).inputs
           below == VisitEach(q, visits, st1, ids)
<1>1. st1 \in V
  BY DEF SortStates
<1>2. ids \in Seq(S)
  BY NamedSensor
<1>3. below \in V
  <2>1. PICK tr : Through(tr, q, V, visits, st1, ids)
    <3> HIDE DEF st1, ids
    <3> QED
      BY <1>1, <1>2, VisitsInTurn
  <2>2. Len(ids) \in 0..Len(ids)
    BY <1>2
  <2> QED
    BY <2>1, <2>2 DEF Through
<1>4. Place(st, id, below) \in V
  <2> HIDE DEF below
  <2>1. below.order \in Seq(Ids(q)) /\ below.visited \in SUBSET Ids(q)
    BY <1>3 DEF SortStates
  <2>2. Append(below.order, id) \in Seq(Ids(q))
    BY <2>1
  <2> QED
    BY <1>3, <2>1, <2>2 DEF Place, SortStates
<1> QED
  BY <1>4 DEF VisitOne

\* A visit places its sensor after everything it reads.
LEMMA OnePlaced ==
  ASSUME NEW S, NEW q \in Lists(S), NEW rank, Ranks(q, rank),
         NEW visits \in [Ids(q) -> [SortStates(q) -> SortStates(q)]],
         NEW st, Good(q, st), NEW id \in Ids(q), Above(rank, st, id),
         \A i \in Ids(q) : rank[i] < rank[id] =>
            \A s \in SortStates(q) : Good(q, s) /\ Above(rank, s, i) =>
               Placed(q, s, visits[i][s], {i})
  PROVE  Placed(q, st, VisitOne(q, visits, st, id), {id})
<1>0. st \in SortStates(q) /\ rank \in [Ids(q) -> 0..(Len(q) - 1)]
  BY DEF Good, Ranks
<1>1. CASE id \in st.visited
  <2>1. VisitOne(q, visits, st, id) = st
    BY <1>1 DEF VisitOne
  <2>2. rank[id] \in Int
    BY <1>0
  <2>3. id \notin Opened(st)
    BY <2>2 DEF Above
  <2>4. id \in Elements(st.order)
    BY <1>1, <2>3 DEF Opened
  <2> QED
    BY <2>1, <2>4 DEF Placed
<1>2. CASE id \notin st.visited
  <2> DEFINE st1 == [st EXCEPT !.visited = @ \cup {id}]
             ids == Named(q, id).inputs
             below == VisitEach(q, visits, st1, ids)
             res == Place(st, id, below)
  <2>1. ids \in Seq(S)
    BY NamedSensor
  <2>2. /\ st1 \in SortStates(q)
        /\ st1.visited = st.visited \cup {id} /\ st1.order = st.order
    BY <1>0 DEF SortStates
  <2>3. Good(q, st1) /\ Opened(st1) = Opened(st) \cup {id}
    <3> HIDE DEF st1
    <3> QED
      BY <1>2, <2>2 DEF Good, Opened
  <2>4. ASSUME NEW i \in Elements(ids) \cap Ids(q), NEW s \in SortStates(q),
               Good(q, s), Opened(s) = Opened(st1)
        PROVE  Placed(q, s, visits[i][s], {i})
    <3>1. rank[i] < rank[id]
      BY DEF Ranks, InputsOf, Elements
    <3>2. ASSUME NEW j \in Opened(s) PROVE rank[j] > rank[i]
      <4>1. j \in Ids(q)
        BY DEF Opened, SortStates
      <4>2. rank[j] \in Int /\ rank[id] \in Int /\ rank[i] \in Int
        BY <1>0, <4>1
      <4>3. j = id \/ rank[j] > rank[id]
        BY <2>3, <2>4 DEF Above
      <4> QED
        BY <3>1, <4>2, <4>3
    <3> QED
      BY <2>4, <3>1, <3>2 DEF Above
  <2>5. Placed(q, st1, below, Elements(ids) \cap Ids(q))
    <3> HIDE DEF st1, ids
    <3> QED
      BY <2>1, <2>3, <2>4, EachPlaced
  <2>6. VisitOne(q, visits, st, id) = res
    BY <1>2 DEF VisitOne
  <2> HIDE DEF below
  <2>7. /\ below \in SortStates(q) /\ below.order \in Seq(Ids(q))
        /\ GoodOrder(q, below.order) /\ Elements(below.order) \subseteq below.visited
        /\ Opened(below) = Opened(st) \cup {id}
        /\ Elements(st.order) \subseteq Elements(below.order)
        /\ Elements(ids) \cap Ids(q) \subseteq Elements(below.order)
    <3> HIDE DEF st1, ids
    <3>1. Good(q, below) /\ Opened(below) = Opened(st) \cup {id}
      BY <2>3, <2>5 DEF Placed
    <3>2. Elements(st.order) \cup (Elements(ids) \cap Ids(q)) \subseteq Elements(below.order)
      BY <2>2, <2>5 DEF Placed
    <3> QED
      BY <3>1, <3>2 DEF Good, SortStates
  <2> DEFINE m == Len(below.order)
  <2>8. /\ res \in SortStates(q)
        /\ res.visited = below.visited
        /\ res.order = Append(below.order, id)
    <3> HIDE DEF st1, ids
    <3>1. Append(below.order, id) \in Seq(Ids(q))
      BY <2>7
    <3> QED
      BY <2>7, <3>1 DEF Place, SortStates
  <2>9. /\ DOMAIN below.order = 1..m /\ m \in Nat
        /\ DOMAIN res.order = 1..(m + 1)
        /\ res.order[m + 1] = id
        /\ \A a \in 1..m : res.order[a] = below.order[a]
    BY <2>7, <2>8
  <2> HIDE DEF res
  <2>10. id \in below.visited /\ id \notin Elements(below.order)
    BY <2>7 DEF Opened
  <2>11. Elements(res.order) = Elements(below.order) \cup {id}
    <3>1. \A a \in 1..(m + 1) : a \in 1..m \/ a = m + 1
      BY <2>9
    <3>2. \A a \in 1..m : a \in 1..(m + 1)
      BY <2>9
    <3> HIDE DEF m, st1, ids
    <3>3. Elements(res.order) \subseteq Elements(below.order) \cup {id}
      BY <2>9, <3>1 DEF Elements
    <3>4. Elements(below.order) \subseteq Elements(res.order)
      BY <2>9, <3>2 DEF Elements
    <3>5. m + 1 \in 1..(m + 1)
      BY <2>9
    <3>6. id \in Elements(res.order)
      BY <2>9, <3>5 DEF Elements
    <3> QED
      BY <3>3, <3>4, <3>6
  <2>12. GoodOrder(q, res.order)
    <3> HIDE DEF ids
    <3>1. ASSUME NEW a \in 1..(m + 1), NEW b \in 1..(m + 1), res.order[a] = res.order[b]
          PROVE  a = b
      <4>1. \A c \in 1..m : res.order[c] # id
        BY <2>9, <2>10 DEF Elements
      <4>2. CASE a = m + 1 \/ b = m + 1
        BY <2>9, <3>1, <4>1, <4>2
      <4>3. CASE a \in 1..m /\ b \in 1..m
        BY <2>7, <2>9, <3>1, <4>3 DEF GoodOrder
      <4> QED
        BY <2>9, <4>2, <4>3
    <3>2. ASSUME NEW b \in 1..(m + 1),
                 NEW i \in InputsOf(Named(q, res.order[b])) \cap Ids(q)
          PROVE  \E a \in 1..(m + 1) : a < b /\ res.order[a] = i
      <4>1. CASE b = m + 1
        <5>1. i \in Elements(ids) \cap Ids(q)
          BY <2>9, <4>1 DEF InputsOf, Elements, ids
        <5>2. PICK a \in 1..m : below.order[a] = i
          BY <2>7, <2>9, <5>1 DEF Elements
        <5>3. a \in 1..(m + 1) /\ a < b
          BY <2>9, <4>1
        <5> QED
          BY <2>9, <5>2, <5>3
      <4>2. CASE b \in 1..m
        <5>1. PICK a \in 1..m : a < b /\ below.order[a] = i
          BY <2>7, <2>9, <4>2 DEF GoodOrder
        <5>2. a \in 1..(m + 1)
          BY <2>9
        <5> QED
          BY <2>9, <5>1, <5>2
      <4> QED
        BY <2>9, <4>1, <4>2
    <3> QED
      BY <2>9, <3>1, <3>2 DEF GoodOrder
  <2>13. Good(q, res)
    BY <2>7, <2>8, <2>10, <2>11, <2>12 DEF Good
  <2>14. Opened(res) = Opened(st)
    <3>1. id \notin Opened(st)
      BY <1>2 DEF Opened
    <3> QED
      BY <2>7, <2>8, <2>11, <3>1 DEF Opened
  <2> QED
    BY <2>6, <2>7, <2>11, <2>13, <2>14 DEF Placed
<1> QED
  BY <1>1, <1>2

-----------------------------------------------------------------------------
(* The whole search *)

\* The visits by the number of levels they may have.
Levels(visit, q) ==
  /\ visit \in [Nat -> [Ids(q) -> [SortStates(q) -> SortStates(q)]]]
  /\ \A n \in Nat : \A id \in Ids(q) : \A st \in SortStates(q) :
       visit[n + 1][id][st] = VisitOne(q, visit[n], st, id)

\* The recursion by which Visit is defined has a solution.
LEMMA VisitLevels ==
  ASSUME NEW S, NEW q \in Lists(S)
  PROVE  \E visit : Levels(visit, q) /\ Visit(q) = visit[Len(q)]
<1> DEFINE V == SortStates(q)
           F == [Ids(q) -> [V -> V]]
           Next(f) == [id \in Ids(q) |-> [st \in V |-> VisitOne(q, f, st, id)]]
           none == [id \in Ids(q) |-> [st \in V |-> st]]
           step == [x \in F \X Nat |-> Next(x[1])]
           P(visit) == visit = [n \in Nat |-> [id \in Ids(q) |-> [st \in V |->
                         IF n = 0 THEN st ELSE VisitOne(q, visit[n - 1], st, id)]]]
           visit == CHOOSE visit : P(visit)
<1>1. Visit(q) = visit[Len(q)]
  BY Zenon DEF Visit
<1>2. ASSUME NEW f \in F PROVE Next(f) \in F
  BY VisitOneTyped
<1>3. none \in F
  OBVIOUS
<1>4. step \in [F \X Nat -> F]
  <2> HIDE DEF Next, F
  <2> QED
    BY <1>2
<1>5. \E g \in [Nat -> F] : Steps(g, none, step)
  <2> HIDE DEF F, none, step
  <2> QED
    BY <1>3, <1>4, Iteration
<1>6. PICK g \in [Nat -> F] : Steps(g, none, step)
  BY <1>5
<1>7. g[0] = none /\ \A n \in Nat : g[n + 1] = Next(g[n])
  <2> HIDE DEF F, none, Next
  <2>1. \A n \in Nat : g[n] \in F /\ n + 1 \in Nat
    BY <1>6
  <2>2. \A n \in Nat : step[<<g[n], n + 1>>] = Next(g[n])
    BY <2>1
  <2> HIDE DEF step
  <2> QED
    BY <1>6, <2>2 DEF Steps
<1>8. P(g)
  <2>1. ASSUME NEW n \in Nat
        PROVE  g[n] = [id \in Ids(q) |-> [st \in V |->
                         IF n = 0 THEN st ELSE VisitOne(q, g[n - 1], st, id)]]
    <3>1. CASE n = 0
      BY <1>7, <3>1
    <3>2. CASE n # 0
      <4>1. n - 1 \in Nat /\ (n - 1) + 1 = n
        BY <3>2
      <4>2. g[n] = Next(g[n - 1])
        <5> HIDE DEF Next
        <5> QED
          BY <1>7, <4>1
      <4> QED
        BY <3>2, <4>2
    <3> QED
      BY <3>1, <3>2
  <2> QED
    BY <1>6, <2>1
<1>9. P(visit)
  <2> HIDE DEF P
  <2> QED
    BY <1>8
<1> HIDE DEF visit
<1>10. ASSUME NEW n \in Nat
       PROVE  visit[n] = g[n]
  <2> DEFINE Same == {k \in Nat : visit[k] = g[k]}
  <2>1. 0 \in Same
    <3>1. visit[0] = [id \in Ids(q) |-> [st \in V |->
                         IF 0 = 0 THEN st ELSE VisitOne(q, visit[0 - 1], st, id)]]
      BY <1>9
    <3> QED
      BY <1>7, <3>1
  <2>2. ASSUME NEW k \in Nat, k \in Same PROVE k + 1 \in Same
    <3>1. k + 1 \in Nat /\ k + 1 # 0 /\ (k + 1) - 1 = k
      OBVIOUS
    <3>2. visit[k + 1] = [id \in Ids(q) |-> [st \in V |->
             IF k + 1 = 0 THEN st ELSE VisitOne(q, visit[(k + 1) - 1], st, id)]]
      BY <1>9, <3>1
    <3>3. visit[k + 1] = Next(visit[k])
      BY <3>1, <3>2
    <3> HIDE DEF Next
    <3> QED
      BY <1>7, <2>2, <3>1, <3>3
  <2>3. Nat \subseteq Same
    <3> HIDE DEF Same
    <3> QED
      BY <2>1, <2>2, InductiveSet
  <2> QED
    BY <2>3
<1>11. Levels(g, q)
  <2>1. ASSUME NEW n \in Nat, NEW id \in Ids(q), NEW st \in V
        PROVE  g[n + 1][id][st] = VisitOne(q, g[n], st, id)
    <3>1. g[n + 1] = Next(g[n])
      <4> HIDE DEF Next
      <4> QED
        BY <1>7
    <3> QED
      BY <3>1
  <2> QED
    BY <1>6, <2>1 DEF Levels
<1>12. Len(q) \in Nat
  BY DEF Lists
<1> QED
  BY <1>1, <1>10, <1>11, <1>12

\* With one level more than the rank of a sensor, the visit places it.
LEMMA VisitPlaces ==
  ASSUME NEW S, NEW q \in Lists(S), NEW rank, Ranks(q, rank),
         NEW visit, Levels(visit, q),
         NEW n \in Nat, NEW id \in Ids(q), rank[id] < n,
         NEW st, Good(q, st), Above(rank, st, id)
  PROVE  Placed(q, st, visit[n][id][st], {id})
<1> DEFINE Has == {m \in Nat : \A i \in Ids(q) : rank[i] < m =>
                     \A s \in SortStates(q) : Good(q, s) /\ Above(rank, s, i) =>
                        Placed(q, s, visit[m][i][s], {i})}
<1>1. rank \in [Ids(q) -> 0..(Len(q) - 1)] /\ Len(q) \in Nat
  BY DEF Ranks, Lists
<1>2. 0 \in Has
  <2>1. \A i \in Ids(q) : ~ (rank[i] < 0)
    BY <1>1
  <2> QED
    BY <2>1
<1>3. ASSUME NEW m \in Nat, m \in Has PROVE m + 1 \in Has
  <2>1. SUFFICES ASSUME NEW i \in Ids(q), rank[i] < m + 1, NEW s \in SortStates(q),
                        Good(q, s), Above(rank, s, i)
                 PROVE  Placed(q, s, visit[m + 1][i][s], {i})
    OBVIOUS
  <2>2. visit[m] \in [Ids(q) -> [SortStates(q) -> SortStates(q)]]
    BY DEF Levels
  <2>3. visit[m + 1][i][s] = VisitOne(q, visit[m], s, i)
    BY DEF Levels
  <2>4. \A j \in Ids(q) : rank[j] < rank[i] => rank[j] < m
    BY <1>1, <2>1
  <2>5. \A j \in Ids(q) : rank[j] < rank[i] =>
          \A r \in SortStates(q) : Good(q, r) /\ Above(rank, r, j) =>
             Placed(q, r, visit[m][j][r], {j})
    BY <1>3, <2>4
  <2>6. Placed(q, s, VisitOne(q, visit[m], s, i), {i})
    <3> HIDE DEF Has
    <3> QED
      BY <2>1, <2>2, <2>5, OnePlaced
  <2> QED
    BY <2>3, <2>6
<1>4. Nat \subseteq Has
  <2> HIDE DEF Has
  <2> QED
    BY <1>2, <1>3, InductiveSet
<1> QED
  BY <1>4 DEF Good

\* build: for every list of computed sensors that validate accepts, whatever
\* their names and number, the order lists the same sensors, none twice, and
\* each after the computed sensors it reads.
THEOREM BuildSorts ==
  ASSUME NEW S, NEW q \in Lists(S), Acyclic(q)
  PROVE  /\ BuildOrder(q) \in Lists(S)
         /\ Len(BuildOrder(q)) = Len(q)
         /\ Elements(BuildOrder(q)) = Elements(q)
         /\ \A b \in DOMAIN BuildOrder(q) :
              \A i \in InputsOf(BuildOrder(q)[b]) \cap Ids(q) :
                \E a \in DOMAIN BuildOrder(q) :
                  a < b /\ BuildOrder(q)[a].sensor = i
<1> DEFINE empty == [visited |-> {}, order |-> <<>>]
           last == VisitEach(q, Visit(q), empty, Listed(q))
           R == [sensor : S, inputs : Seq(S)]
           order == BuildOrder(q)
<1>1. PICK rank : Ranks(q, rank)
  BY AcyclicHasRanks
<1>2. PICK visit : Levels(visit, q) /\ Visit(q) = visit[Len(q)]
  BY VisitLevels
<1>3. /\ rank \in [Ids(q) -> 0..(Len(q) - 1)] /\ Len(q) \in Nat
      /\ Visit(q) \in [Ids(q) -> [SortStates(q) -> SortStates(q)]]
  BY <1>1, <1>2 DEF Ranks, Lists, Levels
<1>4. Good(q, empty) /\ Opened(empty) = {}
  BY DEF Good, SortStates, Elements, GoodOrder, Opened
<1> HIDE DEF empty
<1>5. ASSUME NEW i \in Elements(Listed(q)) \cap Ids(q), NEW s \in SortStates(q),
             Good(q, s), Opened(s) = Opened(empty)
      PROVE  Placed(q, s, Visit(q)[i][s], {i})
  <2>1. Above(rank, s, i)
    BY <1>4, <1>5 DEF Above
  <2>2. rank[i] < Len(q)
    BY <1>3
  <2> QED
    BY <1>1, <1>2, <1>3, <1>5, <2>1, <2>2, VisitPlaces
<1>6. Listed(q) \in Seq(Ids(q)) /\ Elements(Listed(q)) = Ids(q)
  <2>1. Elements(Listed(q)) = Ids(q)
    BY DEF Elements, Listed, Ids
  <2> QED
    BY <2>1, ListedIds
<1>7. Placed(q, empty, last, Elements(Listed(q)) \cap Ids(q))
  BY <1>3, <1>4, <1>5, <1>6, EachPlaced
<1> HIDE DEF last
<1>8. /\ last.order \in Seq(Ids(q)) /\ GoodOrder(q, last.order)
      /\ Elements(last.order) = Ids(q)
  <2>1. Good(q, last) /\ Ids(q) \subseteq Elements(last.order)
    BY <1>6, <1>7 DEF Placed
  <2>2. last.visited \in SUBSET Ids(q) /\ last.order \in Seq(Ids(q))
    BY <2>1 DEF Good, SortStates
  <2> QED
    BY <2>1, <2>2 DEF Good
<1>9. order = [j \in DOMAIN last.order |-> Named(q, last.order[j])]
  BY DEF BuildOrder, last, empty
<1> HIDE DEF order
<1>10. ASSUME NEW id \in Ids(q)
       PROVE  /\ Named(q, id) \in R
              /\ Named(q, id).sensor = id
              /\ Named(q, id) \in Elements(q)
  <2>1. PICK j \in DOMAIN q : Named(q, id) = q[j] /\ q[j].sensor = id
    BY NamedSensor
  <2>2. q \in Seq(R)
    BY DEF Lists
  <2>3. q[j] \in R
    <3> HIDE DEF R
    <3> QED
      BY <2>2
  <2> QED
    BY <2>1, <2>3 DEF Elements
<1>11. /\ DOMAIN order = DOMAIN last.order
       /\ \A j \in DOMAIN order : last.order[j] \in Ids(q)
                                  /\ order[j] = Named(q, last.order[j])
                                  /\ order[j].sensor = last.order[j]
  BY <1>8, <1>9, <1>10
<1>12. order \in Lists(S)
  <2>1. order \in Seq(R)
    <3> HIDE DEF R
    <3>1. last.order \in Seq(Ids(q))
      BY <1>8
    <3>2. DOMAIN last.order = 1..Len(last.order) /\ Len(last.order) \in Nat
      BY <3>1
    <3>3. \A j \in DOMAIN order : order[j] \in R
      BY <1>10, <1>11
    <3>4. order = [j \in 1..Len(last.order) |-> order[j]]
      BY <1>9, <3>2
    <3>5. \A j \in 1..Len(last.order) : order[j] \in R
      BY <1>11, <3>2, <3>3
    <3> QED
      BY <3>2, <3>4, <3>5
  <2>2. \A a, b \in DOMAIN order : order[a].sensor = order[b].sensor => a = b
    BY <1>8, <1>11 DEF GoodOrder
  <2> QED
    BY <2>1, <2>2 DEF Lists
<1>13. Elements(order) = Elements(q)
  <2>1. Elements(order) \subseteq Elements(q)
    BY <1>10, <1>11 DEF Elements
  <2>2. ASSUME NEW j \in DOMAIN q PROVE q[j] \in Elements(order)
    <3>1. q[j].sensor \in Ids(q) /\ Named(q, q[j].sensor) = q[j]
      BY ListedIds DEF Ids
    <3>2. PICK k \in DOMAIN last.order : last.order[k] = q[j].sensor
      BY <1>8, <3>1 DEF Elements
    <3>3. order[k] = q[j] /\ k \in DOMAIN order
      BY <1>11, <3>1, <3>2
    <3> QED
      BY <3>3 DEF Elements
  <2>3. Elements(q) \subseteq Elements(order)
    BY <2>2 DEF Elements
  <2> QED
    BY <2>1, <2>3
<1>14. ASSUME NEW b \in DOMAIN order, NEW i \in InputsOf(order[b]) \cap Ids(q)
       PROVE  \E a \in DOMAIN order : a < b /\ order[a].sensor = i
  BY <1>8, <1>11 DEF GoodOrder
<1>15. Len(order) = Len(q)
  <2>1. Ids(order) = Ids(q)
    <3>1. Ids(order) = {r.sensor : r \in Elements(order)}
      BY DEF Ids, Elements
    <3>2. Ids(q) = {r.sensor : r \in Elements(q)}
      BY DEF Ids, Elements
    <3> QED
      BY <1>13, <3>1, <3>2
  <2> QED
    BY <1>12, <2>1, IdsCounted
<1> QED
  BY <1>12, <1>13, <1>14, <1>15 DEF order

-----------------------------------------------------------------------------
(* The cycle check *)

\* Visits that keep P, and of which that of i reaches Q[i] and none leaves it,
\* reach Q[i] for each sensor i that is visited.
LEMMA EachReaches ==
  ASSUME NEW q, NEW V, NEW visits \in [Ids(q) -> [V -> V]], NEW X,
         NEW ids \in Seq(X), NEW P \in SUBSET V, NEW st \in P, NEW Q,
         \A i \in Elements(ids) \cap Ids(q) : \A s \in P :
            /\ visits[i][s] \in P /\ visits[i][s] \in Q[i]
            /\ \A j \in Ids(q) : s \in Q[j] => visits[i][s] \in Q[j]
  PROVE  /\ VisitEach(q, visits, st, ids) \in P
         /\ \A i \in Elements(ids) \cap Ids(q) : VisitEach(q, visits, st, ids) \in Q[i]
<1> DEFINE n == Len(ids)
<1>1. PICK tr : Through(tr, q, V, visits, st, ids)
  BY VisitsInTurn
<1>2. n \in Nat /\ DOMAIN ids = 1..n
  OBVIOUS
<1> DEFINE Has == {k \in 0..n : /\ tr[k] \in P
                                /\ \A j \in 1..k : ids[j] \in Ids(q) => tr[k] \in Q[ids[j]]}
<1>3. 0 \in Has
  BY <1>1, <1>2 DEF Through
<1>4. ASSUME NEW k \in 0..(n - 1), k \in Has PROVE k + 1 \in Has
  <2>1. k + 1 \in 1..n /\ k + 1 \in 0..n
    BY <1>2
  <2>2. tr[k + 1] = IF ids[k + 1] \in Ids(q) THEN visits[ids[k + 1]][tr[k]] ELSE tr[k]
    BY <1>1 DEF Through
  <2>3. \A j \in 1..(k + 1) : j \in 1..k \/ j = k + 1
    OBVIOUS
  <2>4. \A j \in 1..k : ids[j] \in Ids(q) => tr[k] \in Q[ids[j]]
    BY <1>4
  <2>5. tr[k] \in P
    BY <1>4
  <2>6. CASE ids[k + 1] \in Ids(q)
    <3>1. ids[k + 1] \in Elements(ids) \cap Ids(q)
      BY <1>2, <2>1, <2>6 DEF Elements
    <3>2. /\ tr[k + 1] \in P /\ tr[k + 1] \in Q[ids[k + 1]]
          /\ \A j \in Ids(q) : tr[k] \in Q[j] => tr[k + 1] \in Q[j]
      BY <2>2, <2>5, <2>6, <3>1
    <3>3. \A j \in 1..(k + 1) : ids[j] \in Ids(q) => tr[k + 1] \in Q[ids[j]]
      BY <2>3, <2>4, <3>2
    <3> QED
      BY <2>1, <3>2, <3>3
  <2>7. CASE ids[k + 1] \notin Ids(q)
    <3>1. \A j \in 1..(k + 1) : ids[j] \in Ids(q) => tr[k + 1] \in Q[ids[j]]
      BY <2>2, <2>3, <2>4, <2>7
    <3> QED
      BY <2>1, <2>2, <2>5, <2>7, <3>1
  <2> QED
    BY <2>6, <2>7
<1>5. n \in Has
  <2> HIDE DEF Has, n
  <2>1. 0..n \subseteq Has
    BY <1>2, <1>3, <1>4, IntervalInduction
  <2> QED
    BY <1>2, <2>1
<1>6. tr[n] = VisitEach(q, visits, st, ids)
  BY <1>1 DEF Through
<1>7. ASSUME NEW i \in Elements(ids) \cap Ids(q) PROVE tr[n] \in Q[i]
  BY <1>2, <1>5 DEF Elements
<1> QED
  BY <1>5, <1>6, <1>7

\* A visit of the cycle check goes from a state of it to a state of it.
LEMMA CheckOneTyped ==
  ASSUME NEW S, NEW q \in Lists(S), NEW st \in CheckStates(q), NEW id \in Ids(q),
         NEW checks \in [Ids(q) -> [CheckStates(q) -> CheckStates(q)]]
  PROVE  CheckOne(q, checks, st, id) \in CheckStates(q)
<1> DEFINE V == CheckStates(q)
           st1 == [st EXCEPT !.mark[id] = "open"]
           ids == Named(q, id).inputs
           below == VisitEach(q, checks, st1, ids)
<1>1. st1 \in V /\ [st EXCEPT !.cycle = TRUE] \in V
  BY DEF CheckStates
<1>2. ids \in Seq(S)
  BY NamedSensor
<1>3. below \in V
  <2>1. PICK tr : Through(tr, q, V, checks, st1, ids)
    <3> HIDE DEF st1, ids
    <3> QED
      BY <1>1, <1>2, VisitsInTurn
  <2>2. Len(ids) \in 0..Len(ids)
    BY <1>2
  <2> QED
    BY <2>1, <2>2 DEF Through
<1>4. Closed(below, id) \in V
  <2> HIDE DEF below
  <2> QED
    BY <1>3 DEF Closed, CheckStates
<1> QED
  BY <1>1, <1>3, <1>4 DEF CheckOne

\* The visits of the check by the number of levels they may have.
CheckLevels(check, q) ==
  /\ check \in [Nat -> [Ids(q) -> [CheckStates(q) -> CheckStates(q)]]]
  /\ \A n \in Nat : \A id \in Ids(q) : \A st \in CheckStates(q) :
       /\ check[0][id][st] = st
       /\ check[n + 1][id][st] = CheckOne(q, check[n], st, id)

\* The visits with up to n others open above them, for each n.
LEMMA CheckHasLevels ==
  ASSUME NEW S, NEW q \in Lists(S)
  PROVE  \E check : CheckLevels(check, q) /\ Check(q) = check[Len(q) + 1]
<1> DEFINE V == CheckStates(q)
           F == [Ids(q) -> [V -> V]]
           Next(f) == [id \in Ids(q) |-> [st \in V |-> CheckOne(q, f, st, id)]]
           none == [id \in Ids(q) |-> [st \in V |-> st]]
           step == [x \in F \X Nat |-> Next(x[1])]
           P(check) == check = [n \in Nat |-> [id \in Ids(q) |-> [st \in V |->
                         IF n = 0 THEN st ELSE CheckOne(q, check[n - 1], st, id)]]]
           check == CHOOSE check : P(check)
<1>1. Check(q) = check[Len(q) + 1]
  BY Zenon DEF Check
<1>2. ASSUME NEW f \in F PROVE Next(f) \in F
  BY CheckOneTyped
<1>3. none \in F
  OBVIOUS
<1>4. step \in [F \X Nat -> F]
  <2> HIDE DEF Next, F
  <2> QED
    BY <1>2
<1>5. PICK g \in [Nat -> F] : Steps(g, none, step)
  <2> HIDE DEF F, none, step
  <2> QED
    BY <1>3, <1>4, Iteration
<1>6. g[0] = none /\ \A n \in Nat : g[n + 1] = Next(g[n])
  <2> HIDE DEF F, none, Next
  <2>1. \A n \in Nat : g[n] \in F /\ n + 1 \in Nat
    BY <1>5
  <2>2. \A n \in Nat : step[<<g[n], n + 1>>] = Next(g[n])
    BY <2>1
  <2> HIDE DEF step
  <2> QED
    BY <1>5, <2>2 DEF Steps
<1>7. P(g)
  <2>1. ASSUME NEW n \in Nat
        PROVE  g[n] = [id \in Ids(q) |-> [st \in V |->
                         IF n = 0 THEN st ELSE CheckOne(q, g[n - 1], st, id)]]
    <3>1. CASE n = 0
      BY <1>6, <3>1
    <3>2. CASE n # 0
      <4>1. n - 1 \in Nat /\ (n - 1) + 1 = n
        BY <3>2
      <4>2. g[n] = Next(g[n - 1])
        <5> HIDE DEF Next
        <5> QED
          BY <1>6, <4>1
      <4> QED
        BY <3>2, <4>2
    <3> QED
      BY <3>1, <3>2
  <2> QED
    BY <1>5, <2>1
<1>8. P(check)
  <2> HIDE DEF P
  <2> QED
    BY <1>7
<1> HIDE DEF check
<1>9. check[0] = none /\ \A n \in Nat : check[n + 1] = Next(check[n])
  <2>1. check[0] = none
    <3>1. check[0] = [id \in Ids(q) |-> [st \in V |->
                         IF 0 = 0 THEN st ELSE CheckOne(q, check[0 - 1], st, id)]]
      BY <1>8
    <3> QED
      BY <3>1
  <2>2. ASSUME NEW k \in Nat PROVE check[k + 1] = Next(check[k])
    <3>1. k + 1 \in Nat /\ k + 1 # 0 /\ (k + 1) - 1 = k
      OBVIOUS
    <3>2. check[k + 1] = [id \in Ids(q) |-> [st \in V |->
             IF k + 1 = 0 THEN st ELSE CheckOne(q, check[(k + 1) - 1], st, id)]]
      BY <1>8, <3>1
    <3> QED
      BY <3>1, <3>2
  <2> QED
    BY <2>1, <2>2
<1>10. check \in [Nat -> F]
  <2> DEFINE Has == {k \in Nat : check[k] \in F}
  <2>1. 0 \in Has
    BY <1>3, <1>9
  <2>2. ASSUME NEW k \in Nat, k \in Has PROVE k + 1 \in Has
    <3> HIDE DEF Next, F
    <3> QED
      BY <1>2, <1>9, <2>2
  <2>3. Nat \subseteq Has
    <3> HIDE DEF Has
    <3> QED
      BY <2>1, <2>2, InductiveSet
  <2>4. check = [n \in Nat |-> check[n]]
    BY <1>8
  <2> HIDE DEF F
  <2> QED
    BY <2>3, <2>4
<1>11. CheckLevels(check, q)
  <2>1. ASSUME NEW n \in Nat, NEW id \in Ids(q), NEW st \in V
        PROVE  /\ check[0][id][st] = st
               /\ check[n + 1][id][st] = CheckOne(q, check[n], st, id)
    <3>1. check[0] = none /\ check[n + 1] = Next(check[n])
      <4> HIDE DEF Next, none
      <4> QED
        BY <1>9
    <3> QED
      BY <3>1
  <2> QED
    BY <1>10, <2>1 DEF CheckLevels
<1> QED
  BY <1>1, <1>11

Marked(q, st, m) == {id \in Ids(q) : st.mark[id] = m}

\* The open sensors all have a higher rank.
OpenAbove(q, rank, st, id) == \A i \in Marked(q, st, "open") : rank[i] > rank[id]

\* With ranks, a sensor is never met while it is open.
LEMMA NoneMetOpen ==
  ASSUME NEW S, NEW q \in Lists(S), NEW rank, Ranks(q, rank),
         NEW check, CheckLevels(check, q), NEW n \in Nat,
         NEW st \in CheckStates(q), ~ st.cycle,
         NEW id \in Ids(q), OpenAbove(q, rank, st, id)
  PROVE  /\ ~ check[n][id][st].cycle
         /\ Marked(q, check[n][id][st], "open") = Marked(q, st, "open")
<1> DEFINE V == CheckStates(q)
           Kept(s, res) == ~ res.cycle /\ Marked(q, res, "open") = Marked(q, s, "open")
           Has == {m \in Nat : \A i \in Ids(q) : \A s \in V :
                     ~ s.cycle /\ OpenAbove(q, rank, s, i) => Kept(s, check[m][i][s])}
<1>1. rank \in [Ids(q) -> 0..(Len(q) - 1)] /\ Len(q) \in Nat
  BY DEF Ranks, Lists
<1>2. 0 \in Has
  BY DEF CheckLevels
<1>3. ASSUME NEW m \in Nat, m \in Has PROVE m + 1 \in Has
  <2>1. SUFFICES ASSUME NEW i \in Ids(q), NEW s \in V, ~ s.cycle, OpenAbove(q, rank, s, i)
                 PROVE  Kept(s, check[m + 1][i][s])
    OBVIOUS
  <2>2. check[m] \in [Ids(q) -> [V -> V]]
    BY DEF CheckLevels
  <2>3. check[m + 1][i][s] = CheckOne(q, check[m], s, i)
    BY DEF CheckLevels
  <2>4. s.mark[i] # "open"
    <3>1. rank[i] \in Int
      BY <1>1
    <3> QED
      BY <2>1, <3>1 DEF OpenAbove, Marked
  <2>5. CASE s.mark[i] = "closed"
    BY <2>1, <2>3, <2>5 DEF CheckOne
  <2>6. CASE s.mark[i] # "closed"
    <3> DEFINE s1 == [s EXCEPT !.mark[i] = "open"]
               ids == Named(q, i).inputs
               below == VisitEach(q, check[m], s1, ids)
               P == {r \in V : Kept(s1, r)}
               Q == [j \in Ids(q) |-> V]
    <3>1. /\ s1 \in V /\ ~ s1.cycle
          /\ Marked(q, s1, "open") = Marked(q, s, "open") \cup {i}
      BY <2>1 DEF CheckStates, Marked
    <3>2. ids \in Seq(S)
      BY NamedSensor
    <3> HIDE DEF s1
    <3>3. ASSUME NEW j \in Elements(ids) \cap Ids(q), NEW r \in P
          PROVE  /\ check[m][j][r] \in P /\ check[m][j][r] \in Q[j]
                 /\ \A k \in Ids(q) : r \in Q[k] => check[m][j][r] \in Q[k]
      <4>1. rank[j] < rank[i]
        BY DEF Ranks, InputsOf, Elements
      <4>2. ASSUME NEW k \in Marked(q, r, "open") PROVE rank[k] > rank[j]
        <5>1. rank[j] \in Int /\ rank[k] \in Int /\ rank[i] \in Int
          BY <1>1 DEF Marked
        <5>2. k = i \/ rank[k] > rank[i]
          BY <2>1, <3>1 DEF OpenAbove
        <5> QED
          BY <4>1, <5>1, <5>2
      <4>3. OpenAbove(q, rank, r, j)
        BY <4>2 DEF OpenAbove
      <4>4. Kept(r, check[m][j][r])
        BY <1>3, <4>3
      <4>5. check[m][j][r] \in V
        BY <2>2
      <4> QED
        BY <4>4, <4>5
    <3>4. below \in P
      <4>1. s1 \in P /\ P \in SUBSET V
        BY <3>1
      <4> HIDE DEF P, Q, ids
      <4> QED
        BY <2>2, <3>2, <3>3, <4>1, EachReaches
    <3>5. check[m + 1][i][s] = Closed(below, i)
      BY <2>1, <2>3, <2>4, <2>6, <3>4 DEF CheckOne, s1
    <3> HIDE DEF below
    <3>6. i \notin Marked(q, s, "open")
      BY <2>4 DEF Marked
    <3>7. below \in V /\ ~ below.cycle
          /\ Marked(q, below, "open") = Marked(q, s, "open") \cup {i}
      BY <3>1, <3>4
    <3>8. Kept(s, Closed(below, i))
      BY <3>6, <3>7 DEF Closed, CheckStates, Marked
    <3> QED
      BY <3>5, <3>8
  <2> QED
    BY <2>5, <2>6
<1>4. Nat \subseteq Has
  <2> HIDE DEF Has
  <2> QED
    BY <1>2, <1>3, InductiveSet
<1> QED
  BY <1>4

\* No cycle within a set of sensors.
AcyclicAmong(q, X) ==
  \A T \in SUBSET X : T # {} => \E id \in T : InputsOf(Named(q, id)) \cap T = {}

\* What is closed has no cycle, and reads nothing that is not closed.
Sound(q, st) ==
  /\ AcyclicAmong(q, Marked(q, st, "closed"))
  /\ \A id \in Marked(q, st, "closed") :
       InputsOf(Named(q, id)) \cap Ids(q) \subseteq Marked(q, st, "closed")

\* A search closes some sensors, unless it finds a cycle.
Searched(q, st, res) ==
  /\ ~ st.cycle /\ Sound(q, res)
  /\ Marked(q, res, "open") = Marked(q, st, "open")
  /\ Marked(q, st, "closed") \subseteq Marked(q, res, "closed")

\* A sensor may be closed after those it reads.
LEMMA CloseOne ==
  ASSUME NEW q, NEW X, NEW id, id \notin X, AcyclicAmong(q, X),
         X \subseteq Ids(q), id \in Ids(q),
         \A i \in X \cup {id} : InputsOf(Named(q, i)) \cap Ids(q) \subseteq X
  PROVE  AcyclicAmong(q, X \cup {id})
<1> SUFFICES ASSUME NEW T \in SUBSET (X \cup {id}), T # {}
             PROVE  \E i \in T : InputsOf(Named(q, i)) \cap T = {}
  BY DEF AcyclicAmong
<1>1. CASE T \cap X = {}
  <2>1. T = {id}
    BY <1>1
  <2>2. InputsOf(Named(q, id)) \cap T = {}
    BY <2>1
  <2> QED
    BY <2>1, <2>2
<1>2. CASE T \cap X # {}
  <2>1. PICK i \in T \cap X : InputsOf(Named(q, i)) \cap (T \cap X) = {}
    BY <1>2 DEF AcyclicAmong
  <2>2. InputsOf(Named(q, i)) \cap T = {}
    BY <2>1
  <2> QED
    BY <2>2
<1> QED
  BY <1>1, <1>2

\* Once a cycle is found the search is over.
LEMMA CycleStays ==
  ASSUME NEW q, NEW check, CheckLevels(check, q), NEW n \in Nat,
         NEW st \in CheckStates(q), st.cycle, NEW id \in Ids(q)
  PROVE  check[n][id][st] = st
<1>1. CASE n = 0
  BY <1>1 DEF CheckLevels
<1>2. CASE n # 0
  <2>1. n - 1 \in Nat /\ (n - 1) + 1 = n
    BY <1>2
  <2>2. check[(n - 1) + 1][id][st] = CheckOne(q, check[n - 1], st, id)
    BY <2>1 DEF CheckLevels
  <2> QED
    BY <2>1, <2>2 DEF CheckOne
<1> QED
  BY <1>1, <1>2

\* A visit with more levels than there are new sensors closes its sensor, or
\* finds a cycle.
LEMMA VisitCloses ==
  ASSUME NEW S, NEW q \in Lists(S), NEW check, CheckLevels(check, q),
         NEW n \in Nat, NEW st \in CheckStates(q), ~ st.cycle => Sound(q, st),
         IsFiniteSet(Ids(q)), Cardinality(Marked(q, st, "new")) < n, NEW id \in Ids(q)
  PROVE  ~ check[n][id][st].cycle =>
           /\ Searched(q, st, check[n][id][st])
           /\ id \in Marked(q, check[n][id][st], "closed")
<1> DEFINE V == CheckStates(q)
           New(s) == Cardinality(Marked(q, s, "new"))
           Done(s, res, i) == ~ res.cycle => /\ Searched(q, s, res)
                                             /\ i \in Marked(q, res, "closed")
           Has == {m \in Nat : \A i \in Ids(q) : \A s \in V :
                     (~ s.cycle => Sound(q, s)) /\ New(s) < m
                       => Done(s, check[m][i][s], i)}
<1>1. \A s : IsFiniteSet(Marked(q, s, "new")) /\ New(s) \in Nat
  BY FS_Subset, FS_CardinalityType DEF Marked
<1> HIDE DEF New
<1>2. 0 \in Has
  BY <1>1
<1>3. ASSUME NEW m \in Nat, m \in Has PROVE m + 1 \in Has
  <2>1. SUFFICES ASSUME NEW i \in Ids(q), NEW s \in V, ~ s.cycle => Sound(q, s),
                        New(s) < m + 1
                 PROVE  Done(s, check[m + 1][i][s], i)
    OBVIOUS
  <2>2. check[m] \in [Ids(q) -> [V -> V]]
    BY DEF CheckLevels
  <2>3. check[m + 1][i][s] = CheckOne(q, check[m], s, i)
    BY DEF CheckLevels
  <2>4. CASE s.cycle \/ s.mark[i] = "closed"
    BY <2>1, <2>3, <2>4 DEF CheckOne, Searched, Marked
  <2>5. CASE ~ s.cycle /\ s.mark[i] = "open"
    <3>1. [s EXCEPT !.cycle = TRUE].cycle
      BY DEF CheckStates
    <3> QED
      BY <2>3, <2>5, <3>1 DEF CheckOne
  <2>6. CASE ~ s.cycle /\ s.mark[i] # "closed" /\ s.mark[i] # "open"
    <3> DEFINE s1 == [s EXCEPT !.mark[i] = "open"]
               ids == Named(q, i).inputs
               below == VisitEach(q, check[m], s1, ids)
               P == {r \in V : ~ r.cycle => Searched(q, s1, r)}
               Q == [j \in Ids(q) |-> {r \in V : ~ r.cycle => j \in Marked(q, r, "closed")}]
    <3>1. /\ s1 \in V /\ ~ s1.cycle
          /\ Marked(q, s1, "open") = Marked(q, s, "open") \cup {i}
          /\ Marked(q, s1, "closed") = Marked(q, s, "closed")
          /\ Marked(q, s1, "new") = Marked(q, s, "new") \ {i}
          /\ i \in Marked(q, s, "new")
      BY <2>6 DEF CheckStates, Marked
    <3>2. ids \in Seq(S)
      BY NamedSensor
    <3> HIDE DEF s1
    <3>3. New(s1) < m
      <4>1. New(s1) = New(s) - 1
        BY <1>1, <3>1, FS_RemoveElement DEF New
      <4> QED
        BY <1>1, <2>1, <4>1
    <3>4. Searched(q, s1, s1)
      BY <2>1, <2>6, <3>1 DEF Searched, Sound
    <3>5. ASSUME NEW j \in Elements(ids) \cap Ids(q), NEW r \in P
          PROVE  /\ check[m][j][r] \in P /\ check[m][j][r] \in Q[j]
                 /\ \A k \in Ids(q) : r \in Q[k] => check[m][j][r] \in Q[k]
      <4> DEFINE res == check[m][j][r]
      <4>1. r \in V /\ res \in V
        BY <2>2
      <4>2. CASE r.cycle
        <5>1. res = r
          BY <4>1, <4>2, CycleStays
        <5> QED
          BY <4>1, <4>2, <5>1
      <4>3. CASE ~ r.cycle
        <5>1. Searched(q, s1, r)
          BY <4>3
        <5>2. Marked(q, r, "new") \in SUBSET Marked(q, s1, "new")
          BY <4>1, <3>1, <5>1 DEF Searched, Marked, CheckStates
        <5>3. New(r) <= New(s1)
          BY <1>1, <5>2, FS_Subset DEF New
        <5>4. New(r) < m
          BY <1>1, <3>3, <5>3
        <5>5. Done(r, res, j)
          BY <1>3, <4>1, <5>1, <5>4 DEF Searched
        <5> HIDE DEF res
        <5>6. ~ res.cycle => Searched(q, s1, res)
          BY <5>1, <5>5 DEF Searched
        <5>7. \A k \in Ids(q) : r \in Q[k] => res \in Q[k]
          BY <4>1, <4>3, <5>5 DEF Searched
        <5> QED
          BY <4>1, <5>5, <5>6, <5>7 DEF res
      <4> QED
        BY <4>2, <4>3
    <3>6. below \in P /\ \A j \in Elements(ids) \cap Ids(q) : below \in Q[j]
      <4>1. s1 \in P /\ P \in SUBSET V
        BY <3>1, <3>4
      <4> HIDE DEF P, Q, ids
      <4> QED
        BY <2>2, <3>2, <3>5, <4>1, EachReaches
    <3>7. check[m + 1][i][s] = IF below.cycle THEN below ELSE Closed(below, i)
      BY <2>3, <2>6 DEF CheckOne, s1
    <3> HIDE DEF below
    <3>8. CASE below.cycle
      BY <3>7, <3>8
    <3>9. CASE ~ below.cycle
      <4> DEFINE res == Closed(below, i)
                 X == Marked(q, below, "closed")
      <4>1. below \in V /\ Searched(q, s1, below)
        BY <3>6, <3>9
      <4>2. Elements(ids) \cap Ids(q) \subseteq X
        BY <3>6, <3>9
      <4>3. i \notin X
        BY <3>1, <4>1 DEF Searched, Marked
      <4>4. /\ Marked(q, res, "closed") = X \cup {i}
            /\ Marked(q, res, "open") = Marked(q, below, "open") \ {i}
            /\ res.cycle = below.cycle
        BY <4>1 DEF Closed, CheckStates, Marked
      <4> HIDE DEF res
      <4>5. \A j \in X \cup {i} : InputsOf(Named(q, j)) \cap Ids(q) \subseteq X
        <5>1. InputsOf(Named(q, i)) = Elements(ids)
          BY DEF InputsOf, Elements
        <5> HIDE DEF ids
        <5> QED
          BY <4>1, <4>2, <5>1 DEF Searched, Sound
      <4>6. AcyclicAmong(q, X \cup {i})
        <5>1. AcyclicAmong(q, X) /\ X \subseteq Ids(q)
          BY <4>1 DEF Searched, Sound, Marked
        <5> HIDE DEF X
        <5> QED
          BY <4>3, <4>5, <5>1, CloseOne
      <4>7. Sound(q, res)
        BY <4>4, <4>5, <4>6 DEF Sound
      <4>8. i \notin Marked(q, s, "open")
        BY <2>6 DEF Marked
      <4>9. Searched(q, s, res)
        BY <2>6, <3>1, <4>1, <4>4, <4>7, <4>8 DEF Searched
      <4> QED
        BY <3>7, <3>9, <4>4, <4>9 DEF res
    <3> QED
      BY <3>8, <3>9
  <2> QED
    BY <2>4, <2>5, <2>6
<1>4. Nat \subseteq Has
  <2> HIDE DEF Has
  <2> QED
    BY <1>2, <1>3, InductiveSet
<1> QED
  BY <1>4 DEF New

\* validate: the search refuses exactly the lists with a cycle, for every list
\* without an identifier that appears twice.
THEOREM CheckFindsCycles ==
  ASSUME NEW S, NEW q \in Lists(S)
  PROVE  NoCycle(q) <=> Acyclic(q)
<1> DEFINE V == CheckStates(q)
           fresh == [cycle |-> FALSE, mark |-> [id \in Ids(q) |-> "new"]]
           ids == Listed(q)
           last == VisitEach(q, Check(q), fresh, ids)
<1>1. PICK check : CheckLevels(check, q) /\ Check(q) = check[Len(q) + 1]
  BY CheckHasLevels
<1>2. /\ Len(q) \in Nat /\ DOMAIN q = 1..Len(q) /\ Len(q) + 1 \in Nat
      /\ Check(q) \in [Ids(q) -> [V -> V]]
  BY <1>1 DEF Lists, CheckLevels
<1>3. ids \in Seq(Ids(q)) /\ Elements(ids) = Ids(q)
  <2>1. Elements(ids) = Ids(q)
    BY DEF Elements, Listed, Ids
  <2> QED
    BY <2>1, ListedIds
<1>4. /\ fresh \in V /\ ~ fresh.cycle
      /\ Marked(q, fresh, "open") = {} /\ Marked(q, fresh, "closed") = {}
      /\ Marked(q, fresh, "new") = Ids(q)
  BY DEF CheckStates, Marked
<1>5. NoCycle(q) <=> ~ last.cycle
  BY DEF NoCycle
<1> HIDE DEF fresh, ids
<1>6. ASSUME Acyclic(q) PROVE ~ last.cycle
  <2>1. PICK rank : Ranks(q, rank)
    BY <1>6, AcyclicHasRanks
  <2> DEFINE P == {r \in V : ~ r.cycle /\ Marked(q, r, "open") = {}}
             Q == [j \in Ids(q) |-> V]
  <2>2. ASSUME NEW j \in Elements(ids) \cap Ids(q), NEW r \in P
        PROVE  /\ Check(q)[j][r] \in P /\ Check(q)[j][r] \in Q[j]
               /\ \A k \in Ids(q) : r \in Q[k] => Check(q)[j][r] \in Q[k]
    <3>1. OpenAbove(q, rank, r, j)
      BY DEF OpenAbove
    <3>2. /\ ~ Check(q)[j][r].cycle
          /\ Marked(q, Check(q)[j][r], "open") = Marked(q, r, "open")
      BY <1>1, <1>2, <2>1, <3>1, NoneMetOpen
    <3> QED
      BY <1>2, <3>2
  <2>3. last \in P
    <3>1. fresh \in P /\ P \in SUBSET V
      BY <1>4
    <3> HIDE DEF P, Q
    <3> QED
      BY <1>2, <1>3, <2>2, <3>1, EachReaches
  <2> QED
    BY <2>3
<1>7. ASSUME ~ last.cycle PROVE Acyclic(q)
  <2>1. IsFiniteSet(Ids(q)) /\ Cardinality(Ids(q)) \in Nat
        /\ Cardinality(Ids(q)) <= Len(q)
    BY <1>2, IdsCounted
  <2> DEFINE P == {r \in V : ~ r.cycle => Searched(q, fresh, r)}
             Q == [j \in Ids(q) |-> {r \in V : ~ r.cycle => j \in Marked(q, r, "closed")}]
  <2>2. ASSUME NEW j \in Elements(ids) \cap Ids(q), NEW r \in P
        PROVE  /\ Check(q)[j][r] \in P /\ Check(q)[j][r] \in Q[j]
               /\ \A k \in Ids(q) : r \in Q[k] => Check(q)[j][r] \in Q[k]
    <3> DEFINE res == Check(q)[j][r]
    <3>1. r \in V /\ res \in V
      BY <1>2
    <3>2. CASE r.cycle
      <4>1. res = r
        BY <1>1, <1>2, <3>1, <3>2, CycleStays
      <4> QED
        BY <3>1, <3>2, <4>1
    <3>3. CASE ~ r.cycle
      <4>1. Searched(q, fresh, r) /\ Sound(q, r)
        BY <3>3 DEF Searched
      <4>2. Cardinality(Marked(q, r, "new")) < Len(q) + 1
        <5>1. Marked(q, r, "new") \in SUBSET Ids(q)
          BY DEF Marked
        <5>2. IsFiniteSet(Marked(q, r, "new")) /\ Cardinality(Marked(q, r, "new")) \in Nat
              /\ Cardinality(Marked(q, r, "new")) <= Cardinality(Ids(q))
          BY <2>1, <5>1, FS_Subset, FS_CardinalityType
        <5> QED
          BY <1>2, <2>1, <5>2
      <4>3. ~ res.cycle => Searched(q, r, res) /\ j \in Marked(q, res, "closed")
        BY <1>1, <1>2, <2>1, <3>1, <4>1, <4>2, VisitCloses
      <4> HIDE DEF res
      <4>4. ~ res.cycle => Searched(q, fresh, res)
        BY <4>1, <4>3 DEF Searched
      <4>5. \A k \in Ids(q) : r \in Q[k] => res \in Q[k]
        BY <3>1, <3>3, <4>3 DEF Searched
      <4> QED
        BY <3>1, <4>3, <4>4, <4>5 DEF res
    <3> QED
      BY <3>2, <3>3
  <2>3. last \in P /\ \A j \in Elements(ids) \cap Ids(q) : last \in Q[j]
    <3>1. fresh \in P /\ P \in SUBSET V
      BY <1>4 DEF Searched, Sound, AcyclicAmong
    <3> HIDE DEF P, Q
    <3> QED
      BY <1>2, <1>3, <2>2, <3>1, EachReaches
  <2> HIDE DEF last
  <2>4. AcyclicAmong(q, Ids(q))
    <3>1. Marked(q, last, "closed") = Ids(q)
      BY <1>3, <1>7, <2>3 DEF Marked
    <3> QED
      BY <1>7, <2>3, <3>1 DEF Searched, Sound
  <2>5. ASSUME NEW T \in SUBSET DOMAIN q, T # {}
        PROVE  \E j \in T : InputsOf(q[j]) \cap {q[k].sensor : k \in T} = {}
    <3> DEFINE X == {q[k].sensor : k \in T}
    <3>1. X \in SUBSET Ids(q) /\ X # {}
      BY <2>5 DEF Ids
    <3>2. PICK id \in X : InputsOf(Named(q, id)) \cap X = {}
      BY <2>4, <3>1 DEF AcyclicAmong
    <3>3. PICK j \in T : id = q[j].sensor
      BY <3>2
    <3>4. Named(q, id) = q[j]
      BY <3>3, ListedIds
    <3> QED
      BY <3>2, <3>3, <3>4
  <2> QED
    BY <2>5 DEF Acyclic
<1> QED
  BY <1>5, <1>6, <1>7

=============================================================================
