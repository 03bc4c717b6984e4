-------------------------- MODULE SimulatorProofs --------------------------
(***************************************************************************)
(* Proofs about the device simulator.  The search that follows the         *)
(* references of formulas depth first, with a memo and a stack that it     *)
(* leaves dirty when a sensor fails, finds the values that follow from the *)
(* bottom up; every item of a map keeps its addresses; the loop over the   *)
(* words of a request leaves the controls as it should; the two words of a *)
(* 32-bit value are read in the order of their addresses; and the web page *)
(* lists each of the input sensors once.                                   *)
(***************************************************************************)
EXTENDS Simulator, SequenceProofs, FiniteSetTheorems

-----------------------------------------------------------------------------
(* Folds *)

\* A step of one of the folds of the simulator, by what the fold is for.
Turn(f, x, i) ==
  CASE f.fold = "rounds"   -> FollowFrom(f.w, x)
    [] f.fold = "levels"   -> Level(f.w, x)
    [] f.fold = "formula"  -> x + f.env[f.q[i]]
    [] f.fold = "refs"     -> Bind(f.w, f.evals, x, f.q[i], Resolve(f.w.sim, f.s, f.q[i]))
    [] f.fold = "sensors"  -> KeepValue(x, f.q[i], Eval(f.w)[f.q[i].name][x.st])
    [] f.fold = "items"    -> PlaceIn(f.area, x, f.q[i])
    [] f.fold = "words"    -> WriteNext(x, (f.addr + f.q[i] - 1) % AddressSpace, f.words[f.q[i]])
    [] f.fold = "entries"  -> ListAddress(f.slots, f.words, x, f.q[i] - 1)

\* The value of each set of positions, by the recursion of FoldLeft.
Turns(f, base, n, g) ==
  g = [T \in SUBSET (1..n) |->
         IF T = {} THEN base ELSE Turn(f, g[T \ {Max(T)}], Max(T))]

\* The recursion has a solution, whatever the values are.
LEMMA TurnsSolved ==
  ASSUME NEW f, NEW base, NEW n \in Nat
  PROVE  \E g : Turns(f, base, n, g)
<1> DEFINE Has == {m \in Nat : \E g : Turns(f, base, m, g)}
<1>1. 0 \in Has
  <2> DEFINE g == [T \in SUBSET (1..0) |-> base]
  <2>1. \A T \in SUBSET (1..0) : T = {}
    OBVIOUS
  <2>2. Turns(f, base, 0, g)
    BY <2>1 DEF Turns
  <2> QED
    BY <2>2
<1>2. ASSUME NEW m \in 0..(n - 1), m \in Has PROVE m + 1 \in Has
  <2>1. PICK g : Turns(f, base, m, g)
    BY <1>2
  <2> DEFINE next == m + 1
             h == [T \in SUBSET (1..next) |->
                     IF next \in T THEN Turn(f, g[T \ {next}], next) ELSE g[T]]
  <2>2. next \in 1..n /\ m \in Nat /\ next = m + 1
    OBVIOUS
  <2> HIDE DEF next
  <2>3. ASSUME NEW T \in SUBSET (1..next)
        PROVE  /\ T \ {next} \in SUBSET (1..m)
               /\ next \notin T => T \in SUBSET (1..m)
    BY <2>2
  <2>4. ASSUME NEW T \in SUBSET (1..next)
        PROVE  h[T] = IF T = {} THEN base
                      ELSE Turn(f, h[T \ {Max(T)}], Max(T))
    <3>1. CASE next \in T
      <4>1. Max(T) = next
        <5>1. \A y \in T : y \in 1..next
          OBVIOUS
        <5>2. \A y \in T : next >= y
          BY <2>2, <5>1
        <5>3. ASSUME NEW x \in T, \A y \in T : x >= y PROVE x = next
          BY <2>2, <3>1, <5>1, <5>3
        <5> QED
          BY <3>1, <5>2, <5>3 DEF Max
      <4>2. h[T \ {next}] = g[T \ {next}]
        OBVIOUS
      <4> QED
        BY <3>1, <4>1, <4>2
    <3>2. CASE next \notin T
      <4>1. T \in SUBSET (1..m) /\ h[T] = g[T]
        BY <2>3, <3>2
      <4>2. T # {} => h[T \ {Max(T)}] = g[T \ {Max(T)}]
        BY <3>2
      <4> QED
        BY <2>1, <4>1, <4>2 DEF Turns
    <3> QED
      BY <3>1, <3>2
  <2>5. h = [T \in SUBSET (1..next) |-> h[T]]
    OBVIOUS
  <2> HIDE DEF h
  <2>6. Turns(f, base, next, h)
    BY <2>4, <2>5 DEF Turns
  <2>7. next \in Nat
    BY <2>2
  <2> QED
    BY <2>2, <2>6, <2>7
<1>3. n \in Has
  <2> HIDE DEF Has
  <2> QED
    BY <1>1, <1>2, IntervalInduction
<1> QED
  BY <1>3

\* A fold from base to result: c[k] is the value after the first k positions.
Folded(f, base, n, c, result) ==
  /\ c[0] = base
  /\ \A k \in 0..(n - 1) : c[k + 1] = Turn(f, c[k], k + 1)
  /\ c[n] = result

\* The value of the first positions follows from that of one position less.
LEMMA TurnsInTurn ==
  ASSUME NEW f, NEW base, NEW n \in Nat, NEW g, Turns(f, base, n, g)
  PROVE  \E c : Folded(f, base, n, c, g[1..n])
<1> DEFINE c == [k \in 0..n |-> g[1..k]]
<1>1. g[1..0] = base
  <2>1. 1..0 \in SUBSET (1..n) /\ 1..0 = {}
    OBVIOUS
  <2> QED
    BY <2>1 DEF Turns
<1>2. ASSUME NEW k \in 0..(n - 1)
      PROVE  g[1..(k + 1)] = Turn(f, g[1..k], k + 1)
  <2>1. /\ 1..(k + 1) \in SUBSET (1..n) /\ 1..(k + 1) # {}
        /\ (1..(k + 1)) \ {k + 1} = 1..k
        /\ Max(1..(k + 1)) = k + 1
    BY FirstPositions
  <2> QED
    BY <2>1 DEF Turns
<1>3. \A k \in 0..n : c[k] = g[1..k]
  OBVIOUS
<1>4. \A k \in 0..(n - 1) : k \in 0..n /\ k + 1 \in 0..n
  OBVIOUS
<1>5. 0 \in 0..n /\ n \in 0..n
  OBVIOUS
<1> HIDE DEF c
<1>6. Folded(f, base, n, c, g[1..n])
  BY <1>1, <1>2, <1>3, <1>4, <1>5 DEF Folded
<1> QED
  BY <1>6

\* What holds at first and after each turn holds to the end.
LEMMA FoldInduction ==
  ASSUME NEW n \in Nat, NEW Good, 0 \in Good,
         \A k \in 0..(n - 1) : k \in Good => k + 1 \in Good
  PROVE  \A k \in 0..n : k \in Good
BY IntervalInduction

\* The rounds of BottomUp.
LEMMA RoundsInTurn ==
  ASSUME NEW w, NEW S, NEW q \in Seq(S), q = Sensors(w.sim)
  PROVE  \E c : Folded([fold |-> "rounds", w |-> w], <<>>, Len(q), c, BottomUp(w))
<1> DEFINE n == Len(q)
           f == [fold |-> "rounds", w |-> w]
           Solved(g) == g = [T \in SUBSET DOMAIN q |->
                               IF T = {} THEN <<>> ELSE FollowFrom(w, g[T \ {Max(T)}])]
           iter == CHOOSE g : Solved(g)
<1>1. DOMAIN q = 1..n /\ n \in Nat
  OBVIOUS
<1>2. BottomUp(w) = iter[DOMAIN q]
  BY Zenon DEF BottomUp, FoldLeft, MapThenFoldSet
<1>3. PICK g : Turns(f, <<>>, n, g)
  <2> HIDE DEF n, f
  <2> QED
    BY <1>1, TurnsSolved
<1>4. \A x, i : Turn(f, x, i) = FollowFrom(w, x)
  BY DEF Turn
<1>5. Turns(f, <<>>, n, iter)
  <2> HIDE DEF f
  <2>1. Solved(g)
    BY <1>1, <1>3, <1>4 DEF Turns
  <2>2. Solved(iter)
    <3> HIDE DEF Solved
    <3> QED
      BY <2>1
  <2> HIDE DEF iter
  <2> QED
    BY <1>1, <1>4, <2>2 DEF Turns
<1>6. \E c : Folded(f, <<>>, n, c, iter[1..n])
  <2> HIDE DEF f, n, iter
  <2> QED
    BY <1>1, <1>5, TurnsInTurn
<1> HIDE DEF iter
<1> QED
  BY <1>1, <1>2, <1>6

\* A sum with the value of one more reference.
Added(env, q, x, i) == x + env[q[i]]

\* The values of the references are added one after the other.
LEMMA FormulaInTurn ==
  ASSUME NEW s, NEW env, NEW S, NEW q \in Seq(S), q = s.refs, NEW base, base = s.constant
  PROVE  \E c : Folded([fold |-> "formula", env |-> env, q |-> q], base, Len(q), c,
                       FormulaValue(s, env))
<1> DEFINE n == Len(q)
           f == [fold |-> "formula", env |-> env, q |-> q]
           Solved(g) == g = [T \in SUBSET DOMAIN q |->
                               IF T = {} THEN base
                               ELSE Added(env, q, g[T \ {Max(T)}], Max(T))]
           iter == CHOOSE g : Solved(g)
<1>1. DOMAIN q = 1..n /\ n \in Nat
  OBVIOUS
<1>2. FormulaValue(s, env) = iter[DOMAIN q]
  BY Zenon DEF FormulaValue, FoldLeft, MapThenFoldSet, Added
<1>3. PICK g : Turns(f, base, n, g)
  <2> HIDE DEF n, f
  <2> QED
    BY <1>1, TurnsSolved
<1>4. \A x, i : Turn(f, x, i) = Added(env, q, x, i)
  BY DEF Turn, Added
<1>5. Turns(f, base, n, iter)
  <2> HIDE DEF f
  <2>1. Solved(g)
    BY <1>1, <1>3, <1>4 DEF Turns
  <2>2. Solved(iter)
    <3> HIDE DEF Solved
    <3> QED
      BY <2>1
  <2> HIDE DEF iter
  <2>3. iter = [T \in SUBSET (1..n) |->
                  IF T = {} THEN base ELSE Added(env, q, iter[T \ {Max(T)}], Max(T))]
    <3> HIDE DEF n
    <3> QED
      BY <1>1, <2>2
  <2>4. iter = [T \in SUBSET (1..n) |->
                  IF T = {} THEN base ELSE Turn(f, iter[T \ {Max(T)}], Max(T))]
    <3> HIDE DEF n
    <3> QED
      BY <1>4, <2>3
  <2> QED
    BY <2>4 DEF Turns
<1>6. \E c : Folded(f, base, n, c, iter[1..n])
  <2> HIDE DEF f, n, iter
  <2> QED
    BY <1>1, <1>5, TurnsInTurn
<1> HIDE DEF iter
<1> QED
  BY <1>1, <1>2, <1>6

\* The levels of Eval.
LEMMA LevelsInTurn ==
  ASSUME NEW w, NEW S, NEW q \in Seq(S), q = Sensors(w.sim), NEW base,
         base = [name \in Names(Sensors(w.sim)) |->
                   [st \in EvalStates(w.sim) |-> [st EXCEPT !.ok = FALSE]]]
  PROVE  \E c : Folded([fold |-> "levels", w |-> w], base, Len(q), c, Eval(w))
<1> DEFINE n == Len(q)
           f == [fold |-> "levels", w |-> w]
           Solved(g) == g = [T \in SUBSET DOMAIN q |->
                               IF T = {} THEN base ELSE Level(w, g[T \ {Max(T)}])]
           iter == CHOOSE g : Solved(g)
<1>1. DOMAIN q = 1..n /\ n \in Nat
  OBVIOUS
<1>2. Eval(w) = iter[DOMAIN q]
  BY Zenon DEF Eval, FoldLeft, MapThenFoldSet
<1>3. PICK g : Turns(f, base, n, g)
  <2> HIDE DEF n, f
  <2> QED
    BY <1>1, TurnsSolved
<1>4. \A x, i : Turn(f, x, i) = Level(w, x)
  BY DEF Turn
<1>5. Turns(f, base, n, iter)
  <2> HIDE DEF f
  <2>1. Solved(g)
    BY <1>1, <1>3, <1>4 DEF Turns
  <2>2. Solved(iter)
    <3> HIDE DEF Solved
    <3> QED
      BY <2>1
  <2> HIDE DEF iter
  <2> QED
    BY <1>1, <1>4, <2>2 DEF Turns
<1>6. \E c : Folded(f, base, n, c, iter[1..n])
  <2> HIDE DEF f, n, iter
  <2> QED
    BY <1>1, <1>5, TurnsInTurn
<1> HIDE DEF iter
<1> QED
  BY <1>1, <1>2, <1>6

\* The references of a sensor are bound one after the other.
LEMMA RefsInTurn ==
  ASSUME NEW w, NEW evals, NEW s, NEW base, NEW S, NEW q \in Seq(S), q = s.refs
  PROVE  \E c : Folded([fold |-> "refs", w |-> w, evals |-> evals, s |-> s, q |-> q],
                       base, Len(q), c, BindRefs(w, evals, base, s))
<1> DEFINE n == Len(q)
           f == [fold |-> "refs", w |-> w, evals |-> evals, s |-> s, q |-> q]
           Next1(x, ref) == Bind(w, evals, x, ref, Resolve(w.sim, s, ref))
           Solved(g) == g = [T \in SUBSET DOMAIN q |->
                               IF T = {} THEN base ELSE Next1(g[T \ {Max(T)}], q[Max(T)])]
           iter == CHOOSE g : Solved(g)
<1>1. DOMAIN q = 1..n /\ n \in Nat
  OBVIOUS
<1>2. BindRefs(w, evals, base, s) = iter[DOMAIN q]
  BY Zenon DEF BindRefs, FoldLeft, MapThenFoldSet
<1>3. PICK g : Turns(f, base, n, g)
  <2> HIDE DEF n, f
  <2> QED
    BY <1>1, TurnsSolved
<1>4. \A x, i : Turn(f, x, i) = Next1(x, q[i])
  BY DEF Turn
<1>5. Turns(f, base, n, iter)
  <2> HIDE DEF f, Next1
  <2>1. Solved(g)
    BY <1>1, <1>3, <1>4 DEF Turns
  <2>2. Solved(iter)
    <3> HIDE DEF Solved
    <3> QED
      BY <2>1
  <2> HIDE DEF iter
  <2>3. iter = [T \in SUBSET (1..n) |->
                  IF T = {} THEN base ELSE Next1(iter[T \ {Max(T)}], q[Max(T)])]
    <3> HIDE DEF n
    <3> QED
      BY <1>1, <2>2
  <2>4. iter = [T \in SUBSET (1..n) |->
                  IF T = {} THEN base ELSE Turn(f, iter[T \ {Max(T)}], Max(T))]
    <3> HIDE DEF n
    <3> QED
      BY <1>4, <2>3
  <2> QED
    BY <2>4 DEF Turns
<1>6. \E c : Folded(f, base, n, c, iter[1..n])
  <2> HIDE DEF f, n, iter
  <2> QED
    BY <1>1, <1>5, TurnsInTurn
<1> HIDE DEF iter
<1> QED
  BY <1>1, <1>2, <1>6

\* Before the first sensor nothing is remembered.
NewState(w) == [memo |-> [name \in Names(Sensors(w.sim)) |-> NaN],
                visiting |-> <<>>, ok |-> TRUE, value |-> 0]

\* Nor has any sensor a value.
NewSweep(w) == [st |-> NewState(w), values |-> <<>>]

\* The sensors are evaluated one after the other.
LEMMA SensorsInTurn ==
  ASSUME NEW w, NEW S, NEW q \in Seq(S), q = Sensors(w.sim)
  PROVE  \E c, r : /\ Folded([fold |-> "sensors", w |-> w, q |-> q], NewSweep(w), Len(q), c, r)
                   /\ EvalAll(w) = r.values
<1> DEFINE n == Len(q)
           f == [fold |-> "sensors", w |-> w, q |-> q]
           Next1(x, s) == KeepValue(x, s, Eval(w)[s.name][x.st])
           Solved(g) == g = [T \in SUBSET DOMAIN q |->
                               IF T = {} THEN NewSweep(w) ELSE Next1(g[T \ {Max(T)}], q[Max(T)])]
           iter == CHOOSE g : Solved(g)
<1>1. DOMAIN q = 1..n /\ n \in Nat
  OBVIOUS
<1>2. EvalAll(w) = iter[DOMAIN q].values
  BY Zenon DEF EvalAll, FoldLeft, MapThenFoldSet, NewState, NewSweep
<1>3. PICK g : Turns(f, NewSweep(w), n, g)
  <2> HIDE DEF n, f
  <2> QED
    BY <1>1, TurnsSolved
<1>4. \A x, i : Turn(f, x, i) = Next1(x, q[i])
  BY DEF Turn
<1>5. Turns(f, NewSweep(w), n, iter)
  <2> HIDE DEF f, Next1
  <2>1. Solved(g)
    BY <1>1, <1>3, <1>4 DEF Turns
  <2>2. Solved(iter)
    <3> HIDE DEF Solved
    <3> QED
      BY <2>1
  <2> HIDE DEF iter
  <2>3. iter = [T \in SUBSET (1..n) |->
                  IF T = {} THEN NewSweep(w) ELSE Next1(iter[T \ {Max(T)}], q[Max(T)])]
    <3> HIDE DEF n
    <3> QED
      BY <1>1, <2>2
  <2>4. ASSUME NEW T \in SUBSET (1..n)
        PROVE  iter[T] = IF T = {} THEN NewSweep(w) ELSE Turn(f, iter[T \ {Max(T)}], Max(T))
    <3> HIDE DEF n
    <3>1. Turn(f, iter[T \ {Max(T)}], Max(T)) = Next1(iter[T \ {Max(T)}], q[Max(T)])
      BY <1>4
    <3>2. iter[T] = IF T = {} THEN NewSweep(w) ELSE Next1(iter[T \ {Max(T)}], q[Max(T)])
      BY <2>3
    <3> QED
      BY <3>1, <3>2
  <2>5. iter = [T \in SUBSET (1..n) |-> iter[T]]
    BY <2>3
  <2> QED
    BY <2>4, <2>5 DEF Turns
<1>6. PICK c : Folded(f, NewSweep(w), n, c, iter[1..n])
  <2> HIDE DEF f, n, iter
  <2> QED
    BY <1>1, <1>5, TurnsInTurn
<1>7. EvalAll(w) = iter[1..n].values
  <2> HIDE DEF iter, n
  <2> QED
    BY <1>1, <1>2
<1> HIDE DEF iter
<1> QED
  BY <1>6, <1>7

-----------------------------------------------------------------------------
(* Worlds *)

\* What the simulator evaluates.
GoodWorld(w) ==
  /\ w.sim \in SimConfigs /\ Validate(w.sim)
  /\ w.controls \in [Names(w.sim.controls) -> Int]
  /\ w.now \in Int

\* The names of the sensors.
Ids(w) == Names(Sensors(w.sim))

\* An element of a list is at one of its positions.
LEMMA InList ==
  ASSUME NEW S, NEW q \in Seq(S)
  PROVE  /\ DOMAIN q = 1..Len(q) /\ Len(q) \in Nat
         /\ \A i \in DOMAIN q : q[i] \in ToSet(q)
         /\ \A x \in ToSet(q) : \E i \in DOMAIN q : q[i] = x
         /\ \A n : n \in Names(q) <=> \E x \in ToSet(q) : x.name = n
BY DEF ToSet, Names

\* A name of a sensor is that of one sensor.
LEMMA SensorOfName ==
  ASSUME NEW w, GoodWorld(w)
  PROVE  /\ \A s \in ToSet(Sensors(w.sim)) :
              s.name \in Ids(w) /\ SensorNamed(w.sim, s.name) = s
         /\ \A n \in Ids(w) : /\ SensorNamed(w.sim, n) \in ToSet(Sensors(w.sim))
                              /\ SensorNamed(w.sim, n).name = n
<1> DEFINE q == Sensors(w.sim)
<1>1. q \in Seq(ToSet(q))
  BY SimConfigsAssumption DEF GoodWorld
<1>2. \A i, j \in DOMAIN q : i # j => q[i].name # q[j].name
  BY DEF GoodWorld, Validate
<1> HIDE DEF q
<1>3. ASSUME NEW n \in Names(q)
      PROVE  Named(q, n) \in ToSet(q) /\ Named(q, n).name = n
  <2>1. \E i \in DOMAIN q : q[i].name = n
    BY DEF Names
  <2> QED
    BY <1>1, <2>1, InList DEF Named
<1>4. ASSUME NEW s \in ToSet(q)
      PROVE  s.name \in Names(q) /\ Named(q, s.name) = s
  <2>1. PICK i \in DOMAIN q : q[i] = s
    BY <1>1, InList
  <2> QED
    BY <1>2, <2>1 DEF Named, Names
<1> QED
  BY <1>3, <1>4 DEF SensorNamed, Ids, q

\* What a file says of a sensor.
LEMMA SensorFields ==
  ASSUME NEW w, GoodWorld(w), NEW s \in ToSet(Sensors(w.sim))
  PROVE  /\ s.refs \in Seq(ToSet(s.refs)) /\ s.constant \in Int
         /\ s.area \in SimAreas /\ s.storage \in {"f32", "u16"}
         /\ s.encode \in Int /\ s.address \in Nat \cup {NoAddress}
BY SimConfigsAssumption DEF GoodWorld

\* A target is a control, the time, a sensor, or none.
LEMMA TargetKinds ==
  ASSUME NEW w, GoodWorld(w), NEW s, NEW r, NEW t, t = Resolve(w.sim, s, r)
  PROVE  /\ t.kind \in {"control", "time", "sensor", "unknown", "unbound"}
         /\ t.kind = "control" => t.name \in Names(w.sim.controls)
         /\ t.kind = "sensor" => t.name \in Ids(w) /\ t = Sensor(t.name)
<1> DEFINE q == Sensors(w.sim)
<1>1. q \in Seq(ToSet(q))
  BY SimConfigsAssumption DEF GoodWorld
<1>2. CASE r \in DOMAIN s.inputs
  BY <1>2 DEF Resolve, TargetOf, Control, Clock, Sensor, Ids
<1>3. CASE r \notin DOMAIN s.inputs /\ ~ \E x \in ToSet(q) : x.short = r
  BY <1>3 DEF Resolve, Control, Clock
<1>4. CASE r \notin DOMAIN s.inputs /\ \E x \in ToSet(q) : x.short = r
  <2>1. FirstShort(q, r).name \in Ids(w)
    <3> DEFINE T == {i \in DOMAIN q : q[i].short = r}
    <3> HIDE DEF q
    <3>1. DOMAIN q = 1..Len(q) /\ Len(q) \in Nat
      BY <1>1
    <3>2. T # {} /\ T \subseteq Nat
      BY <1>1, <1>4, <3>1, InList
    <3>3. PICK i \in T : \A j \in T : i <= j
      <4> HIDE DEF T
      <4> QED
        BY <3>2, LeastMember
    <3>4. i \in DOMAIN q /\ q[i].short = r /\ \A j \in 1..(i - 1) : q[j].short # r
      BY <3>1, <3>3
    <3> DEFINE k == CHOOSE k \in DOMAIN q : /\ q[k].short = r
                                            /\ \A j \in 1..(k - 1) : q[j].short # r
    <3>5. k \in DOMAIN q /\ FirstShort(q, r) = q[k]
      BY <3>4 DEF FirstShort
    <3> HIDE DEF k
    <3>6. q[k].name \in Names(q)
      BY <3>5 DEF Names
    <3> QED
      BY <3>5, <3>6 DEF Ids, q
  <2> QED
    BY <1>4, <2>1 DEF Resolve, Control, Clock, Sensor
<1> QED
  BY <1>2, <1>3, <1>4

-----------------------------------------------------------------------------
(* The values of a formula *)

\* Values of some sensors.
Partial(w, known) ==
  /\ known = [n \in DOMAIN known |-> known[n]]
  /\ DOMAIN known \subseteq Ids(w)
  /\ \A n \in DOMAIN known : known[n] \in Int /\ Finite(known[n])

\* A target has one value or none.
SingleValue(w, known, t) ==
  /\ t.kind \in {"control", "time", "sensor", "unknown", "unbound"}
  /\ t.kind = "control" => /\ w.controls[t.name] \in Int
                           /\ ValuesOf(w, known, t) = {w.controls[t.name]}
  /\ t.kind = "time" => w.now \in Int /\ ValuesOf(w, known, t) = {w.now}
  /\ t.kind = "sensor" /\ t.name \in DOMAIN known =>
       known[t.name] \in Int /\ ValuesOf(w, known, t) = {known[t.name]}
  /\ t.kind = "sensor" /\ t.name \notin DOMAIN known => ValuesOf(w, known, t) = {}
  /\ t.kind \in {"unknown", "unbound"} => ValuesOf(w, known, t) = {}

\* A reference has one value or none.
LEMMA OneValue ==
  ASSUME NEW w, GoodWorld(w), NEW s, NEW r, NEW known, Partial(w, known)
  PROVE  SingleValue(w, known, Resolve(w.sim, s, r))
<1> DEFINE t == Resolve(w.sim, s, r)
<1>1. /\ t.kind \in {"control", "time", "sensor", "unknown", "unbound"}
      /\ t.kind = "control" => w.controls[t.name] \in Int
  BY TargetKinds DEF GoodWorld
<1> HIDE DEF t
<1>2. ASSUME t.kind = "sensor", t.name \in DOMAIN known
      PROVE  known[t.name] \in Int /\ ValuesOf(w, known, t) = {known[t.name]}
  BY <1>2 DEF ValuesOf, Partial
<1>3. t.kind = "sensor" /\ t.name \notin DOMAIN known => ValuesOf(w, known, t) = {}
  BY DEF ValuesOf
<1>4. SingleValue(w, known, t)
  BY <1>1, <1>2, <1>3 DEF SingleValue, ValuesOf, GoodWorld
<1> QED
  BY <1>4 DEF t

\* The names in a formula have numbers.
Numbered(s, env) == \A r \in ToSet(s.refs) : env[r] \in Int

\* A formula of numbers gives a number, which depends on nothing else.
LEMMA FormulaNumber ==
  ASSUME NEW w, GoodWorld(w), NEW s \in ToSet(Sensors(w.sim)),
         NEW a, Numbered(s, a), NEW b, \A r \in ToSet(s.refs) : a[r] = b[r]
  PROVE  FormulaValue(s, a) \in Int /\ FormulaValue(s, a) = FormulaValue(s, b)
<1> DEFINE q == s.refs
           n == Len(q)
<1>1. q \in Seq(ToSet(q)) /\ s.constant \in Int
  BY SensorFields
<1>2. PICK c : Folded([fold |-> "formula", env |-> a, q |-> q], s.constant, n, c,
                      FormulaValue(s, a))
  BY <1>1, FormulaInTurn
<1>3. PICK d : Folded([fold |-> "formula", env |-> b, q |-> q], s.constant, n, d,
                      FormulaValue(s, b))
  BY <1>1, FormulaInTurn
<1>4. n \in Nat /\ \A i \in 1..n : q[i] \in ToSet(q)
  BY <1>1, InList
<1> DEFINE Good == {k \in 0..n : c[k] \in Int /\ c[k] = d[k]}
<1>5. 0 \in Good
  BY <1>1, <1>2, <1>3, <1>4 DEF Folded
<1>6. ASSUME NEW k \in 0..(n - 1), k \in Good PROVE k + 1 \in Good
  <2>1. k + 1 \in 1..n /\ k + 1 \in 0..n
    BY <1>4
  <2>2. c[k + 1] = c[k] + a[q[k + 1]]
    BY <1>2 DEF Folded, Turn
  <2>3. d[k + 1] = d[k] + b[q[k + 1]]
    BY <1>3 DEF Folded, Turn
  <2>4. a[q[k + 1]] \in Int /\ a[q[k + 1]] = b[q[k + 1]]
    BY <1>4, <2>1 DEF Numbered
  <2> QED
    BY <1>6, <2>1, <2>2, <2>3, <2>4
<1>7. \A k \in 0..n : k \in Good
  <2> HIDE DEF Good, n
  <2> QED
    BY <1>4, <1>5, <1>6, FoldInduction
<1>8. n \in 0..n
  BY <1>4
<1> QED
  BY <1>2, <1>3, <1>7, <1>8 DEF Folded

\* The number that a reference has, when it has one.
ValueOf(w, known, s, r) == CHOOSE v \in ValuesOf(w, known, Resolve(w.sim, s, r)) : TRUE

\* The references of a formula that can be computed have numbers.
LEMMA ReadyNumbers ==
  ASSUME NEW w, GoodWorld(w), NEW known, Partial(w, known),
         NEW s \in ToSet(Sensors(w.sim)), Ready(w, known, s)
  PROVE  /\ \A r \in ToSet(s.refs) :
              /\ ValueOf(w, known, s, r) \in Int
              /\ ValuesOf(w, known, Resolve(w.sim, s, r)) = {ValueOf(w, known, s, r)}
         /\ NextValue(w, known, s) \in Int
<1>1. ASSUME NEW r \in ToSet(s.refs)
      PROVE  /\ ValueOf(w, known, s, r) \in Int
             /\ ValuesOf(w, known, Resolve(w.sim, s, r)) = {ValueOf(w, known, s, r)}
  <2> DEFINE t == Resolve(w.sim, s, r)
             V == ValuesOf(w, known, t)
  <2>1. V # {}
    BY DEF Ready
  <2>2. SingleValue(w, known, t)
    BY OneValue
  <2>3. \E v \in Int : V = {v}
    <3> HIDE DEF t
    <3> QED
      BY <2>1, <2>2 DEF SingleValue
  <2> HIDE DEF V
  <2>4. PICK v \in Int : V = {v}
    BY <2>3
  <2>5. ValueOf(w, known, s, r) = v
    BY <2>4 DEF ValueOf, V
  <2> QED
    BY <2>4, <2>5 DEF V
<1> DEFINE env == [r \in ToSet(s.refs) |-> ValueOf(w, known, s, r)]
<1>2. Numbered(s, env)
  BY <1>1 DEF Numbered
<1>3. NextValue(w, known, s) = FormulaValue(s, env)
  BY DEF NextValue, ValueOf
<1> HIDE DEF env
<1>4. FormulaValue(s, env) \in Int
  BY <1>2, FormulaNumber
<1> QED
  BY <1>1, <1>3, <1>4

\* One round gives values to the sensors that follow.
LEMMA RoundGives ==
  ASSUME NEW w, GoodWorld(w), NEW known, Partial(w, known)
  PROVE  /\ Partial(w, FollowFrom(w, known))
         /\ \A n : n \in DOMAIN FollowFrom(w, known) <=>
                     n \in Ids(w) /\ Follows(w, known, SensorNamed(w.sim, n))
         /\ \A n \in DOMAIN FollowFrom(w, known) :
              FollowFrom(w, known)[n] = NextValue(w, known, SensorNamed(w.sim, n))
<1> DEFINE k == FollowFrom(w, known)
           T == {s.name : s \in {x \in ToSet(Sensors(w.sim)) : Follows(w, known, x)}}
<1>1. k = [n \in T |-> NextValue(w, known, SensorNamed(w.sim, n))]
  BY DEF FollowFrom
<1>2. \A n : n \in T <=> n \in Ids(w) /\ Follows(w, known, SensorNamed(w.sim, n))
  BY SensorOfName
<1> HIDE DEF k, T
<1>3. DOMAIN k = T /\ \A n \in T : k[n] = NextValue(w, known, SensorNamed(w.sim, n))
  BY <1>1
<1>4. ASSUME NEW n \in T PROVE k[n] \in Int /\ Finite(k[n])
  <2>1. SensorNamed(w.sim, n) \in ToSet(Sensors(w.sim))
    BY <1>2, SensorOfName
  <2>2. Follows(w, known, SensorNamed(w.sim, n))
    BY <1>2
  <2>3. NextValue(w, known, SensorNamed(w.sim, n)) \in Int
    BY <2>1, <2>2, ReadyNumbers DEF Follows
  <2> QED
    BY <1>3, <2>2, <2>3 DEF Follows
<1>5. Partial(w, k)
  <2>1. k = [n \in DOMAIN k |-> k[n]]
    BY <1>1
  <2> QED
    BY <1>2, <1>3, <1>4, <2>1 DEF Partial
<1> QED
  BY <1>2, <1>3, <1>5 DEF k

\* b has the values of a, and perhaps more.
Extends(a, b) == DOMAIN a \subseteq DOMAIN b /\ \A n \in DOMAIN a : a[n] = b[n]

\* A formula keeps its value when more sensors get one.
LEMMA ReadyStays ==
  ASSUME NEW w, GoodWorld(w), NEW a, Partial(w, a), NEW b, Partial(w, b), Extends(a, b),
         NEW s \in ToSet(Sensors(w.sim)), Ready(w, a, s)
  PROVE  Ready(w, b, s) /\ NextValue(w, a, s) = NextValue(w, b, s)
<1>1. ASSUME NEW r \in ToSet(s.refs)
      PROVE  /\ ValuesOf(w, b, Resolve(w.sim, s, r)) # {}
             /\ ValueOf(w, a, s, r) = ValueOf(w, b, s, r)
  <2> DEFINE t == Resolve(w.sim, s, r)
             A == ValuesOf(w, a, t)
             B == ValuesOf(w, b, t)
  <2>1. A # {}
    BY DEF Ready
  <2>2. SingleValue(w, a, t) /\ SingleValue(w, b, t)
    BY OneValue
  <2>3. A = B
    <3> HIDE DEF t
    <3>1. CASE t.kind = "sensor"
      <4>1. t.name \in DOMAIN a
        BY <2>1, <2>2, <3>1 DEF SingleValue
      <4>2. t.name \in DOMAIN b /\ a[t.name] = b[t.name]
        BY <4>1 DEF Extends
      <4> QED
        BY <2>2, <3>1, <4>1, <4>2 DEF SingleValue
    <3>2. CASE t.kind # "sensor"
      BY <2>1, <2>2, <3>2 DEF SingleValue
    <3> QED
      BY <3>1, <3>2
  <2> HIDE DEF A, B
  <2> QED
    BY <2>1, <2>3 DEF ValueOf, A, B
<1>2. Ready(w, b, s)
  BY <1>1 DEF Ready
<1> DEFINE envA == [r \in ToSet(s.refs) |-> ValueOf(w, a, s, r)]
           envB == [r \in ToSet(s.refs) |-> ValueOf(w, b, s, r)]
<1>3. envA = envB
  BY <1>1
<1>4. NextValue(w, a, s) = FormulaValue(s, envA) /\ NextValue(w, b, s) = FormulaValue(s, envB)
  BY DEF NextValue, ValueOf
<1> HIDE DEF envA, envB
<1> QED
  BY <1>2, <1>3, <1>4

\* From more values follow more.
LEMMA RoundsGrow ==
  ASSUME NEW w, GoodWorld(w), NEW a, Partial(w, a), NEW b, Partial(w, b), Extends(a, b)
  PROVE  Extends(FollowFrom(w, a), FollowFrom(w, b))
<1> DEFINE x == FollowFrom(w, a)
           y == FollowFrom(w, b)
<1>1. ASSUME NEW n \in DOMAIN x PROVE n \in DOMAIN y /\ x[n] = y[n]
  <2> DEFINE s == SensorNamed(w.sim, n)
  <2>1. n \in Ids(w) /\ Follows(w, a, s) /\ x[n] = NextValue(w, a, s)
    BY RoundGives
  <2>2. s \in ToSet(Sensors(w.sim))
    BY <2>1, SensorOfName
  <2> HIDE DEF s
  <2>3. Ready(w, b, s) /\ NextValue(w, a, s) = NextValue(w, b, s)
    BY <2>1, <2>2, ReadyStays DEF Follows
  <2>4. Follows(w, b, s)
    BY <2>1, <2>3 DEF Follows
  <2>5. n \in DOMAIN y
    BY <2>1, <2>4, RoundGives DEF s
  <2>6. y[n] = NextValue(w, b, s)
    BY <2>5, RoundGives DEF s
  <2> QED
    BY <2>1, <2>3, <2>5, <2>6
<1> QED
  BY <1>1 DEF Extends

-----------------------------------------------------------------------------
(* Rounds *)

\* There are as many sensors as names.
LEMMA IdsCounted ==
  ASSUME NEW w, GoodWorld(w), NEW n, n = Len(Sensors(w.sim))
  PROVE  n \in Nat /\ IsFiniteSet(Ids(w)) /\ Cardinality(Ids(w)) = n
<1> DEFINE q == Sensors(w.sim)
           g == [j \in 1..n |-> q[j].name]
<1>1. q \in Seq(ToSet(q))
  BY SimConfigsAssumption DEF GoodWorld
<1>2. \A i, j \in DOMAIN q : i # j => q[i].name # q[j].name
  BY DEF GoodWorld, Validate
<1>3. DOMAIN q = 1..n /\ n \in Nat
  <2> HIDE DEF q
  <2> QED
    BY <1>1 DEF q
<1>4. Ids(w) = {q[j].name : j \in 1..n}
  BY <1>3 DEF Ids, Names
<1>5. IsFiniteSet(1..n) /\ Cardinality(1..n) = n
  <2>1. 1 \in Int /\ n \in Int /\ (IF 1 > n THEN 0 ELSE n - 1 + 1) = n
    BY <1>3
  <2> QED
    BY <2>1, FS_Interval
<1> HIDE DEF q
<1>6. g \in Surjection(1..n, Ids(w))
  BY <1>4 DEF Surjection
<1>7. g \in Injection(1..n, Ids(w))
  BY <1>2, <1>3, <1>6 DEF Injection, IsInjective, Surjection
<1> HIDE DEF g
<1> QED
  BY <1>3, <1>5, <1>6, <1>7, FS_Surjection

\* The rounds of BottomUp: each extends the one before.
Rounds(w, c, n) ==
  /\ n \in Nat /\ n = Cardinality(Ids(w))
  /\ c[0] = <<>> /\ c[n] = BottomUp(w)
  /\ \A k \in 0..(n - 1) : c[k + 1] = FollowFrom(w, c[k])
  /\ \A k \in 0..n : Partial(w, c[k]) /\ Extends(c[k], FollowFrom(w, c[k]))

\* There are as many rounds as sensors.
LEMMA RoundsExtend ==
  ASSUME NEW w, GoodWorld(w)
  PROVE  \E c, n : Rounds(w, c, n)
<1> DEFINE q == Sensors(w.sim)
           n == Len(q)
<1>1. q \in Seq(ToSet(q))
  BY SimConfigsAssumption DEF GoodWorld
<1>2. n \in Nat /\ n = Cardinality(Ids(w))
  BY IdsCounted
<1>3. PICK c : Folded([fold |-> "rounds", w |-> w], <<>>, n, c, BottomUp(w))
  BY <1>1, RoundsInTurn
<1>4. \A k \in 0..(n - 1) : c[k + 1] = FollowFrom(w, c[k])
  BY <1>3 DEF Folded, Turn
<1>5. c[0] = <<>> /\ c[n] = BottomUp(w)
  BY <1>3 DEF Folded
<1> HIDE DEF n
<1> DEFINE Good == {k \in 0..n : Partial(w, c[k]) /\ Extends(c[k], FollowFrom(w, c[k]))}
<1>6. 0 \in Good
  <2>1. DOMAIN <<>> = {}
    OBVIOUS
  <2>2. Partial(w, <<>>)
    BY <2>1 DEF Partial
  <2>3. Extends(<<>>, FollowFrom(w, <<>>))
    BY <2>1 DEF Extends
  <2> QED
    BY <1>2, <1>5, <2>2, <2>3
<1>7. ASSUME NEW k \in 0..(n - 1), k \in Good PROVE k + 1 \in Good
  <2>1. k + 1 \in 0..n
    BY <1>2
  <2>2. Partial(w, c[k]) /\ Extends(c[k], c[k + 1])
    BY <1>4, <1>7
  <2>3. Partial(w, c[k + 1])
    BY <1>4, <2>2, RoundGives
  <2>4. Extends(FollowFrom(w, c[k]), FollowFrom(w, c[k + 1]))
    BY <2>2, <2>3, RoundsGrow
  <2> QED
    BY <1>4, <2>1, <2>3, <2>4
<1>8. \A k \in 0..n : k \in Good
  <2> HIDE DEF Good
  <2> QED
    BY <1>2, <1>6, <1>7, FoldInduction
<1>9. Rounds(w, c, n)
  BY <1>2, <1>4, <1>5, <1>8 DEF Rounds
<1> QED
  BY <1>9

\* A round that gives no sensor a value changes nothing.
LEMMA SameDomain ==
  ASSUME NEW w, NEW a, Partial(w, a), NEW b, Partial(w, b), Extends(a, b),
         DOMAIN b \subseteq DOMAIN a
  PROVE  a = b
BY DEF Partial, Extends

\* After the rounds no sensor is left that follows: until the rounds stop each
\* gives one more sensor a value.
LEMMA RoundsStop ==
  ASSUME NEW w, GoodWorld(w), NEW c, NEW n, Rounds(w, c, n)
  PROVE  FollowFrom(w, c[n]) = c[n]
<1>1. n \in Nat /\ IsFiniteSet(Ids(w)) /\ Cardinality(Ids(w)) = n
  BY IdsCounted DEF Rounds
<1> DEFINE Good == {k \in 0..n : \/ FollowFrom(w, c[k]) = c[k]
                                 \/ Cardinality(DOMAIN c[k]) >= k}
<1>2. ASSUME NEW k \in 0..n
      PROVE  /\ DOMAIN c[k] \subseteq Ids(w) /\ IsFiniteSet(DOMAIN c[k])
             /\ Cardinality(DOMAIN c[k]) \in Nat /\ Cardinality(DOMAIN c[k]) <= n
             /\ Cardinality(DOMAIN c[k]) = n => DOMAIN c[k] = Ids(w)
  <2>1. DOMAIN c[k] \in SUBSET Ids(w)
    BY DEF Rounds, Partial
  <2>2. /\ IsFiniteSet(DOMAIN c[k]) /\ Cardinality(DOMAIN c[k]) <= n
        /\ Cardinality(DOMAIN c[k]) = n => DOMAIN c[k] = Ids(w)
    BY <1>1, <2>1, FS_Subset
  <2> QED
    BY <2>1, <2>2, FS_CardinalityType
<1>3. ASSUME NEW k \in 0..n, FollowFrom(w, c[k]) # c[k]
      PROVE  ~ (DOMAIN FollowFrom(w, c[k]) \subseteq DOMAIN c[k])
  <2>1. Partial(w, c[k]) /\ Extends(c[k], FollowFrom(w, c[k]))
    BY DEF Rounds
  <2>2. Partial(w, FollowFrom(w, c[k]))
    BY <2>1, RoundGives
  <2> QED
    BY <1>3, <2>1, <2>2, SameDomain
<1>4. 0 \in Good
  BY <1>1, <1>2
<1>5. ASSUME NEW k \in 0..(n - 1), k \in Good PROVE k + 1 \in Good
  <2>1. k \in 0..n /\ k + 1 \in 0..n /\ c[k + 1] = FollowFrom(w, c[k])
    BY <1>1 DEF Rounds
  <2>2. CASE FollowFrom(w, c[k]) = c[k]
    BY <2>1, <2>2
  <2>3. CASE FollowFrom(w, c[k]) # c[k]
    <3> DEFINE A == DOMAIN c[k]
               B == DOMAIN c[k + 1]
    <3>1. A \subseteq B /\ A # B
      BY <1>3, <2>1, <2>3 DEF Rounds, Extends
    <3>2. IsFiniteSet(B) /\ Cardinality(A) \in Nat /\ Cardinality(B) \in Nat
      BY <1>2, <2>1
    <3>3. Cardinality(A) >= k
      BY <1>5, <2>3
    <3> HIDE DEF A, B
    <3>4. Cardinality(A) <= Cardinality(B) /\ Cardinality(A) # Cardinality(B)
      BY <3>1, <3>2, FS_Subset
    <3>5. Cardinality(B) >= k + 1
      BY <3>2, <3>3, <3>4
    <3> QED
      BY <2>1, <3>5 DEF B
  <2> QED
    BY <2>2, <2>3
<1>6. \A k \in 0..n : k \in Good
  <2> HIDE DEF Good
  <2> QED
    BY <1>1, <1>4, <1>5, FoldInduction
<1>7. n \in 0..n
  BY <1>1
<1>8. CASE Cardinality(DOMAIN c[n]) >= n
  <2>1. Cardinality(DOMAIN c[n]) = n
    BY <1>1, <1>2, <1>7, <1>8
  <2>2. DOMAIN c[n] = Ids(w)
    BY <1>2, <1>7, <2>1
  <2>3. Partial(w, c[n])
    BY <1>7 DEF Rounds
  <2>4. DOMAIN FollowFrom(w, c[n]) \subseteq Ids(w)
    BY <2>3, RoundGives DEF Partial
  <2> QED
    BY <1>3, <1>7, <2>2, <2>4
<1> QED
  BY <1>6, <1>7, <1>8

\* Later rounds extend earlier ones.
LEMMA RoundsKeep ==
  ASSUME NEW w, NEW c, NEW n, Rounds(w, c, n), NEW j \in 0..n
  PROVE  Extends(c[j], c[n])
<1> DEFINE Good == {k \in 0..n : j <= k => Extends(c[j], c[k])}
<1>1. n \in Nat
  BY DEF Rounds
<1>2. 0 \in Good
  <2>1. 0 \in 0..n
    BY <1>1
  <2>2. j <= 0 => Extends(c[j], c[0])
    BY <1>1 DEF Extends
  <2> QED
    BY <2>1, <2>2
<1>3. ASSUME NEW k \in 0..(n - 1), k \in Good PROVE k + 1 \in Good
  <2>1. k \in 0..n /\ k + 1 \in 0..n
    BY <1>1
  <2>2. Extends(c[k], c[k + 1])
    BY <2>1 DEF Rounds
  <2>3. CASE j <= k
    BY <1>3, <2>1, <2>2, <2>3 DEF Extends
  <2>4. CASE ~ (j <= k)
    <3>1. j <= k + 1 => j = k + 1
      BY <1>1, <2>4
    <3> QED
      BY <2>1, <3>1 DEF Extends
  <2> QED
    BY <2>3, <2>4
<1>4. \A k \in 0..n : k \in Good
  <2> HIDE DEF Good
  <2> QED
    BY <1>1, <1>2, <1>3, FoldInduction
<1>5. n \in 0..n /\ j <= n
  BY <1>1
<1> QED
  BY <1>4, <1>5

\* The sensors that s refers to.
SensorsOf(w, s) ==
  {x \in Ids(w) : \E r \in ToSet(s.refs) : Resolve(w.sim, s, r) = Sensor(x)}

\* Values that follow from each other and from which no more follow; a sensor
\* ranks above those it refers to.
Solution(w, bu, rank) ==
  /\ Partial(w, bu)
  /\ rank \in [DOMAIN bu -> Nat]
  /\ \A n \in DOMAIN bu : LET s == SensorNamed(w.sim, n) IN
       /\ Follows(w, bu, s) /\ bu[n] = NextValue(w, bu, s)
       /\ \A x \in SensorsOf(w, s) : x \in DOMAIN bu /\ rank[x] < rank[n]
  /\ \A n \in Ids(w) \ DOMAIN bu : ~ Follows(w, bu, SensorNamed(w.sim, n))

\* The rounds find such values.
LEMMA BottomUpSolves ==
  ASSUME NEW w, GoodWorld(w)
  PROVE  \E rank : Solution(w, BottomUp(w), rank)
<1>1. PICK c, n : Rounds(w, c, n)
  BY RoundsExtend
<1> DEFINE bu == BottomUp(w)
<1>2. n \in Nat /\ n \in 0..n /\ 0 \in 0..n /\ bu = c[n] /\ c[0] = <<>>
  BY <1>1 DEF Rounds
<1>3. Partial(w, bu) /\ FollowFrom(w, bu) = bu
  BY <1>1, <1>2, RoundsStop DEF Rounds
<1> DEFINE First(x) == {k \in 0..n : x \in DOMAIN c[k]}
           rank == [x \in DOMAIN bu |-> CHOOSE k \in First(x) : \A j \in First(x) : k <= j]
<1>4. ASSUME NEW x \in DOMAIN bu
      PROVE  rank[x] \in First(x) /\ (\A j \in First(x) : rank[x] <= j) /\ rank[x] # 0
  <2>1. First(x) \subseteq Nat /\ First(x) # {}
    BY <1>2
  <2>2. \E k \in First(x) : \A j \in First(x) : k <= j
    <3> HIDE DEF First
    <3> QED
      BY <2>1, LeastMember
  <2>3. rank[x] \in First(x) /\ \A j \in First(x) : rank[x] <= j
    BY <2>2
  <2>4. 0 \notin First(x)
    BY <1>2
  <2> QED
    BY <2>3, <2>4
<1> HIDE DEF rank
<1>5. rank \in [DOMAIN bu -> Nat]
  <2>1. rank = [x \in DOMAIN bu |-> rank[x]]
    BY DEF rank
  <2>2. \A x \in DOMAIN bu : rank[x] \in Nat
    BY <1>2, <1>4
  <2> QED
    BY <2>1, <2>2
<1> HIDE DEF bu
<1>6. ASSUME NEW x \in DOMAIN bu, NEW s, s = SensorNamed(w.sim, x)
      PROVE  /\ Follows(w, bu, s) /\ bu[x] = NextValue(w, bu, s)
             /\ \A y \in SensorsOf(w, s) : y \in DOMAIN bu /\ rank[y] < rank[x]
  <2>1. Follows(w, bu, s) /\ bu[x] = NextValue(w, bu, s)
    BY <1>3, <1>6, RoundGives
  <2>2. PICK k \in 0..(n - 1) : rank[x] = k + 1 /\ x \in DOMAIN FollowFrom(w, c[k])
    <3>1. rank[x] \in 0..n /\ rank[x] # 0 /\ x \in DOMAIN c[rank[x]]
      BY <1>4
    <3>2. rank[x] - 1 \in 0..(n - 1) /\ rank[x] = rank[x] - 1 + 1
      BY <1>2, <3>1
    <3>3. c[rank[x] - 1 + 1] = FollowFrom(w, c[rank[x] - 1])
      BY <1>1, <3>2 DEF Rounds
    <3> QED
      BY <3>1, <3>2, <3>3
  <2>3. k \in 0..n /\ Partial(w, c[k]) /\ Extends(c[k], bu)
    <3>1. k \in 0..n
      BY <1>2
    <3> QED
      BY <1>1, <1>2, <3>1, RoundsKeep DEF Rounds
  <2>4. Ready(w, c[k], s)
    BY <1>6, <2>2, <2>3, RoundGives DEF Follows
  <2>5. ASSUME NEW y \in SensorsOf(w, s) PROVE y \in DOMAIN bu /\ rank[y] < rank[x]
    <3>1. PICK r \in ToSet(s.refs) : Resolve(w.sim, s, r) = Sensor(y)
      BY DEF SensorsOf
    <3>2. SingleValue(w, c[k], Sensor(y))
      BY <2>3, <3>1, OneValue
    <3>3. ValuesOf(w, c[k], Sensor(y)) # {}
      BY <2>4, <3>1 DEF Ready
    <3>4. y \in DOMAIN c[k]
      BY <3>2, <3>3 DEF SingleValue, Sensor
    <3>5. y \in DOMAIN bu
      BY <2>3, <3>4 DEF Extends
    <3>6. rank[y] <= k /\ rank[y] \in Nat
      BY <1>4, <1>5, <2>3, <3>4, <3>5
    <3> QED
      BY <2>2, <3>5, <3>6
  <2> QED
    BY <2>1, <2>5
<1>7. ASSUME NEW x \in Ids(w) \ DOMAIN bu PROVE ~ Follows(w, bu, SensorNamed(w.sim, x))
  BY <1>3, RoundGives
<1>8. Solution(w, bu, rank)
  BY <1>3, <1>5, <1>6, <1>7 DEF Solution
<1> QED
  BY <1>8 DEF bu

-----------------------------------------------------------------------------
(* Evaluation *)

\* What is remembered is right.
MemoRight(w, bu, st) ==
  \A n \in Ids(w) : st.memo[n] # NaN => n \in DOMAIN bu /\ st.memo[n] = bu[n]

\* The sensors on the stack that have a value.
Stacked(bu, st) == ToSet(st.visiting) \cap DOMAIN bu

\* No sensor on the stack is one that the next one refers to and that has a value.
MayEval(w, bu, rank, st, name) ==
  /\ st \in EvalStates(w.sim) /\ MemoRight(w, bu, st)
  /\ name \in DOMAIN bu => \A x \in Stacked(bu, st) : rank[name] < rank[x]
  /\ name \notin DOMAIN bu => Stacked(bu, st) = {}

\* The evaluation of a sensor finds its value, or fails if it has none.
Evaluated(w, bu, st, name, after) ==
  /\ after \in EvalStates(w.sim) /\ MemoRight(w, bu, after)
  /\ after.ok <=> name \in DOMAIN bu
  /\ after.ok => after.value = bu[name] /\ after.visiting = st.visiting
  /\ Stacked(bu, after) = Stacked(bu, st)

\* Sensors that are not on the stack.
Free(w, st) == Ids(w) \ ToSet(st.visiting)

\* Evaluations that are right when no more than m sensors are not on the stack.
Evals(w, bu, rank, m, evals) ==
  \A name \in Ids(w) : \A st :
    MayEval(w, bu, rank, st, name) /\ Cardinality(Free(w, st)) <= m =>
      Evaluated(w, bu, st, name, evals[name][st])

\* The fields of the state of an evaluation.
LEMMA StateFields ==
  ASSUME NEW w, NEW st \in EvalStates(w.sim)
  PROVE  /\ st.memo \in [Ids(w) -> Int \cup {NaN}]
         /\ st.visiting \in Seq(Ids(w)) /\ st.ok \in BOOLEAN /\ st.value \in Int
         /\ \A v \in Int : [st EXCEPT !.ok = TRUE, !.value = v] \in EvalStates(w.sim)
         /\ [st EXCEPT !.ok = FALSE] \in EvalStates(w.sim)
         /\ \A n \in Ids(w) :
              [st EXCEPT !.ok = TRUE, !.visiting = Append(@, n)] \in EvalStates(w.sim)
<1>1. st = [memo |-> st.memo, visiting |-> st.visiting, ok |-> st.ok, value |-> st.value]
  BY DEF EvalStates
<1>2. /\ st.memo \in [Ids(w) -> Int \cup {NaN}] /\ st.visiting \in Seq(Ids(w))
      /\ st.ok \in BOOLEAN /\ st.value \in Int
  BY DEF EvalStates, Ids
<1>3. ASSUME NEW v \in Int PROVE [st EXCEPT !.ok = TRUE, !.value = v] \in EvalStates(w.sim)
  BY DEF EvalStates
<1>4. [st EXCEPT !.ok = FALSE] \in EvalStates(w.sim)
  BY DEF EvalStates
<1>5. ASSUME NEW n \in Ids(w)
      PROVE  [st EXCEPT !.ok = TRUE, !.visiting = Append(@, n)] \in EvalStates(w.sim)
  <2>1. Append(st.visiting, n) \in Seq(Ids(w))
    BY <1>2
  <2> DEFINE pushed == Append(st.visiting, n)
  <2> HIDE DEF pushed
  <2>2. [st EXCEPT !.ok = TRUE, !.visiting = pushed] \in EvalStates(w.sim)
    BY <2>1 DEF EvalStates, Ids, pushed
  <2> QED
    BY <2>2 DEF pushed
<1> QED
  BY <1>2, <1>3, <1>4, <1>5

\* Failing changes neither what is remembered nor the stack.
LEMMA FailedEval ==
  ASSUME NEW w, GoodWorld(w), NEW bu, NEW rank, Solution(w, bu, rank),
         NEW name \in Ids(w), name \notin DOMAIN bu, NEW st, MayEval(w, bu, rank, st, name)
  PROVE  Evaluated(w, bu, st, name, [st EXCEPT !.ok = FALSE])
<1> DEFINE after == [st EXCEPT !.ok = FALSE]
<1>1. st \in EvalStates(w.sim) /\ MemoRight(w, bu, st)
  BY DEF MayEval
<1>2. after \in EvalStates(w.sim)
  BY <1>1, StateFields
<1>3. after.memo = st.memo /\ after.visiting = st.visiting /\ after.ok = FALSE
  BY <1>1 DEF EvalStates
<1> HIDE DEF after
<1>4. Evaluated(w, bu, st, name, after)
  BY <1>1, <1>2, <1>3 DEF Evaluated, MemoRight, Stacked
<1> QED
  BY <1>4 DEF after

\* A sensor on the stack has no value: there is a cycle or it has failed before.
LEMMA StackedHasNone ==
  ASSUME NEW w, NEW bu, NEW rank, Solution(w, bu, rank),
         NEW name, NEW st, MayEval(w, bu, rank, st, name), name \in ToSet(st.visiting)
  PROVE  name \notin DOMAIN bu
<1>1. SUFFICES ASSUME name \in DOMAIN bu PROVE FALSE
  OBVIOUS
<1>2. name \in Stacked(bu, st)
  BY <1>1 DEF Stacked
<1>3. rank[name] < rank[name] /\ rank[name] \in Nat
  BY <1>1, <1>2 DEF MayEval, Solution
<1> QED
  BY <1>3

\* What is bound first stays.
LEMMA WithBinds ==
  ASSUME NEW env, NEW ref, NEW v
  PROVE  /\ DOMAIN With(env, ref, v) = DOMAIN env \cup {ref}
         /\ \A r \in DOMAIN env : With(env, ref, v)[r] = env[r]
         /\ ref \notin DOMAIN env => With(env, ref, v)[ref] = v
<1>1. CASE ref \in DOMAIN env
  BY <1>1 DEF With
<1>2. CASE ref \notin DOMAIN env
  BY <1>2 DEF With, Put
<1> QED
  BY <1>1, <1>2

\* The values of a reference.
RefValues(w, bu, s, r) == ValuesOf(w, bu, Resolve(w.sim, s, r))

\* A formula whose first k references are bound: those that have a value have
\* it, and the search fails only if the formula has none.
Loop(w, bu, s, start, k, acc) ==
  /\ acc = [st |-> acc.st, env |-> acc.env]
  /\ acc.st \in EvalStates(w.sim) /\ MemoRight(w, bu, acc.st)
  /\ Stacked(bu, acc.st) = Stacked(bu, start)
  /\ acc.st.ok => /\ acc.st.visiting = start.visiting
                  /\ \A r \in DOMAIN acc.env : RefValues(w, bu, s, r) = {acc.env[r]}
                  /\ \A j \in 1..k : \/ s.refs[j] \in DOMAIN acc.env
                                     \/ RefValues(w, bu, s, s.refs[j]) = {}
  /\ ~ acc.st.ok => ~ Ready(w, bu, s)

\* A reference with a value is bound.
LEMMA BindValue ==
  ASSUME NEW w, NEW bu, NEW s, NEW start, NEW k \in Nat, NEW acc, Loop(w, bu, s, start, k, acc),
         NEW st, st \in EvalStates(w.sim), MemoRight(w, bu, st), st.ok,
         Stacked(bu, st) = Stacked(bu, start), st.visiting = start.visiting, acc.st.ok,
         NEW v, RefValues(w, bu, s, s.refs[k + 1]) = {v}
  PROVE  Loop(w, bu, s, start, k + 1, [st |-> st, env |-> With(acc.env, s.refs[k + 1], v)])
<1> DEFINE ref == s.refs[k + 1]
           env == With(acc.env, ref, v)
           next == [st |-> st, env |-> env]
<1>1. /\ DOMAIN env = DOMAIN acc.env \cup {ref}
      /\ \A r \in DOMAIN acc.env : env[r] = acc.env[r]
      /\ ref \notin DOMAIN acc.env => env[ref] = v
  BY WithBinds
<1>2. next.st = st /\ next.env = env
  OBVIOUS
<1> HIDE DEF env, next
<1>3. \A r \in DOMAIN env : RefValues(w, bu, s, r) = {env[r]}
  BY <1>1 DEF Loop
<1>4. ASSUME NEW j \in 1..(k + 1)
      PROVE  s.refs[j] \in DOMAIN env \/ RefValues(w, bu, s, s.refs[j]) = {}
  <2>1. CASE j = k + 1
    BY <1>1, <2>1
  <2>2. CASE j # k + 1
    <3>1. j \in 1..k
      BY <2>2
    <3> QED
      BY <1>1, <3>1 DEF Loop
  <2> QED
    BY <2>1, <2>2
<1>5. next = [st |-> next.st, env |-> next.env]
  BY DEF next
<1>6. Loop(w, bu, s, start, k + 1, next)
  <2> HIDE DEF ref
  <2> QED
    BY <1>2, <1>3, <1>4, <1>5 DEF Loop
<1> QED
  BY <1>6 DEF next, env

\* With a reference that has no value the formula has none.
LEMMA NoValueFails ==
  ASSUME NEW w, NEW bu, NEW s, NEW r \in ToSet(s.refs), RefValues(w, bu, s, r) = {}
  PROVE  ~ Ready(w, bu, s)
BY DEF Ready, RefValues

\* One more reference.
LEMMA BindOne ==
  ASSUME NEW w, GoodWorld(w), NEW bu, Partial(w, bu), NEW s \in ToSet(Sensors(w.sim)),
         NEW start, NEW k \in 0..(Len(s.refs) - 1), NEW acc, Loop(w, bu, s, start, k, acc),
         NEW evals,
         \A y \in SensorsOf(w, s) : acc.st.ok =>
           Evaluated(w, bu, acc.st, y, evals[y][acc.st])
  PROVE  Loop(w, bu, s, start, k + 1,
              Bind(w, evals, acc, s.refs[k + 1], Resolve(w.sim, s, s.refs[k + 1])))
<1> DEFINE ref == s.refs[k + 1]
           t == Resolve(w.sim, s, ref)
           next == Bind(w, evals, acc, ref, t)
<1>1. s.refs \in Seq(ToSet(s.refs))
  BY SensorFields
<1>2. ref \in ToSet(s.refs) /\ k \in Nat /\ k + 1 \in Nat
  <2>1. k + 1 \in DOMAIN s.refs /\ k \in Nat
    BY <1>1
  <2> QED
    BY <1>1, <2>1, InList
<1>3. SingleValue(w, bu, t)
  BY OneValue
<1>4. RefValues(w, bu, s, ref) = ValuesOf(w, bu, t)
  BY DEF RefValues
<1>5. t.kind = "sensor" => t = Sensor(t.name) /\ t.name \in Ids(w)
  BY TargetKinds
<1>6. t.kind = "sensor" => t.name \in SensorsOf(w, s)
  BY <1>2, <1>5 DEF SensorsOf
<1> HIDE DEF t, ref, next
<1>7. CASE ~ acc.st.ok
  <2>1. next = acc
    BY <1>7 DEF next, Bind
  <2> QED
    BY <1>7, <2>1 DEF Loop, next, t, ref
<1>8. CASE acc.st.ok
  <2>0. acc = [st |-> acc.st, env |-> acc.env]
    BY DEF Loop
  <2>1. CASE t.kind \in {"control", "time"}
    <3>1. PICK v : /\ ValuesOf(w, bu, t) = {v}
                   /\ next = [st |-> acc.st, env |-> With(acc.env, ref, v)]
      <4>1. \A v : Bound(acc, ref, v) = [st |-> acc.st, env |-> With(acc.env, ref, v)]
        BY <2>0 DEF Bound
      <4>2. CASE t.kind = "control"
        <5>1. next = Bound(acc, ref, w.controls[t.name])
          BY <1>8, <4>2 DEF next, Bind
        <5> QED
          BY <1>3, <4>1, <4>2, <5>1 DEF SingleValue
      <4>3. CASE t.kind = "time"
        <5>1. next = Bound(acc, ref, w.now)
          BY <1>8, <4>3 DEF next, Bind
        <5> QED
          BY <1>3, <4>1, <4>3, <5>1 DEF SingleValue
      <4> QED
        BY <2>1, <4>2, <4>3
    <3>2. /\ acc.st \in EvalStates(w.sim) /\ MemoRight(w, bu, acc.st)
          /\ Stacked(bu, acc.st) = Stacked(bu, start) /\ acc.st.visiting = start.visiting
      BY <1>8 DEF Loop
    <3> QED
      BY <1>2, <1>4, <1>8, <3>1, <3>2, BindValue DEF next, t, ref
  <2>2. CASE t.kind = "unbound"
    <3>1. next = acc
      BY <1>8, <2>2 DEF next, Bind
    <3>2. RefValues(w, bu, s, ref) = {}
      BY <1>3, <1>4, <2>2 DEF SingleValue
    <3>3. \A j \in 1..(k + 1) : j = k + 1 \/ j \in 1..k
      BY <1>2
    <3>4. Loop(w, bu, s, start, k + 1, acc)
      BY <1>8, <3>2, <3>3 DEF Loop, ref
    <3> QED
      BY <3>1, <3>4 DEF next, t, ref
  <2>3. CASE t.kind = "unknown"
    <3>1. ~ Ready(w, bu, s)
      BY <1>2, <1>3, <1>4, <2>3, NoValueFails DEF SingleValue
    <3>2. next = [st |-> [acc.st EXCEPT !.ok = FALSE], env |-> acc.env]
      BY <1>8, <2>0, <2>3 DEF next, Bind
    <3> DEFINE failed == [acc.st EXCEPT !.ok = FALSE]
    <3>3. /\ failed \in EvalStates(w.sim) /\ failed.memo = acc.st.memo
          /\ failed.visiting = acc.st.visiting /\ failed.ok = FALSE
      BY DEF Loop, EvalStates
    <3> HIDE DEF failed
    <3>4. MemoRight(w, bu, failed) /\ Stacked(bu, failed) = Stacked(bu, start)
      BY <3>3 DEF Loop, MemoRight, Stacked
    <3>5. Loop(w, bu, s, start, k + 1, [st |-> failed, env |-> acc.env])
      BY <3>1, <3>3, <3>4 DEF Loop
    <3> QED
      BY <3>2, <3>5 DEF failed, next, t, ref
  <2>4. CASE t.kind = "sensor"
    <3> DEFINE below == evals[t.name][acc.st]
    <3>1. Evaluated(w, bu, acc.st, t.name, below)
      BY <1>6, <1>8, <2>4
    <3>2. next = Back(acc, ref, below)
      BY <1>8, <2>4 DEF next, Bind
    <3> HIDE DEF below
    <3>3. /\ below \in EvalStates(w.sim) /\ MemoRight(w, bu, below)
          /\ Stacked(bu, below) = Stacked(bu, start)
      BY <3>1 DEF Evaluated, Loop
    <3>4. CASE below.ok
      <4>1. below.value = bu[t.name] /\ below.visiting = start.visiting /\ t.name \in DOMAIN bu
        BY <1>8, <3>1, <3>4 DEF Evaluated, Loop
      <4>2. next = [st |-> below, env |-> With(acc.env, ref, below.value)]
        BY <3>2, <3>4 DEF Back
      <4>3. RefValues(w, bu, s, ref) = {below.value}
        BY <1>3, <1>4, <2>4, <4>1 DEF SingleValue
      <4> QED
        BY <1>2, <1>8, <3>3, <3>4, <4>1, <4>2, <4>3, BindValue DEF next, t, ref
    <3>5. CASE ~ below.ok
      <4>1. t.name \notin DOMAIN bu
        BY <3>1, <3>5 DEF Evaluated
      <4>2. ~ Ready(w, bu, s)
        BY <1>2, <1>3, <1>4, <2>4, <4>1, NoValueFails DEF SingleValue
      <4>3. next = [st |-> below, env |-> acc.env]
        BY <3>2, <3>5 DEF Back
      <4>4. Loop(w, bu, s, start, k + 1, [st |-> below, env |-> acc.env])
        BY <3>3, <3>5, <4>2 DEF Loop
      <4> QED
        BY <4>3, <4>4 DEF next, t, ref
    <3> QED
      BY <3>4, <3>5
  <2> QED
    BY <1>3, <2>1, <2>2, <2>3, <2>4 DEF SingleValue
<1> QED
  BY <1>7, <1>8

\* A sensor that is put on the stack may refer to others: those with a value
\* rank below it.
LEMMA BelowMayEval ==
  ASSUME NEW w, GoodWorld(w), NEW bu, NEW rank, Solution(w, bu, rank),
         NEW name \in Ids(w), NEW st, MayEval(w, bu, rank, st, name),
         NEW st2 \in EvalStates(w.sim), MemoRight(w, bu, st2),
         Stacked(bu, st2) = Stacked(bu, st) \cup ({name} \cap DOMAIN bu),
         NEW y \in SensorsOf(w, SensorNamed(w.sim, name))
  PROVE  MayEval(w, bu, rank, st2, y)
<1>1. CASE name \in DOMAIN bu
  <2>1. y \in DOMAIN bu /\ rank[y] < rank[name] /\ rank[y] \in Nat /\ rank[name] \in Nat
    BY <1>1 DEF Solution
  <2>2. ASSUME NEW x \in Stacked(bu, st2) PROVE rank[y] < rank[x]
    <3>1. x = name \/ (x \in Stacked(bu, st) /\ rank[name] < rank[x] /\ x \in DOMAIN bu)
      BY <1>1 DEF MayEval, Stacked
    <3>2. x \in DOMAIN bu => rank[x] \in Nat
      BY DEF Solution
    <3> QED
      BY <2>1, <3>1, <3>2
  <2> QED
    BY <2>1, <2>2 DEF MayEval
<1>2. CASE name \notin DOMAIN bu
  <2>1. Stacked(bu, st2) = {}
    BY <1>2 DEF MayEval
  <2> QED
    BY <2>1 DEF MayEval
<1> QED
  BY <1>1, <1>2

\* st2 is st with one more sensor on the stack.
WithTop(w, bu, st, name, st2) ==
  /\ st2 \in EvalStates(w.sim) /\ st2.memo = st.memo /\ st2.ok
  /\ st2.visiting = Append(st.visiting, name) /\ Front(st2.visiting) = st.visiting
  /\ ToSet(st2.visiting) = ToSet(st.visiting) \cup {name}
  /\ Stacked(bu, st2) = Stacked(bu, st) \cup ({name} \cap DOMAIN bu)
  /\ Free(w, st2) = Free(w, st) \ {name}

\* A sensor that is not on the stack is put there.
LEMMA Pushed ==
  ASSUME NEW w, NEW bu, NEW st \in EvalStates(w.sim), NEW name \in Ids(w)
  PROVE  WithTop(w, bu, st, name, [st EXCEPT !.ok = TRUE, !.visiting = Append(@, name)])
<1> DEFINE st2 == [st EXCEPT !.ok = TRUE, !.visiting = Append(@, name)]
<1>1. st2 \in EvalStates(w.sim) /\ st.visiting \in Seq(Ids(w))
  BY StateFields
<1>2. st2.memo = st.memo /\ st2.ok /\ st2.visiting = Append(st.visiting, name)
  BY DEF EvalStates
<1> DEFINE q == st.visiting
           p == Append(q, name)
<1>3. Front(p) = q /\ ToSet(p) = ToSet(q) \cup {name}
  <2>1. q \in Seq(Ids(w))
    BY <1>1
  <2> HIDE DEF q
  <2>2. /\ p \in Seq(Ids(w)) /\ Len(p) = Len(q) + 1 /\ Len(q) \in Nat
        /\ DOMAIN p = 1..(Len(q) + 1) /\ DOMAIN q = 1..Len(q)
        /\ p[Len(q) + 1] = name /\ \A i \in 1..Len(q) : p[i] = q[i]
    BY <2>1
  <2> HIDE DEF p
  <2>3. Front(p) = q
    <3>1. Front(p) = SubSeq(p, 1, Len(q))
      BY <2>2 DEF Front
    <3> QED
      BY <2>1, <2>2, <3>1
  <2>4. ToSet(p) = ToSet(q) \cup {name}
    <3>1. \A i \in 1..(Len(q) + 1) : i \in 1..Len(q) \/ i = Len(q) + 1
      BY <2>2
    <3>2. \A i \in 1..Len(q) : i \in 1..(Len(q) + 1)
      BY <2>2
    <3>3. Len(q) + 1 \in 1..(Len(q) + 1)
      BY <2>2
    <3> QED
      BY <2>2, <3>1, <3>2, <3>3 DEF ToSet
  <2> QED
    BY <2>3, <2>4
<1> HIDE DEF st2
<1>4. WithTop(w, bu, st, name, st2)
  BY <1>1, <1>2, <1>3 DEF Stacked, Free, WithTop
<1> QED
  BY <1>4 DEF st2

\* The references of a sensor are bound, and then its formula is computed.
LEMMA LoopEnds ==
  ASSUME NEW w, GoodWorld(w), NEW bu, NEW rank, Solution(w, bu, rank),
         NEW name \in Ids(w), NEW s, s = SensorNamed(w.sim, name),
         NEW st, MayEval(w, bu, rank, st, name),
         NEW start, start = [st EXCEPT !.ok = TRUE, !.visiting = Append(@, name)],
         NEW acc, Loop(w, bu, s, start, Len(s.refs), acc)
  PROVE  Evaluated(w, bu, st, name, Complete(s, acc))
<1>1. s \in ToSet(Sensors(w.sim)) /\ s.name = name
  BY SensorOfName
<1>2. Partial(w, bu)
  BY DEF Solution
<1>3. st \in EvalStates(w.sim) /\ MemoRight(w, bu, st)
  BY DEF MayEval
<1>4. /\ start.visiting = Append(st.visiting, name) /\ Front(start.visiting) = st.visiting
      /\ Stacked(bu, start) = Stacked(bu, st) \cup ({name} \cap DOMAIN bu)
  <2>1. WithTop(w, bu, st, name, start)
    BY <1>3, Pushed
  <2> QED
    BY <2>1 DEF WithTop
<1>5. name \in DOMAIN bu <=> Follows(w, bu, s)
  BY DEF Solution
<1>6. name \in DOMAIN bu => bu[name] = NextValue(w, bu, s)
  BY DEF Solution
<1>7. CASE ~ acc.st.ok
  <2>1. Complete(s, acc) = acc.st
    BY <1>7 DEF Complete
  <2>2. name \notin DOMAIN bu
    BY <1>5, <1>7 DEF Loop, Follows
  <2> QED
    BY <1>4, <1>7, <2>1, <2>2 DEF Loop, Evaluated
<1>8. CASE acc.st.ok
  <2> DEFINE popped == [acc.st EXCEPT !.visiting = Front(@)]
  <2>1. /\ popped \in EvalStates(w.sim) /\ popped.memo = acc.st.memo
        /\ popped.visiting = st.visiting /\ popped.ok = TRUE
    <3>1. acc.st \in EvalStates(w.sim) /\ acc.st.visiting = start.visiting
      BY <1>8 DEF Loop
    <3>2. Front(acc.st.visiting) = st.visiting /\ st.visiting \in Seq(Ids(w))
      BY <1>3, <1>4, <3>1, StateFields
    <3> DEFINE front == Front(acc.st.visiting)
    <3> HIDE DEF front
    <3>3. /\ [acc.st EXCEPT !.visiting = front] \in EvalStates(w.sim)
          /\ [acc.st EXCEPT !.visiting = front].memo = acc.st.memo
          /\ [acc.st EXCEPT !.visiting = front].visiting = st.visiting
          /\ [acc.st EXCEPT !.visiting = front].ok = TRUE
      BY <1>8, <3>1, <3>2 DEF EvalStates, Ids, front
    <3> QED
      BY <3>3 DEF front
  <2>2. MemoRight(w, bu, popped) /\ Stacked(bu, popped) = Stacked(bu, st)
    BY <2>1 DEF MemoRight, Stacked, Loop
  <2>3. Complete(s, acc) = IF ToSet(s.refs) \subseteq DOMAIN acc.env
                           THEN Remember(popped, name, FormulaValue(s, acc.env))
                           ELSE [popped EXCEPT !.ok = FALSE]
    BY <1>1, <1>8 DEF Complete
  <2> HIDE DEF popped
  <2>4. ASSUME name \notin DOMAIN bu
        PROVE  Evaluated(w, bu, st, name, [popped EXCEPT !.ok = FALSE])
    <3> DEFINE failed == [popped EXCEPT !.ok = FALSE]
    <3>1. /\ failed \in EvalStates(w.sim) /\ failed.memo = popped.memo
          /\ failed.visiting = popped.visiting /\ failed.ok = FALSE
      BY <2>1 DEF EvalStates
    <3> HIDE DEF failed
    <3>2. Evaluated(w, bu, st, name, failed)
      BY <2>2, <2>4, <3>1 DEF Evaluated, MemoRight, Stacked
    <3> QED
      BY <3>2 DEF failed
  <2>5. CASE ~ (ToSet(s.refs) \subseteq DOMAIN acc.env)
    <3>1. PICK r \in ToSet(s.refs) : r \notin DOMAIN acc.env
      BY <2>5
    <3>2. s.refs \in Seq(ToSet(s.refs))
      BY <1>1, SensorFields
    <3>3. PICK j \in 1..Len(s.refs) : s.refs[j] = r
      BY <3>2, InList
    <3>4. RefValues(w, bu, s, r) = {}
      BY <1>8, <3>1, <3>3 DEF Loop
    <3>5. name \notin DOMAIN bu
      BY <1>5, <3>4, NoValueFails DEF Follows
    <3> QED
      BY <2>3, <2>4, <2>5, <3>5
  <2>6. CASE ToSet(s.refs) \subseteq DOMAIN acc.env
    <3> DEFINE v == FormulaValue(s, acc.env)
    <3>1. \A r \in ToSet(s.refs) : RefValues(w, bu, s, r) = {acc.env[r]}
      BY <1>8, <2>6 DEF Loop
    <3>2. Ready(w, bu, s)
      BY <3>1 DEF Ready, RefValues
    <3>3. v = NextValue(w, bu, s) /\ v \in Int
      <4> DEFINE env == [r \in ToSet(s.refs) |-> ValueOf(w, bu, s, r)]
      <4>1. NextValue(w, bu, s) = FormulaValue(s, env)
        BY DEF NextValue, ValueOf
      <4>2. ASSUME NEW r \in ToSet(s.refs) PROVE env[r] \in Int /\ env[r] = acc.env[r]
        <5>1. /\ ValueOf(w, bu, s, r) \in Int
              /\ RefValues(w, bu, s, r) = {ValueOf(w, bu, s, r)}
          BY <1>1, <1>2, <3>2, ReadyNumbers DEF RefValues
        <5>2. RefValues(w, bu, s, r) = {acc.env[r]}
          BY <3>1
        <5> QED
          BY <5>1, <5>2
      <4> HIDE DEF env
      <4>3. FormulaValue(s, env) \in Int /\ FormulaValue(s, env) = v
        BY <1>1, <4>2, FormulaNumber DEF Numbered
      <4> QED
        BY <4>1, <4>3
    <3> HIDE DEF v
    <3>4. name \in DOMAIN bu <=> Finite(v)
      BY <1>5, <3>2, <3>3 DEF Follows
    <3>5. CASE ~ Finite(v)
      BY <2>3, <2>4, <2>6, <3>4, <3>5 DEF Remember, v
    <3>6. CASE Finite(v)
      <4> DEFINE after == [popped EXCEPT !.memo[name] = v, !.value = v]
      <4>1. Complete(s, acc) = after
        BY <2>3, <2>6, <3>6 DEF Remember, v
      <4>2. /\ after \in EvalStates(w.sim) /\ after.memo = [popped.memo EXCEPT ![name] = v]
            /\ after.visiting = popped.visiting /\ after.ok = TRUE /\ after.value = v
        BY <2>1, <3>3 DEF EvalStates, Ids
      <4>3. popped.memo \in [Ids(w) -> Int \cup {NaN}]
        BY <2>1, StateFields
      <4> HIDE DEF after
      <4>4. \A x \in Ids(w) : after.memo[x] = IF x = name THEN v ELSE popped.memo[x]
        BY <4>2, <4>3
      <4>5. bu[name] = v /\ name \in DOMAIN bu
        BY <1>6, <3>3, <3>4, <3>6
      <4>6. MemoRight(w, bu, after)
        BY <2>2, <4>4, <4>5 DEF MemoRight
      <4>7. Evaluated(w, bu, st, name, after)
        BY <2>1, <2>2, <4>2, <4>5, <4>6 DEF Evaluated, Stacked
      <4> QED
        BY <4>1, <4>7
    <3> QED
      BY <3>5, <3>6
  <2> QED
    BY <2>5, <2>6
<1> QED
  BY <1>7, <1>8

\* With evaluations that are right for one sensor less, one that is not on the
\* stack is evaluated right.
LEMMA SensorEvaluated ==
  ASSUME NEW w, GoodWorld(w), NEW bu, NEW rank, Solution(w, bu, rank),
         NEW m \in Nat, NEW evals, Evals(w, bu, rank, m, evals),
         NEW name \in Ids(w), NEW st, MayEval(w, bu, rank, st, name),
         name \notin ToSet(st.visiting), Cardinality(Free(w, st)) <= m + 1
  PROVE  Evaluated(w, bu, st, name, EvalSensor(w, evals, st, SensorNamed(w.sim, name)))
<1> DEFINE s == SensorNamed(w.sim, name)
           q == s.refs
           n == Len(q)
           start == [st EXCEPT !.ok = TRUE, !.visiting = Append(@, name)]
           base == [st |-> start, env |-> <<>>]
           last == BindRefs(w, evals, base, s)
<1>1. s \in ToSet(Sensors(w.sim)) /\ s.name = name
  BY SensorOfName
<1>2. q \in Seq(ToSet(q))
  BY <1>1, SensorFields
<1>3. EvalSensor(w, evals, st, s) = Complete(s, last)
  BY <1>1 DEF EvalSensor
<1>4. st \in EvalStates(w.sim) /\ MemoRight(w, bu, st) /\ Partial(w, bu)
  BY DEF MayEval, Solution
<1>5. WithTop(w, bu, st, name, start)
  BY <1>4, Pushed
<1>6. n \in Nat
  BY <1>2
<1> HIDE DEF start, s
<1>7. PICK c : Folded([fold |-> "refs", w |-> w, evals |-> evals, s |-> s, q |-> q],
                      base, n, c, last)
  <2> HIDE DEF base
  <2> QED
    BY <1>2, RefsInTurn
<1>8. c[0] = base /\ c[n] = last
  BY <1>7 DEF Folded
<1>9. ASSUME NEW k \in 0..(n - 1)
      PROVE  c[k + 1] = Bind(w, evals, c[k], q[k + 1], Resolve(w.sim, s, q[k + 1]))
  BY <1>7 DEF Folded, Turn
<1> HIDE DEF last, n
<1> DEFINE Good == {k \in 0..n : Loop(w, bu, s, start, k, c[k])}
<1>10. 0 \in Good
  <2>1. base = [st |-> base.st, env |-> base.env] /\ base.st = start /\ base.env = <<>>
    OBVIOUS
  <2>2. DOMAIN <<>> = {} /\ 1..0 = {}
    OBVIOUS
  <2>3. MemoRight(w, bu, start) /\ start.ok /\ start \in EvalStates(w.sim)
    BY <1>4, <1>5 DEF WithTop, MemoRight
  <2> HIDE DEF base
  <2>4. Loop(w, bu, s, start, 0, base)
    BY <2>1, <2>2, <2>3 DEF Loop
  <2> QED
    BY <1>6, <1>8, <2>4
<1>11. Cardinality(Free(w, start)) <= m
  <2>1. IsFiniteSet(Ids(w)) /\ Free(w, st) \in SUBSET Ids(w)
    BY IdsCounted DEF Free
  <2>2. IsFiniteSet(Free(w, st)) /\ Cardinality(Free(w, st)) \in Nat
    BY <2>1, FS_Subset, FS_CardinalityType
  <2>3. name \in Free(w, st)
    BY DEF Free
  <2>4. Cardinality(Free(w, st) \ {name}) = Cardinality(Free(w, st)) - 1
    BY <2>2, <2>3, FS_RemoveElement
  <2>5. Free(w, start) = Free(w, st) \ {name}
    BY <1>5 DEF WithTop
  <2> QED
    BY <2>2, <2>4, <2>5
<1>12. ASSUME NEW k \in 0..(n - 1), Loop(w, bu, s, start, k, c[k]), c[k].st.ok,
              NEW y \in SensorsOf(w, s)
       PROVE  Evaluated(w, bu, c[k].st, y, evals[y][c[k].st])
  <2> DEFINE st2 == c[k].st
  <2>1. /\ st2 \in EvalStates(w.sim) /\ MemoRight(w, bu, st2)
        /\ Stacked(bu, st2) = Stacked(bu, start) /\ st2.visiting = start.visiting
    BY <1>12 DEF Loop
  <2>2. Stacked(bu, st2) = Stacked(bu, st) \cup ({name} \cap DOMAIN bu)
    BY <1>5, <2>1 DEF WithTop
  <2>3. Cardinality(Free(w, st2)) <= m
    BY <1>11, <2>1 DEF Free
  <2> HIDE DEF st2
  <2>4. MayEval(w, bu, rank, st2, y)
    BY <2>1, <2>2, BelowMayEval DEF s
  <2>5. y \in Ids(w)
    BY DEF SensorsOf
  <2>6. Evaluated(w, bu, st2, y, evals[y][st2])
    BY <2>3, <2>4, <2>5 DEF Evals
  <2> QED
    BY <2>6 DEF st2
<1>13. ASSUME NEW k \in 0..(n - 1), k \in Good PROVE k + 1 \in Good
  <2>1. k + 1 \in 0..n /\ k \in 0..(Len(q) - 1)
    BY <1>6 DEF n
  <2>2. Loop(w, bu, s, start, k, c[k])
    BY <1>13
  <2>3. Loop(w, bu, s, start, k + 1,
             Bind(w, evals, c[k], q[k + 1], Resolve(w.sim, s, q[k + 1])))
    BY <1>1, <1>4, <1>12, <2>1, <2>2, BindOne
  <2> QED
    BY <1>9, <2>1, <2>3
<1>14. \A k \in 0..n : k \in Good
  <2> HIDE DEF Good
  <2>1. n \in Nat
    BY <1>6 DEF n
  <2> QED
    BY <1>10, <1>13, <2>1, FoldInduction
<1>15. Loop(w, bu, s, start, Len(q), last)
  <2>1. n \in 0..n
    BY <1>6 DEF n
  <2> QED
    BY <1>8, <1>14, <2>1 DEF n
<1>16. Evaluated(w, bu, st, name, Complete(s, last))
  BY <1>15, LoopEnds DEF s, start
<1> QED
  BY <1>3, <1>16 DEF s

\* One level more is right for one sensor more.
LEMMA LevelEvaluates ==
  ASSUME NEW w, GoodWorld(w), NEW bu, NEW rank, Solution(w, bu, rank),
         NEW m \in Nat, NEW evals, Evals(w, bu, rank, m, evals)
  PROVE  Evals(w, bu, rank, m + 1, Level(w, evals))
<1> SUFFICES ASSUME NEW name \in Ids(w), NEW st, MayEval(w, bu, rank, st, name),
                    Cardinality(Free(w, st)) <= m + 1
             PROVE  Evaluated(w, bu, st, name, Level(w, evals)[name][st])
  BY DEF Evals
<1>1. st \in EvalStates(w.sim) /\ MemoRight(w, bu, st)
  BY DEF MayEval
<1>2. Level(w, evals)[name][st] = EvalOne(w, evals, st, name)
  BY <1>1 DEF Level, Ids
<1>3. CASE st.memo[name] # NaN
  <2> DEFINE after == [st EXCEPT !.ok = TRUE, !.value = st.memo[name]]
  <2>1. name \in DOMAIN bu /\ st.memo[name] = bu[name]
    BY <1>1, <1>3 DEF MemoRight
  <2>2. st.memo[name] \in Int
    BY <2>1 DEF Solution, Partial
  <2>3. after \in EvalStates(w.sim)
    BY <1>1, <2>2, StateFields
  <2>4. /\ after.memo = st.memo /\ after.visiting = st.visiting
        /\ after.ok = TRUE /\ after.value = bu[name]
    BY <1>1, <2>1 DEF EvalStates
  <2>5. EvalOne(w, evals, st, name) = after
    BY <1>3 DEF EvalOne
  <2> HIDE DEF after
  <2>6. Evaluated(w, bu, st, name, after)
    BY <1>1, <2>1, <2>3, <2>4 DEF Evaluated, MemoRight, Stacked
  <2> QED
    BY <1>2, <2>5, <2>6
<1>4. CASE st.memo[name] = NaN /\ name \in ToSet(st.visiting)
  <2>1. EvalOne(w, evals, st, name) = [st EXCEPT !.ok = FALSE]
    BY <1>4 DEF EvalOne
  <2>2. name \notin DOMAIN bu
    BY <1>4, StackedHasNone
  <2> QED
    BY <1>2, <2>1, <2>2, FailedEval
<1>5. CASE st.memo[name] = NaN /\ name \notin ToSet(st.visiting)
  <2>1. EvalOne(w, evals, st, name) = EvalSensor(w, evals, st, SensorNamed(w.sim, name))
    BY <1>5 DEF EvalOne
  <2> QED
    BY <1>2, <1>5, <2>1, SensorEvaluated
<1> QED
  BY <1>3, <1>4, <1>5

\* Eval is right whatever is on the stack.
LEMMA EvalIsRight ==
  ASSUME NEW w, GoodWorld(w), NEW bu, NEW rank, Solution(w, bu, rank),
         NEW name \in Ids(w), NEW st, MayEval(w, bu, rank, st, name)
  PROVE  Evaluated(w, bu, st, name, Eval(w)[name][st])
<1> DEFINE q == Sensors(w.sim)
           n == Len(q)
           base == [x \in Names(Sensors(w.sim)) |->
                      [a \in EvalStates(w.sim) |-> [a EXCEPT !.ok = FALSE]]]
<1>1. q \in Seq(ToSet(q))
  BY SimConfigsAssumption DEF GoodWorld
<1>2. n \in Nat /\ IsFiniteSet(Ids(w)) /\ Cardinality(Ids(w)) = n
  BY IdsCounted
<1>3. PICK c : Folded([fold |-> "levels", w |-> w], base, n, c, Eval(w))
  <2> HIDE DEF base
  <2> QED
    BY <1>1, LevelsInTurn DEF base
<1>4. c[0] = base /\ c[n] = Eval(w) /\ \A k \in 0..(n - 1) : c[k + 1] = Level(w, c[k])
  BY <1>3 DEF Folded, Turn
<1> HIDE DEF n
<1> DEFINE Good == {k \in 0..n : Evals(w, bu, rank, k, c[k])}
<1>5. ASSUME NEW a PROVE Cardinality(Free(w, a)) \in Nat /\ Cardinality(Free(w, a)) <= n
                         /\ IsFiniteSet(Free(w, a))
  <2>1. Free(w, a) \in SUBSET Ids(w)
    BY DEF Free
  <2> QED
    BY <1>2, <2>1, FS_Subset, FS_CardinalityType
<1>6. 0 \in Good
  <2>1. ASSUME NEW x \in Ids(w), NEW a, MayEval(w, bu, rank, a, x),
               Cardinality(Free(w, a)) <= 0
        PROVE  Evaluated(w, bu, a, x, base[x][a])
    <3>1. Cardinality(Free(w, a)) = 0
      BY <1>5, <2>1
    <3>2. Free(w, a) = {}
      BY <1>5, <3>1, FS_EmptySet
    <3>3. x \in ToSet(a.visiting)
      BY <3>2 DEF Free
    <3>4. x \notin DOMAIN bu
      BY <2>1, <3>3, StackedHasNone
    <3>5. base[x][a] = [a EXCEPT !.ok = FALSE]
      BY <2>1 DEF MayEval, Ids
    <3> HIDE DEF base
    <3> QED
      BY <2>1, <3>4, <3>5, FailedEval
  <2>2. Evals(w, bu, rank, 0, c[0])
    <3> HIDE DEF base
    <3> QED
      BY <1>4, <2>1 DEF Evals
  <2> QED
    BY <1>2, <2>2
<1>7. ASSUME NEW k \in 0..(n - 1), k \in Good PROVE k + 1 \in Good
  <2>1. k + 1 \in 0..n /\ k \in Nat
    BY <1>2
  <2>2. Evals(w, bu, rank, k + 1, Level(w, c[k]))
    BY <1>7, <2>1, LevelEvaluates
  <2> QED
    BY <1>4, <2>1, <2>2
<1>8. \A k \in 0..n : k \in Good
  <2> HIDE DEF Good
  <2> QED
    BY <1>2, <1>6, <1>7, FoldInduction
<1>9. Evals(w, bu, rank, n, Eval(w))
  <2>1. n \in 0..n
    BY <1>2
  <2> QED
    BY <1>4, <1>8, <2>1
<1> QED
  BY <1>5, <1>9 DEF Evals

\* After k sensors: the values of those among them that have one.
Sweep(w, bu, q, k, acc) ==
  /\ acc.st \in EvalStates(w.sim) /\ MemoRight(w, bu, acc.st) /\ Stacked(bu, acc.st) = {}
  /\ acc.values = [n \in DOMAIN acc.values |-> acc.values[n]]
  /\ DOMAIN acc.values = {q[j].name : j \in 1..k} \cap DOMAIN bu
  /\ \A n \in DOMAIN acc.values : acc.values[n] = bu[n]

\* The search finds the values that follow from the bottom up.
LEMMA EvalAllIsBottomUp ==
  ASSUME NEW w, GoodWorld(w)
  PROVE  EvalAll(w) = BottomUp(w)
<1> DEFINE q == Sensors(w.sim)
           n == Len(q)
           bu == BottomUp(w)
<1>1. PICK rank : Solution(w, bu, rank)
  BY BottomUpSolves
<1>2. q \in Seq(ToSet(q))
  BY SimConfigsAssumption DEF GoodWorld
<1>3. n \in Nat
  BY IdsCounted
<1>4. PICK c, r : /\ Folded([fold |-> "sensors", w |-> w, q |-> q], NewSweep(w), n, c, r)
                  /\ EvalAll(w) = r.values
  BY <1>2, SensorsInTurn
<1>5. /\ c[0] = NewSweep(w) /\ EvalAll(w) = c[n].values
      /\ \A k \in 0..(n - 1) :
           c[k + 1] = KeepValue(c[k], q[k + 1], Eval(w)[q[k + 1].name][c[k].st])
  BY <1>4 DEF Folded, Turn
<1>6. Partial(w, bu)
  BY <1>1 DEF Solution
<1>7. Ids(w) = {q[j].name : j \in 1..n}
  <2>1. DOMAIN q = 1..n
    <3> HIDE DEF q
    <3> QED
      BY <1>2
  <2> QED
    BY <2>1 DEF Ids, Names
<1> HIDE DEF q, n, bu
<1> DEFINE Good == {k \in 0..n : Sweep(w, bu, q, k, c[k])}
<1>8. 0 \in Good
  <2> DEFINE st == NewState(w)
  <2>1. /\ st \in EvalStates(w.sim) /\ st.visiting = <<>>
        /\ \A x \in Ids(w) : st.memo[x] = NaN
    <3>1. <<>> \in Seq(Names(Sensors(w.sim)))
      OBVIOUS
    <3> QED
      BY <3>1 DEF NewState, EvalStates, Ids
  <2>2. MemoRight(w, bu, st) /\ Stacked(bu, st) = {}
    BY <2>1 DEF MemoRight, Stacked, ToSet
  <2>3. DOMAIN <<>> = {} /\ 1..0 = {} /\ <<>> = [x \in {} |-> <<>>[x]]
    OBVIOUS
  <2>4. c[0].st = st /\ c[0].values = <<>>
    BY <1>5 DEF NewSweep
  <2> HIDE DEF st
  <2>5. Sweep(w, bu, q, 0, c[0])
    BY <2>1, <2>2, <2>3, <2>4 DEF Sweep
  <2> QED
    BY <1>3, <2>5
<1>9. ASSUME NEW k \in 0..(n - 1), k \in Good PROVE k + 1 \in Good
  <2> DEFINE acc == c[k]
             name == q[k + 1].name
             after == Eval(w)[name][acc.st]
  <2>1. k + 1 \in 0..n /\ k + 1 \in 1..n
    BY <1>3
  <2>2. Sweep(w, bu, q, k, acc)
    BY <1>9
  <2>3. c[k + 1] = KeepValue(acc, q[k + 1], after)
    BY <1>5
  <2>4. name \in Ids(w)
    BY <1>7, <2>1
  <2>5. MayEval(w, bu, rank, acc.st, name)
    BY <2>2 DEF Sweep, MayEval
  <2> HIDE DEF acc, after
  <2>6. Evaluated(w, bu, acc.st, name, after)
    <3> HIDE DEF name
    <3> QED
      BY <1>1, <2>4, <2>5, EvalIsRight DEF after
  <2>7. {q[j].name : j \in 1..(k + 1)} = {q[j].name : j \in 1..k} \cup {name}
    <3>1. \A j : j \in 1..(k + 1) <=> j \in 1..k \/ j = k + 1
      BY <1>3
    <3> QED
      BY <3>1
  <2>8. /\ after \in EvalStates(w.sim) /\ MemoRight(w, bu, after)
        /\ Stacked(bu, after) = {}
    BY <2>2, <2>6 DEF Evaluated, Sweep
  <2> DEFINE values == IF after.ok THEN Put(acc.values, {name}, after.value) ELSE acc.values
  <2>9. c[k + 1].st = after /\ c[k + 1].values = values
    BY <2>3 DEF KeepValue
  <2>10. /\ values = [x \in DOMAIN values |-> values[x]]
         /\ DOMAIN values = {q[j].name : j \in 1..(k + 1)} \cap DOMAIN bu
         /\ \A x \in DOMAIN values : values[x] = bu[x]
    <3> HIDE DEF name
    <3>1. CASE after.ok
      <4>1. name \in DOMAIN bu /\ after.value = bu[name]
        BY <2>6, <3>1 DEF Evaluated
      <4>2. values = [x \in {name} \cup DOMAIN acc.values |->
                        IF x \in {name} THEN after.value ELSE acc.values[x]]
        BY <3>1 DEF Put
      <4> HIDE DEF values
      <4> QED
        BY <2>2, <2>7, <4>1, <4>2 DEF Sweep
    <3>2. CASE ~ after.ok
      <4>1. name \notin DOMAIN bu
        BY <2>6, <3>2 DEF Evaluated
      <4> QED
        BY <2>2, <2>7, <3>2, <4>1 DEF Sweep
    <3> QED
      BY <3>1, <3>2
  <2> HIDE DEF values, name
  <2>11. Sweep(w, bu, q, k + 1, c[k + 1])
    BY <2>8, <2>9, <2>10 DEF Sweep
  <2> QED
    BY <2>1, <2>11
<1>10. \A k \in 0..n : k \in Good
  <2> HIDE DEF Good
  <2> QED
    BY <1>3, <1>8, <1>9, FoldInduction
<1>11. Sweep(w, bu, q, n, c[n])
  BY <1>3, <1>10
<1>12. DOMAIN c[n].values = DOMAIN bu
  BY <1>6, <1>7, <1>11 DEF Sweep, Partial
<1>13. c[n].values = bu
  BY <1>6, <1>11, <1>12 DEF Sweep, Partial
<1> QED
  BY <1>5, <1>13 DEF bu

-----------------------------------------------------------------------------
(* The state *)

\* What a read answers: what stands at its addresses, at the times of its words.
Answered(x, cs, slots, r) ==
  /\ r.area \in SimAreas /\ r.addr \in Nat
  /\ \E count \in Nat :
       /\ r.times \in [1..count -> 0..MaxTime]
       /\ r.words = [i \in 1..count |->
            LET w == [sim |-> x, controls |-> cs, now |-> r.times[i]]
                a == r.addr + i - 1
            IN  IF r.area = "coils" THEN ReadCoil(w, slots[r.area], a)
                ELSE ReadWord(w, slots[r.area], a)]

\* What the page shows at time t: what there was at the times of its evaluations,
\* which followed each other.
Page(x, cs, slots, t, r) ==
  LET n == Moments(slots) IN
  /\ r.times \in [1..n -> 0..t]
  /\ \A i, j \in 1..n : i <= j => r.times[i] <= r.times[j]
  /\ r.json = StateJson([i \in 1..n |->
                [sim |-> x, controls |-> cs, now |-> r.times[i]]], slots)

\* The configuration is one that passed validation, the map is that of the
\* configuration, and controls have numbers.
SimInv ==
  /\ sim \in SimConfigs /\ Validate(sim)
  /\ map = Build(sim)
  /\ controls \in [Names(sim.controls) -> Int]
  /\ now \in 0..MaxTime
  /\ reply.op = "read" => Answered(sim, controls, map, reply)
  /\ reply.op = "state" => Page(sim, controls, map, now, reply)

\* The world is one to evaluate at any time.
LEMMA WorldIsGood ==
  ASSUME SimInv, NEW t \in Int
  PROVE  GoodWorld(World(t))
BY DEF SimInv, GoodWorld, World

-----------------------------------------------------------------------------
(* The register map *)

\* At first nothing is in an area.
EmptyArea == [next |-> 0, slots |-> <<>>]

\* The items are placed one after the other.
LEMMA ItemsInTurn ==
  ASSUME NEW x, NEW area, NEW S, NEW q \in Seq(S), q = Items(x)
  PROVE  \E c, r : /\ Folded([fold |-> "items", area |-> area, q |-> q], EmptyArea,
                             Len(q), c, r)
                   /\ BuildArea(x, area) = r.slots
<1> DEFINE n == Len(q)
           f == [fold |-> "items", area |-> area, q |-> q]
           Next1(acc, item) == PlaceIn(area, acc, item)
           base == EmptyArea
           Solved(g) == g = [T \in SUBSET DOMAIN q |->
                               IF T = {} THEN base ELSE Next1(g[T \ {Max(T)}], q[Max(T)])]
           iter == CHOOSE g : Solved(g)
<1>1. DOMAIN q = 1..n /\ n \in Nat
  OBVIOUS
<1>2. BuildArea(x, area) = iter[DOMAIN q].slots
  BY Zenon DEF BuildArea, FoldLeft, MapThenFoldSet, EmptyArea
<1>3. PICK g : Turns(f, base, n, g)
  <2> HIDE DEF n, f, base
  <2> QED
    BY <1>1, TurnsSolved
<1>4. \A y, i : Turn(f, y, i) = Next1(y, q[i])
  BY DEF Turn
<1>5. Turns(f, base, n, iter)
  <2> HIDE DEF f, Next1, base
  <2>1. Solved(g)
    BY <1>1, <1>3, <1>4 DEF Turns
  <2>2. Solved(iter)
    <3> HIDE DEF Solved
    <3> QED
      BY <2>1
  <2> HIDE DEF iter
  <2>3. iter = [T \in SUBSET (1..n) |->
                  IF T = {} THEN base ELSE Next1(iter[T \ {Max(T)}], q[Max(T)])]
    <3> HIDE DEF n
    <3> QED
      BY <1>1, <2>2
  <2>4. iter = [T \in SUBSET (1..n) |->
                  IF T = {} THEN base ELSE Turn(f, iter[T \ {Max(T)}], Max(T))]
    <3> HIDE DEF n
    <3> QED
      BY <1>4, <2>3
  <2> QED
    BY <2>4 DEF Turns
<1>6. \E c : Folded(f, base, n, c, iter[1..n])
  <2> HIDE DEF f, n, iter, base
  <2> QED
    BY <1>1, <1>5, TurnsInTurn
<1> HIDE DEF iter
<1> QED
  BY <1>1, <1>2, <1>6

\* What an item is made of.
GoodItem(item) ==
  /\ item.area \in SimAreas /\ item.width \in {1, 2}
  /\ item.address \in Nat \cup {NoAddress}
  /\ item.slot.kind \in {"control", "sensor"}
  /\ item.slot.kind = "control" => item.width = 1
  /\ Taken(item) \in 1..item.width

\* Items of a configuration: every control, then every sensor, each with a slot
\* of its own.
ItemList(x, q) ==
  /\ q \in Seq(ToSet(q)) /\ DOMAIN q = 1..Len(q) /\ Len(q) \in Nat
  /\ \A i \in 1..Len(q) : GoodItem(q[i])
  /\ \A i, j \in 1..Len(q) : i # j => q[i].slot # q[j].slot
  /\ \A i \in 1..Len(q) :
       \/ \E c \in ToSet(x.controls) : q[i] = ControlItem(c)
       \/ \E s \in ToSet(Sensors(x)) : q[i] = SensorItem(s)

\* This is how the items of a valid configuration are listed.
LEMMA ItemsListed ==
  ASSUME NEW x \in SimConfigs, Validate(x)
  PROVE  ItemList(x, Items(x))
<1> DEFINE cs == x.controls
           ss == Sensors(x)
           q == Items(x)
           m == Len(cs)
           n == Len(ss)
<1>1. cs \in Seq(ToSet(cs)) /\ ss \in Seq(ToSet(ss))
  BY SimConfigsAssumption
<1>2. /\ \A i, j \in DOMAIN cs : i # j => cs[i].name # cs[j].name
      /\ \A i, j \in DOMAIN ss : i # j => ss[i].name # ss[j].name
  BY DEF Validate
<1>3. /\ \A c \in ToSet(cs) : c.address \in Nat \cup {NoAddress}
      /\ \A s \in ToSet(ss) : /\ s.area \in SimAreas /\ s.storage \in {"f32", "u16"}
                              /\ s.address \in Nat \cup {NoAddress}
  BY SimConfigsAssumption
<1>4. q = [i \in DOMAIN cs |-> ControlItem(cs[i])] \o [i \in DOMAIN ss |-> SensorItem(ss[i])]
  BY DEF Items
<1> HIDE DEF q, cs, ss
<1>5. /\ DOMAIN cs = 1..m /\ m \in Nat /\ DOMAIN ss = 1..n /\ n \in Nat
      /\ \A i \in 1..m : cs[i] \in ToSet(cs)
      /\ \A i \in 1..n : ss[i] \in ToSet(ss)
  BY <1>1, InList
<1> DEFINE a == [i \in DOMAIN cs |-> ControlItem(cs[i])]
           b == [i \in DOMAIN ss |-> SensorItem(ss[i])]
           U == {ControlItem(cs[i]) : i \in 1..m} \cup {SensorItem(ss[i]) : i \in 1..n}
<1>6. a \in Seq(U) /\ b \in Seq(U) /\ Len(a) = m /\ Len(b) = n
  BY <1>5
<1>7. /\ q \in Seq(U) /\ Len(q) = m + n
      /\ \A i \in 1..(m + n) : q[i] = IF i <= m THEN a[i] ELSE b[i - m]
  <2> HIDE DEF a, b, U, m, n
  <2> QED
    BY <1>4, <1>5, <1>6 DEF a, b
<1>8. \A i \in 1..(m + n) :
         \/ i <= m /\ i \in 1..m /\ q[i] = ControlItem(cs[i])
         \/ i > m /\ i - m \in 1..n /\ q[i] = SensorItem(ss[i - m])
  <2> SUFFICES ASSUME NEW i \in 1..(m + n)
               PROVE  \/ i <= m /\ i \in 1..m /\ q[i] = ControlItem(cs[i])
                      \/ i > m /\ i - m \in 1..n /\ q[i] = SensorItem(ss[i - m])
    OBVIOUS
  <2>1. q[i] = IF i <= m THEN a[i] ELSE b[i - m]
    BY <1>7
  <2> HIDE DEF m, n
  <2>2. \/ i <= m /\ i \in 1..m
        \/ i > m /\ i - m \in 1..n
    BY <1>5
  <2> QED
    BY <1>5, <2>1, <2>2
<1> HIDE DEF m, n, U, a, b
<1>9. \A c \in ToSet(cs) : GoodItem(ControlItem(c))
  BY <1>3 DEF GoodItem, ControlItem, Taken, SimAreas
<1>10. \A s \in ToSet(ss) : GoodItem(SensorItem(s))
  BY <1>3 DEF GoodItem, SensorItem, Taken, StorageWidth, SimAreas
<1>11. \A i \in 1..(m + n) : GoodItem(q[i])
  BY <1>5, <1>8, <1>9, <1>10
<1>12. \A i, j \in 1..(m + n) : i # j => q[i].slot # q[j].slot
  <2> SUFFICES ASSUME NEW i \in 1..(m + n), NEW j \in 1..(m + n), i # j
               PROVE  q[i].slot # q[j].slot
    OBVIOUS
  <2>1. CASE i <= m /\ j <= m
    <3>1. /\ i \in 1..m /\ q[i] = ControlItem(cs[i])
          /\ j \in 1..m /\ q[j] = ControlItem(cs[j])
      BY <1>5, <1>8, <2>1
    <3>2. cs[i].name # cs[j].name
      BY <1>2, <1>5, <3>1
    <3>3. q[i].slot.name = cs[i].name /\ q[j].slot.name = cs[j].name
      BY <3>1 DEF ControlItem
    <3> QED
      BY <3>2, <3>3
  <2>2. CASE i > m /\ j > m
    <3>1. /\ i - m \in 1..n /\ q[i] = SensorItem(ss[i - m])
          /\ j - m \in 1..n /\ q[j] = SensorItem(ss[j - m]) /\ i - m # j - m
      BY <1>5, <1>8, <2>2
    <3>2. ss[i - m].name # ss[j - m].name
      BY <1>2, <1>5, <3>1
    <3>3. q[i].slot.name = ss[i - m].name /\ q[j].slot.name = ss[j - m].name
      BY <3>1 DEF SensorItem
    <3> QED
      BY <3>2, <3>3
  <2>3. CASE (i <= m) # (j <= m)
    <3> DEFINE Kind(k) == IF k <= m THEN "control" ELSE "sensor"
    <3>1. ASSUME NEW k \in 1..(m + n) PROVE q[k].slot.kind = Kind(k)
      <4>1. CASE k <= m
        <5>1. q[k] = ControlItem(cs[k])
          BY <1>5, <1>8, <4>1
        <5> QED
          BY <4>1, <5>1 DEF ControlItem
      <4>2. CASE k > m
        <5>1. q[k] = SensorItem(ss[k - m]) /\ ~ k <= m
          BY <1>5, <1>8, <4>2
        <5> QED
          BY <5>1 DEF SensorItem
      <4> QED
        BY <1>5, <4>1, <4>2
    <3>2. Kind(i) # Kind(j)
      BY <2>3
    <3> QED
      BY <2>3, <3>1, <3>2
  <2> QED
    BY <1>5, <2>1, <2>2, <2>3
<1>13. q \in Seq(ToSet(q)) /\ DOMAIN q = 1..Len(q) /\ Len(q) \in Nat
  <2>1. DOMAIN q = 1..Len(q) /\ Len(q) \in Nat
    BY <1>7
  <2>2. \A i \in 1..Len(q) : q[i] \in ToSet(q)
    BY <2>1 DEF ToSet
  <2> QED
    BY <1>7, <2>1, <2>2
<1>14. \A i \in 1..(m + n) : \/ \E c \in ToSet(cs) : q[i] = ControlItem(c)
                             \/ \E s \in ToSet(ss) : q[i] = SensorItem(s)
  BY <1>5, <1>8
<1> QED
  BY <1>7, <1>11, <1>12, <1>13, <1>14 DEF ItemList, cs, ss, q

\* c[k] is what an area has after the first k items.
Built(x, area, q, c) ==
  /\ q = Items(x) /\ ItemList(x, q)
  /\ c[0] = EmptyArea
  /\ \A k \in 0..(Len(q) - 1) : c[k + 1] = PlaceIn(area, c[k], q[k + 1])
  /\ BuildArea(x, area) = c[Len(q)].slots

\* Every area of a map is built item by item.
LEMMA MapIsBuilt ==
  ASSUME NEW x \in SimConfigs, Validate(x), NEW area
  PROVE  \E c : Built(x, area, Items(x), c)
<1> DEFINE q == Items(x)
<1>1. ItemList(x, q)
  BY ItemsListed
<1>2. q \in Seq(ToSet(q))
  BY <1>1 DEF ItemList
<1>3. PICK c, r : /\ Folded([fold |-> "items", area |-> area, q |-> q], EmptyArea,
                            Len(q), c, r)
                  /\ BuildArea(x, area) = r.slots
  BY <1>2, ItemsInTurn
<1> HIDE DEF q
<1>4. Built(x, area, q, c)
  BY <1>1, <1>3 DEF Folded, Turn, Built, q
<1> QED
  BY <1>4 DEF q

\* Where an item is put.
At(q, c, i) == IF q[i].address = NoAddress THEN c[i - 1].next ELSE q[i].address

\* All of the addresses of an item.
Reach(q, c, i) == At(q, c, i)..(At(q, c, i) + Taken(q[i]) - 1)

\* After k items an area has, at their addresses and no others, items of it.
Filled(area, q, c, k) ==
  /\ c[k].next \in Nat
  /\ \A b : b \in DOMAIN c[k].slots <=>
              \E i \in 1..k : q[i].area = area /\ b \in Reach(q, c, i)
  /\ \A b \in DOMAIN c[k].slots :
       \E i \in 1..k : /\ q[i].area = area /\ b \in Reach(q, c, i)
                       /\ c[k].slots[b] = q[i].slot

\* Every item leaves the area filled with the items so far.
LEMMA AreaFilled ==
  ASSUME NEW x, NEW area, NEW q, NEW c, Built(x, area, q, c)
  PROVE  \A k \in 0..Len(q) : Filled(area, q, c, k)
<1> DEFINE n == Len(q)
           Good == {k \in 0..n : Filled(area, q, c, k)}
<1>1. n \in Nat /\ \A i \in 1..n : GoodItem(q[i])
  BY DEF Built, ItemList
<1>2. c[0] = EmptyArea /\ \A k \in 0..(n - 1) : c[k + 1] = PlaceIn(area, c[k], q[k + 1])
  BY DEF Built
<1> HIDE DEF n
<1>3. 0 \in Good
  <2>1. c[0].next = 0 /\ DOMAIN c[0].slots = {}
    BY <1>2 DEF EmptyArea
  <2>2. Filled(area, q, c, 0)
    BY <2>1 DEF Filled
  <2> QED
    BY <1>1, <2>2
<1>4. ASSUME NEW k \in 0..(n - 1), k \in Good PROVE k + 1 \in Good
  <2> DEFINE next == k + 1
  <2>1. /\ next \in 0..n /\ next \in 1..n /\ next - 1 = k
        /\ \A i : i \in 1..next <=> i \in 1..k \/ i = next
    BY <1>1
  <2>2. Filled(area, q, c, k)
    BY <1>4
  <2>3. c[next] = PlaceIn(area, c[k], q[next])
    BY <1>2
  <2> HIDE DEF next
  <2>4. CASE q[next].area = area
    <3> DEFINE at == At(q, c, next)
               T == Reach(q, c, next)
    <3>1. at \in Nat /\ Taken(q[next]) \in Nat
      BY <1>1, <2>1, <2>2 DEF At, GoodItem, Filled
    <3>2. /\ c[next].next = at + Taken(q[next])
          /\ c[next].slots = Put(c[k].slots, T, q[next].slot)
      BY <2>1, <2>3, <2>4 DEF PlaceIn, PlaceItem, At, Reach
    <3>3. c[next].next \in Nat
      <4> HIDE DEF at
      <4> QED
        BY <3>1, <3>2
    <3> HIDE DEF T
    <3>4. /\ DOMAIN c[next].slots = T \cup DOMAIN c[k].slots
          /\ \A b \in T : c[next].slots[b] = q[next].slot
          /\ \A b \in DOMAIN c[k].slots :
               b \notin T => c[next].slots[b] = c[k].slots[b]
      BY <3>2 DEF Put
    <3>5. \A b : b \in DOMAIN c[next].slots <=>
                   \E i \in 1..next : q[i].area = area /\ b \in Reach(q, c, i)
      BY <2>1, <2>2, <2>4, <3>4 DEF Filled, T
    <3>6. \A b \in DOMAIN c[next].slots :
            \E i \in 1..next : /\ q[i].area = area /\ b \in Reach(q, c, i)
                               /\ c[next].slots[b] = q[i].slot
      BY <2>1, <2>2, <2>4, <3>4 DEF Filled, T
    <3>7. Filled(area, q, c, next)
      BY <3>3, <3>5, <3>6 DEF Filled
    <3> QED
      BY <2>1, <3>7 DEF next
  <2>5. CASE q[next].area # area
    <3>1. c[next] = c[k]
      BY <2>3, <2>5 DEF PlaceIn
    <3>2. Filled(area, q, c, next)
      BY <2>1, <2>2, <2>5, <3>1 DEF Filled
    <3> QED
      BY <2>1, <3>2 DEF next
  <2> QED
    BY <2>4, <2>5
<1>5. \A k \in 0..n : k \in Good
  <2> HIDE DEF Good
  <2> QED
    BY <1>1, <1>3, <1>4, FoldInduction
<1> QED
  BY <1>5 DEF n

\* No item of the area has an address.
Implicit(area, q) == \A i \in 1..Len(q) : q[i].area = area => q[i].address = NoAddress

\* Every item of the area has one, and no sensor reaches the last address.
Explicit(area, q) ==
  \A i \in 1..Len(q) : q[i].area = area =>
    /\ q[i].address # NoAddress
    /\ q[i].slot.kind = "sensor" => q[i].address + q[i].width < AddressSpace

\* No address is given to two items of the area.
Apart(area, q, c) ==
  \A i, j \in 1..Len(q) :
    q[i].area = area /\ q[j].area = area /\ i < j =>
      Reach(q, c, i) \cap Reach(q, c, j) = {}

\* Without addresses, every item is behind those before it.
LEMMA ImplicitApart ==
  ASSUME NEW x, NEW area, NEW q, NEW c, Built(x, area, q, c), Implicit(area, q)
  PROVE  Apart(area, q, c)
<1> DEFINE n == Len(q)
           Before(k) == \A i \in 1..k : q[i].area = area =>
                          At(q, c, i) + Taken(q[i]) <= c[k].next
           Good == {k \in 0..n : Before(k)}
<1>1. n \in Nat /\ \A i \in 1..n : GoodItem(q[i])
  BY DEF Built, ItemList
<1>2. \A k \in 0..(n - 1) : c[k + 1] = PlaceIn(area, c[k], q[k + 1])
  BY DEF Built
<1>3. \A k \in 0..n : c[k].next \in Nat
  BY AreaFilled DEF Filled
<1>4. \A i \in 1..n : q[i].area = area => At(q, c, i) = c[i - 1].next
  BY DEF Implicit, At
<1> HIDE DEF n
<1>5. \A i \in 1..n : i - 1 \in 0..n /\ c[i - 1].next \in Nat /\ Taken(q[i]) \in Nat \ {0}
  <2>1. \A i \in 1..n : i - 1 \in 0..n
    BY <1>1
  <2>2. \A i \in 1..n : q[i].width \in {1, 2} /\ Taken(q[i]) \in 1..q[i].width
    BY <1>1 DEF GoodItem
  <2>3. \A i \in 1..n : Taken(q[i]) \in Nat \ {0}
    BY <2>2
  <2> QED
    BY <1>3, <2>1, <2>3
<1>6. 0 \in Good
  BY <1>1
<1>7. ASSUME NEW k \in 0..(n - 1), k \in Good PROVE k + 1 \in Good
  <2> DEFINE next == k + 1
  <2>1. /\ next \in 0..n /\ next \in 1..n /\ next - 1 = k /\ k \in 0..n
        /\ \A i : i \in 1..next <=> i \in 1..k \/ i = next
        /\ \A i \in 1..k : i \in 1..n
    BY <1>1
  <2>2. Before(k)
    BY <1>7
  <2>3. c[next] = PlaceIn(area, c[k], q[next])
    BY <1>2
  <2> HIDE DEF next
  <2>4. CASE q[next].area = area
    <3>1. /\ At(q, c, next) = c[k].next /\ c[k].next \in Nat
          /\ c[next].next = c[k].next + Taken(q[next]) /\ Taken(q[next]) \in Nat
      <4>1. q[next].address = NoAddress
        BY <2>1, <2>4 DEF Implicit, n
      <4>2. c[next].next = c[k].next + Taken(q[next])
        BY <2>3, <2>4, <4>1 DEF PlaceIn, PlaceItem
      <4>3. At(q, c, next) = c[k].next
        BY <1>4, <2>1, <2>4
      <4>4. c[k].next \in Nat /\ Taken(q[next]) \in Nat
        BY <1>3, <1>5, <2>1
      <4> QED
        BY <4>2, <4>3, <4>4
    <3>2. ASSUME NEW i \in 1..next, q[i].area = area
          PROVE  At(q, c, i) + Taken(q[i]) <= c[next].next
      <4>1. CASE i = next
        BY <3>1, <4>1
      <4>2. CASE i \in 1..k
        <5> DEFINE e == At(q, c, i) + Taken(q[i])
        <5>1. i \in 1..n
          BY <2>1, <4>2
        <5>2. e \in Nat
          BY <1>4, <1>5, <3>2, <5>1
        <5>3. e <= c[k].next
          BY <2>2, <3>2, <4>2
        <5> HIDE DEF e
        <5>4. e <= c[next].next
          BY <3>1, <5>2, <5>3
        <5> QED
          BY <5>4 DEF e
      <4> QED
        BY <2>1, <4>1, <4>2
    <3>3. Before(next)
      BY <3>2
    <3> QED
      BY <2>1, <3>3 DEF next
  <2>5. CASE q[next].area # area
    <3>1. c[next] = c[k]
      BY <2>3, <2>5 DEF PlaceIn
    <3>2. Before(next)
      BY <2>1, <2>2, <2>5, <3>1
    <3> QED
      BY <2>1, <3>2 DEF next
  <2> QED
    BY <2>4, <2>5
<1>8. \A k \in 0..n : k \in Good
  <2> HIDE DEF Good
  <2> QED
    BY <1>1, <1>6, <1>7, FoldInduction
<1>9. ASSUME NEW i \in 1..n, NEW j \in 1..n, q[i].area = area, q[j].area = area, i < j
      PROVE  Reach(q, c, i) \cap Reach(q, c, j) = {}
  <2> DEFINE a == At(q, c, i)
             b == At(q, c, j)
             d == Taken(q[i])
             e == Taken(q[j])
  <2>1. j - 1 \in 0..n /\ i \in 1..(j - 1)
    BY <1>1, <1>9
  <2>2. Before(j - 1)
    BY <1>8, <2>1
  <2>3. a + d <= b /\ b \in Nat
    BY <1>4, <1>5, <1>9, <2>1, <2>2
  <2>4. a \in Nat /\ d \in Nat /\ e \in Nat
    BY <1>4, <1>5, <1>9
  <2> HIDE DEF a, b, d, e
  <2>5. (a..(a + d - 1)) \cap (b..(b + e - 1)) = {}
    BY <2>3, <2>4
  <2> QED
    BY <2>5 DEF Reach, a, b, d, e
<1> QED
  BY <1>9 DEF Apart, n

\* What passed validation does not overlap, unless it reaches the last address.
LEMMA ExplicitApart ==
  ASSUME NEW x, Validate(x), NEW area, NEW q, NEW c, Built(x, area, q, c),
         Explicit(area, q)
  PROVE  Apart(area, q, c)
<1> DEFINE n == Len(q)
<1>1. n \in Nat /\ DOMAIN q = 1..n /\ \A i \in 1..n : GoodItem(q[i])
  BY DEF Built, ItemList
<1>2. \A j \in DOMAIN q : \A i \in 1..(j - 1) :
        /\ q[i].area = q[j].area
        /\ q[i].address # NoAddress /\ q[j].address # NoAddress
        => ~ SpanOverlap(Span(q[j]), Span(q[i]))
  BY DEF Validate, Built
<1> HIDE DEF n
<1>3. ASSUME NEW i \in 1..n, q[i].area = area
      PROVE  /\ q[i].address \in Nat /\ At(q, c, i) = q[i].address
             /\ Taken(q[i]) \in Nat
             /\ Span(q[i])[1] = q[i].address /\ Span(q[i])[2] \in Int
             /\ q[i].address + Taken(q[i]) - 1 <= Span(q[i])[2]
  <2> DEFINE item == q[i]
  <2>1. /\ item.address # NoAddress /\ item.address \in Nat
        /\ item.slot.kind = "sensor" => item.address + item.width < AddressSpace
    BY <1>1, <1>3 DEF Explicit, GoodItem, n
  <2>2. /\ item.width \in {1, 2} /\ Taken(item) \in 1..item.width
        /\ item.slot.kind \in {"control", "sensor"}
        /\ item.slot.kind = "control" => item.width = 1
    BY <1>1 DEF GoodItem
  <2> DEFINE d == Taken(item)
             a == item.address
             w == item.width
  <2>3. Span(item) = <<a, IF item.slot.kind = "control" THEN a
                          ELSE (IF a + w > AddressSpace - 1 THEN AddressSpace - 1
                                ELSE a + w) - 1>>
    BY DEF Span
  <2>4. d \in Nat /\ w \in Nat /\ d <= w
    BY <2>2
  <2> HIDE DEF d, a, w
  <2>5. AddressSpace \in Nat
    BY SimAssumption
  <2>6. CASE item.slot.kind = "control"
    <3>1. d = 1
      BY <2>2, <2>6 DEF d
    <3>2. Span(item)[1] = a /\ Span(item)[2] = a
      BY <2>3, <2>6
    <3>3. a \in Nat
      BY <2>1 DEF a
    <3> HIDE DEF item
    <3> QED
      BY <2>1, <2>4, <3>1, <3>2, <3>3 DEF At, a, d, item
  <2>7. CASE item.slot.kind = "sensor"
    <3>1. a + w < AddressSpace /\ a \in Nat
      BY <2>1, <2>7 DEF a, w
    <3>2. Span(item)[1] = a /\ Span(item)[2] = a + w - 1
      BY <2>3, <2>4, <2>5, <2>7, <3>1
    <3>3. a + d - 1 <= Span(item)[2] /\ Span(item)[2] \in Int
      BY <2>4, <3>1, <3>2
    <3> QED
      BY <2>1, <2>4, <3>2, <3>3 DEF At, a, d
  <2> QED
    BY <2>2, <2>6, <2>7
<1>4. ASSUME NEW i \in 1..n, NEW j \in 1..n, q[i].area = area, q[j].area = area, i < j
      PROVE  Reach(q, c, i) \cap Reach(q, c, j) = {}
  <2> DEFINE a == q[i].address
             b == q[j].address
             d == Taken(q[i])
             e == Taken(q[j])
             s == Span(q[i])[2]
             t == Span(q[j])[2]
  <2>1. i \in 1..(j - 1) /\ j \in DOMAIN q
    BY <1>1, <1>4
  <2>2. q[i].address # NoAddress /\ q[j].address # NoAddress
    BY <1>4 DEF Explicit, n
  <2>3. ~ SpanOverlap(Span(q[j]), Span(q[i]))
    BY <1>2, <1>4, <2>1, <2>2
  <2>4. /\ a \in Nat /\ d \in Nat /\ s \in Int /\ a + d - 1 <= s /\ Span(q[i])[1] = a
        /\ b \in Nat /\ e \in Nat /\ t \in Int /\ b + e - 1 <= t /\ Span(q[j])[1] = b
    BY <1>3, <1>4
  <2>5. ~ (b <= s /\ t >= a)
    BY <2>3, <2>4 DEF SpanOverlap
  <2>6. /\ Reach(q, c, i) = a..(a + d - 1)
        /\ Reach(q, c, j) = b..(b + e - 1)
    BY <1>3, <1>4 DEF Reach
  <2> HIDE DEF a, b, d, e, s, t
  <2>7. (a..(a + d - 1)) \cap (b..(b + e - 1)) = {}
    BY <2>4, <2>5
  <2> QED
    BY <2>6, <2>7
<1> QED
  BY <1>4 DEF Apart, n

\* What stands in a map is the slot of an item of the area.
LEMMA SlotsAreItems ==
  ASSUME NEW x \in SimConfigs, Validate(x), NEW area, NEW b \in DOMAIN BuildArea(x, area)
  PROVE  \E i \in DOMAIN Items(x) :
           Items(x)[i].area = area /\ BuildArea(x, area)[b] = Items(x)[i].slot
<1> DEFINE q == Items(x)
           n == Len(q)
<1>1. PICK c : Built(x, area, q, c)
  BY MapIsBuilt
<1>2. n \in Nat /\ DOMAIN q = 1..n
  BY <1>1 DEF Built, ItemList
<1> HIDE DEF q
<1>3. Filled(area, q, c, n)
  <2> HIDE DEF n
  <2>1. n \in 0..n
    BY <1>2
  <2> QED
    BY <1>1, <2>1, AreaFilled DEF n
<1>4. BuildArea(x, area) = c[n].slots
  BY <1>1 DEF Built
<1> QED
  BY <1>2, <1>3, <1>4 DEF Filled, q

\* A control in the map is one of the configuration.
LEMMA ControlSlots ==
  ASSUME NEW x \in SimConfigs, Validate(x), NEW area, NEW b \in DOMAIN BuildArea(x, area),
         BuildArea(x, area)[b].kind = "control"
  PROVE  \E c \in ToSet(x.controls) :
           /\ BuildArea(x, area)[b].name = c.name
           /\ BuildArea(x, area)[b].writable = c.writable
           /\ c.name \in Names(x.controls)
<1>1. PICK i \in DOMAIN Items(x) : BuildArea(x, area)[b] = Items(x)[i].slot
  BY SlotsAreItems
<1>2. \/ \E c \in ToSet(x.controls) : Items(x)[i] = ControlItem(c)
      \/ \E s \in ToSet(Sensors(x)) : Items(x)[i] = SensorItem(s)
  BY <1>1, ItemsListed DEF ItemList
<1>3. \A s : SensorItem(s).slot.kind = "sensor"
  BY DEF SensorItem
<1>4. PICK c \in ToSet(x.controls) : Items(x)[i] = ControlItem(c)
  BY <1>1, <1>2, <1>3
<1>5. c.name \in Names(x.controls)
  BY DEF ToSet, Names
<1>6. /\ ControlItem(c).slot.name = c.name
      /\ ControlItem(c).slot.writable = c.writable
  BY DEF ControlItem
<1> QED
  BY <1>1, <1>4, <1>5, <1>6

\* An area whose items are apart has each of them at its addresses, and nothing
\* else.
LEMMA AreaKept ==
  ASSUME NEW x \in SimConfigs, Validate(x), NEW area, NEW q, q = Items(x),
         Implicit(area, q) \/ Explicit(area, q),
         NEW slots, slots = BuildArea(x, area),
         NEW i \in DOMAIN q, q[i].area = area
  PROVE  \E a \in DOMAIN slots :
           {b \in DOMAIN slots : slots[b] = q[i].slot} = a..(a + Taken(q[i]) - 1)
<1> DEFINE n == Len(q)
<1>1. PICK c : Built(x, area, q, c)
  BY MapIsBuilt
<1>2. /\ n \in Nat /\ DOMAIN q = 1..n /\ \A j \in 1..n : GoodItem(q[j])
      /\ \A j, k \in 1..n : j # k => q[j].slot # q[k].slot
  BY <1>1 DEF Built, ItemList
<1>3. Apart(area, q, c)
  BY <1>1, ImplicitApart, ExplicitApart
<1>4. slots = c[n].slots
  BY <1>1 DEF Built
<1>5. \A k \in 0..n : Filled(area, q, c, k)
  BY <1>1, AreaFilled
<1>6. \A j, k \in 1..n : q[j].area = area /\ q[k].area = area /\ j < k =>
                           Reach(q, c, j) \cap Reach(q, c, k) = {}
  BY <1>3 DEF Apart
<1> HIDE DEF n
<1>7. Filled(area, q, c, n)
  BY <1>2, <1>5
<1>8. ASSUME NEW b \in DOMAIN slots
      PROVE  slots[b] = q[i].slot <=> b \in Reach(q, c, i)
  <2>1. PICK j \in 1..n : /\ q[j].area = area /\ b \in Reach(q, c, j)
                          /\ slots[b] = q[j].slot
    BY <1>4, <1>7 DEF Filled
  <2>2. i \in 1..n
    BY <1>2
  <2>3. b \in Reach(q, c, i) => j = i
    <3>1. j < i \/ i < j \/ j = i
      BY <2>1, <2>2
    <3> QED
      BY <1>6, <2>1, <2>2, <3>1
  <2> QED
    BY <1>2, <2>1, <2>2, <2>3
<1>9. Reach(q, c, i) \subseteq DOMAIN slots
  BY <1>2, <1>4, <1>7 DEF Filled
<1>10. At(q, c, i) \in Nat /\ Taken(q[i]) \in Nat \ {0}
  <2>1. i \in 1..n /\ i - 1 \in 0..n
    BY <1>2
  <2>2. c[i - 1].next \in Nat
    BY <1>5, <2>1 DEF Filled
  <2>3. GoodItem(q[i])
    BY <1>2, <2>1
  <2>4. q[i].width \in {1, 2} /\ Taken(q[i]) \in 1..q[i].width
    BY <2>3 DEF GoodItem
  <2>5. Taken(q[i]) \in Nat \ {0}
    BY <2>4
  <2> QED
    BY <2>2, <2>3, <2>5 DEF At, GoodItem
<1> DEFINE at == At(q, c, i)
           d == Taken(q[i])
<1>11. Reach(q, c, i) = at..(at + d - 1)
  BY DEF Reach
<1>12. at \in Reach(q, c, i)
  <2> HIDE DEF at, d
  <2>1. at \in Nat /\ d \in Nat \ {0}
    BY <1>10 DEF at, d
  <2> QED
    BY <1>11, <2>1
<1> HIDE DEF at
<1>13. {b \in DOMAIN slots : slots[b] = q[i].slot} = Reach(q, c, i)
  BY <1>8, <1>9
<1> QED
  BY <1>9, <1>11, <1>12, <1>13

\* All areas keep what was put there.
LEMMA SlotsAreKept ==
  ASSUME SimInv
  PROVE  SlotsKept
<1> DEFINE q == Items(sim)
<1>1. /\ sim \in SimConfigs /\ Validate(sim)
      /\ \A area \in SimAreas : map[area] = BuildArea(sim, area)
  BY DEF SimInv, Build
<1>2. /\ DOMAIN q = 1..Len(q) /\ Len(q) \in Nat
  BY <1>1, ItemsListed DEF ItemList
<1>3. ASSUME NEW area \in SimAreas, Uniform(area)
      PROVE  /\ \A i \in In(area) : \E a \in DOMAIN map[area] :
                  {b \in DOMAIN map[area] : map[area][b] = q[i].slot}
                    = a..(a + Taken(q[i]) - 1)
             /\ \A a \in DOMAIN map[area] : \E i \in In(area) : map[area][a] = q[i].slot
  <2> DEFINE slots == map[area]
  <2>1. In(area) = {i \in DOMAIN q : q[i].area = area}
    BY DEF In
  <2>2. slots = BuildArea(sim, area)
    BY <1>1, <1>3
  <2>3. Implicit(area, q) \/ Explicit(area, q)
    <3>1. CASE \A i \in In(area) : q[i].address = NoAddress
      <4>1. Implicit(area, q)
        BY <1>2, <2>1, <3>1 DEF Implicit
      <4> QED
        BY <4>1
    <3>2. CASE \A i \in In(area) :
                 /\ q[i].address # NoAddress
                 /\ q[i].slot.kind = "sensor" => q[i].address + q[i].width < AddressSpace
      <4>1. Explicit(area, q)
        BY <1>2, <2>1, <3>2 DEF Explicit
      <4> QED
        BY <4>1
    <3> QED
      BY <1>3, <3>1, <3>2 DEF Uniform
  <2> HIDE DEF q, slots
  <2>4. ASSUME NEW i \in In(area)
        PROVE  \E a \in DOMAIN slots :
                 {b \in DOMAIN slots : slots[b] = q[i].slot} = a..(a + Taken(q[i]) - 1)
    BY <1>1, <2>1, <2>2, <2>3, AreaKept DEF q
  <2>5. ASSUME NEW a \in DOMAIN slots
        PROVE  \E i \in In(area) : slots[a] = q[i].slot
    BY <1>1, <2>1, <2>2, SlotsAreItems DEF q
  <2> QED
    BY <2>4, <2>5 DEF slots
<1> QED
  BY <1>3 DEF SlotsKept

-----------------------------------------------------------------------------
(* Writes *)

\* c[k] is what there is after k words of a request.
WordByWord(base, addr, words, n, c) ==
  /\ c[0] = base
  /\ \A k \in 0..(n - 1) :
       c[k + 1] = WriteNext(c[k], (addr + (k + 1) - 1) % AddressSpace, words[k + 1])
  /\ c[n] = WriteAll(base, addr, words)

\* The words of a request are written one after the other.
LEMMA WordsInTurn ==
  ASSUME NEW n \in Nat, NEW words, DOMAIN words = 1..n, NEW addr, NEW base
  PROVE  \E c : WordByWord(base, addr, words, n, c)
<1> DEFINE q == [i \in DOMAIN words |-> i]
           f == [fold |-> "words", addr |-> addr, words |-> words, q |-> q]
           Next1(acc, i) == WriteNext(acc, (addr + i - 1) % AddressSpace, words[i])
           Solved(g) == g = [T \in SUBSET DOMAIN q |->
                               IF T = {} THEN base ELSE Next1(g[T \ {Max(T)}], q[Max(T)])]
           iter == CHOOSE g : Solved(g)
<1>0. \A i \in 1..n : q[i] = i
  OBVIOUS
<1>1. DOMAIN q = 1..n
  OBVIOUS
<1>2. WriteAll(base, addr, words) = iter[DOMAIN q]
  BY Zenon DEF WriteAll, FoldLeft, MapThenFoldSet
<1>3. PICK g : Turns(f, base, n, g)
  <2> HIDE DEF f
  <2> QED
    BY TurnsSolved
<1>4. \A y, i : Turn(f, y, i) = Next1(y, q[i])
  BY DEF Turn
<1>5. Turns(f, base, n, iter)
  <2> HIDE DEF f, Next1, q
  <2>1. Solved(g)
    BY <1>1, <1>3, <1>4 DEF Turns
  <2>2. Solved(iter)
    <3> HIDE DEF Solved
    <3> QED
      BY <2>1
  <2> HIDE DEF iter
  <2>3. iter = [T \in SUBSET (1..n) |->
                  IF T = {} THEN base ELSE Next1(iter[T \ {Max(T)}], q[Max(T)])]
    BY <1>1, <2>2
  <2>4. iter = [T \in SUBSET (1..n) |->
                  IF T = {} THEN base ELSE Turn(f, iter[T \ {Max(T)}], Max(T))]
    BY <1>4, <2>3
  <2> QED
    BY <2>4 DEF Turns
<1>6. PICK c : Folded(f, base, n, c, iter[1..n])
  <2> HIDE DEF f, iter
  <2> QED
    BY <1>5, TurnsInTurn
<1> HIDE DEF iter
<1>7. ASSUME NEW k \in 0..(n - 1)
      PROVE  c[k + 1] = WriteNext(c[k], (addr + (k + 1) - 1) % AddressSpace, words[k + 1])
  <2>1. k + 1 \in 1..n
    OBVIOUS
  <2>2. c[k + 1] = Next1(c[k], q[k + 1])
    <3> HIDE DEF f, Next1, q
    <3> QED
      BY <1>4, <1>6 DEF Folded
  <2>3. q[k + 1] = k + 1
    BY <1>0, <2>1
  <2> QED
    BY <2>2, <2>3
<1>8. c[0] = base /\ c[n] = WriteAll(base, addr, words)
  <2> HIDE DEF f, q
  <2> QED
    BY <1>1, <1>2, <1>6 DEF Folded
<1> QED
  BY <1>7, <1>8 DEF WordByWord

\* A word is for a control that may be written.
Open(slots, addr, i) ==
  LET a == (addr + i - 1) % AddressSpace
  IN  a \in DOMAIN slots /\ slots[a].kind = "control" /\ slots[a].writable

\* The words among the first k that change a control.
Hits(slots, addr, k, name) ==
  {i \in 1..k : /\ \A j \in 1..i : Open(slots, addr, j)
                /\ slots[(addr + i - 1) % AddressSpace].name = name}

\* What a control gets from a word.
Setting(word) == IF 2 * word < 2 * DutyMax THEN 2 * word ELSE 2 * DutyMax

\* The value of a control after k words: that of the last one for it.
Got(slots, addr, words, k, name, old, new) ==
  \/ Hits(slots, addr, k, name) = {} /\ new = old
  \/ \E i \in Hits(slots, addr, k, name) :
       /\ \A j \in Hits(slots, addr, k, name) : j <= i
       /\ new = Setting(words[i])

\* After k words.
Landed(slots, addr, words, k, old, acc) ==
  /\ acc = [controls |-> acc.controls, code |-> acc.code]
  /\ acc.controls \in [DOMAIN old -> Int]
  /\ acc.code = "Ok" <=> \A j \in 1..k : Open(slots, addr, j)
  /\ \A name \in DOMAIN old : Got(slots, addr, words, k, name, old[name], acc.controls[name])

\* A word gives a control a number within its range.
LEMMA ControlGets ==
  ASSUME NEW word \in WordSet
  PROVE  ControlValue(word) = Setting(word) /\ Setting(word) \in Int
<1>1. Base \in Nat
  BY BaseAssumption
<1>2. word \in 0..(Base - 1) /\ DutyMax \in 0..(Base - 1)
  BY SimAssumption DEF WordSet
<1>3. word \in Int /\ 0 <= word /\ DutyMax \in Int
  BY <1>1, <1>2
<1>4. ControlValue(word) = 2 * (IF word > DutyMax THEN DutyMax ELSE word)
  BY <1>3 DEF ControlValue, Clamp
<1> QED
  BY <1>3, <1>4 DEF Setting

\* The other part of the record stays.
LEMMA ControlChanges ==
  ASSUME NEW N, NEW cs \in [N -> Int], NEW name \in N, NEW v \in Int, NEW code
  PROVE  [[controls |-> cs, code |-> code] EXCEPT !.controls[name] = v]
           = [controls |-> [cs EXCEPT ![name] = v], code |-> code]
<1> DEFINE acc == [controls |-> cs, code |-> code]
           new == [cs EXCEPT ![name] = v]
<1>1. [acc EXCEPT !.controls = new] = [controls |-> new, code |-> code]
  OBVIOUS
<1>2. [acc EXCEPT !.controls[name] = v] = [acc EXCEPT !.controls = new]
  OBVIOUS
<1> QED
  BY <1>1, <1>2

\* The word is written, or the reason why not is the answer.
LEMMA WordWritten ==
  ASSUME SimInv, NEW a, NEW word \in WordSet,
         NEW cs \in [Names(sim.controls) -> Int]
  PROVE  LET slots == map["holding"]
             next == WriteNext([controls |-> cs, code |-> "Ok"], a, word)
         IN  IF a \in DOMAIN slots /\ slots[a].kind = "control" /\ slots[a].writable
             THEN /\ slots[a].name \in Names(sim.controls)
                  /\ next = [controls |-> [cs EXCEPT ![slots[a].name] = Setting(word)],
                             code |-> "Ok"]
             ELSE next \in {[controls |-> cs, code |-> "IllegalDataAddress"],
                            [controls |-> cs, code |-> "IllegalFunction"]}
<1> DEFINE slots == map["holding"]
           acc == [controls |-> cs, code |-> "Ok"]
<1>1. slots = BuildArea(sim, "holding") /\ sim \in SimConfigs /\ Validate(sim)
  BY DEF SimInv, Build, SimAreas
<1>2. ControlValue(word) = Setting(word) /\ Setting(word) \in Int
  BY ControlGets
<1>3. WriteNext(acc, a, word) = WriteControl(acc, a, word)
  BY DEF WriteNext
<1>4. CASE a \notin DOMAIN slots
  BY <1>3, <1>4 DEF WriteControl
<1>5. CASE a \in DOMAIN slots /\ (slots[a].kind # "control" \/ ~ slots[a].writable)
  <2>1. WriteControl(acc, a, word) = [acc EXCEPT !.code = "IllegalFunction"]
    BY <1>5 DEF WriteControl
  <2> QED
    BY <1>3, <1>5, <2>1
<1>6. CASE a \in DOMAIN slots /\ slots[a].kind = "control" /\ slots[a].writable
  <2>1. a \in DOMAIN BuildArea(sim, "holding") /\ BuildArea(sim, "holding")[a].kind = "control"
    BY <1>1, <1>6
  <2>2. PICK c \in ToSet(sim.controls) :
          /\ BuildArea(sim, "holding")[a].name = c.name
          /\ BuildArea(sim, "holding")[a].writable = c.writable
          /\ c.name \in Names(sim.controls)
    <3> HIDE DEF slots
    <3> QED
      BY <1>1, <2>1, ControlSlots
  <2>3. SetControl(slots[a].name) /\ slots[a].name \in Names(sim.controls)
    BY <1>1, <1>6, <2>2 DEF SetControl
  <2>4. WriteControl(acc, a, word) = [acc EXCEPT !.controls[slots[a].name] = Setting(word)]
    BY <1>2, <1>6, <2>3 DEF WriteControl
  <2>5. ASSUME NEW name \in Names(sim.controls), NEW v \in Int
        PROVE  [acc EXCEPT !.controls[name] = v]
                 = [controls |-> [cs EXCEPT ![name] = v], code |-> "Ok"]
    <3> DEFINE code == "Ok"
    <3> HIDE DEF code
    <3>1. [[controls |-> cs, code |-> code] EXCEPT !.controls[name] = v]
            = [controls |-> [cs EXCEPT ![name] = v], code |-> code]
      BY ControlChanges
    <3> QED
      BY <3>1 DEF code
  <2> QED
    BY <1>2, <1>3, <1>6, <2>3, <2>4, <2>5
<1> QED
  BY <1>4, <1>5, <1>6

\* A word for a control is the last one for it, if all before it were written.
LEMMA HitsGrow ==
  ASSUME NEW slots, NEW addr, NEW k \in Nat, NEW name, NEW i
  PROVE  i \in Hits(slots, addr, k + 1, name) <=>
           \/ i \in Hits(slots, addr, k, name)
           \/ /\ i = k + 1 /\ Open(slots, addr, k + 1)
              /\ \A j \in 1..k : Open(slots, addr, j)
              /\ slots[(addr + i - 1) % AddressSpace].name = name
<1> DEFINE All(m) == \A j \in 1..m : Open(slots, addr, j)
           Named1(m) == slots[(addr + m - 1) % AddressSpace].name = name
           next == k + 1
<1>1. \A m : m \in 1..next <=> m \in 1..k \/ m = next
  OBVIOUS
<1>2. All(next) <=> All(k) /\ Open(slots, addr, next)
  <2> HIDE DEF next
  <2> QED
    BY <1>1
<1>3. \A m : /\ m \in Hits(slots, addr, k, name) <=> m \in 1..k /\ All(m) /\ Named1(m)
             /\ m \in Hits(slots, addr, next, name) <=> m \in 1..next /\ All(m) /\ Named1(m)
  BY DEF Hits
<1> HIDE DEF next, All, Named1
<1>4. i \in Hits(slots, addr, next, name) <=>
        \/ i \in Hits(slots, addr, k, name)
        \/ i = next /\ Open(slots, addr, next) /\ All(k) /\ Named1(i)
  BY <1>1, <1>2, <1>3
<1> QED
  BY <1>4 DEF next, All, Named1

\* A word that is not written changes nothing.
LEMMA NothingGot ==
  ASSUME NEW slots, NEW addr, NEW words, NEW k \in Nat, NEW name, NEW old, NEW new,
         Got(slots, addr, words, k, name, old, new),
         \/ ~ Open(slots, addr, k + 1)
         \/ \E j \in 1..k : ~ Open(slots, addr, j)
         \/ slots[(addr + (k + 1) - 1) % AddressSpace].name # name
  PROVE  Got(slots, addr, words, k + 1, name, old, new)
<1>1. ASSUME NEW i
      PROVE  i \in Hits(slots, addr, k + 1, name) <=> i \in Hits(slots, addr, k, name)
  <2>1. i = k + 1 => slots[(addr + i - 1) % AddressSpace] = slots[(addr + (k + 1) - 1) % AddressSpace]
    OBVIOUS
  <2>2. ~ (/\ i = k + 1 /\ Open(slots, addr, k + 1)
           /\ \A j \in 1..k : Open(slots, addr, j)
           /\ slots[(addr + i - 1) % AddressSpace].name = name)
    BY <2>1
  <2> QED
    BY <2>2, HitsGrow
<1>2. Hits(slots, addr, k + 1, name) = Hits(slots, addr, k, name)
  BY <1>1
<1> QED
  BY <1>2 DEF Got

\* A word that is written is the last one of those for its control.
LEMMA LastGot ==
  ASSUME NEW slots, NEW addr, NEW words, NEW k \in Nat, NEW name, NEW old,
         Open(slots, addr, k + 1), \A j \in 1..k : Open(slots, addr, j),
         slots[(addr + (k + 1) - 1) % AddressSpace].name = name
  PROVE  Got(slots, addr, words, k + 1, name, old, Setting(words[k + 1]))
<1>1. k + 1 \in Hits(slots, addr, k + 1, name)
  BY HitsGrow
<1>2. \A j \in Hits(slots, addr, k + 1, name) : j <= k + 1
  BY DEF Hits
<1> QED
  BY <1>1, <1>2 DEF Got

\* A request changes each control to what the last word for it says, up to the
\* first word that cannot be written.
LEMMA RequestLands ==
  ASSUME SimInv, NEW n \in Nat, NEW words \in [1..n -> WordSet], NEW addr \in Nat
  PROVE  Landed(map["holding"], addr, words, n, controls,
                WriteAll([controls |-> controls, code |-> "Ok"], addr, words))
<1> DEFINE slots == map["holding"]
           base == [controls |-> controls, code |-> "Ok"]
<1>1. controls \in [Names(sim.controls) -> Int] /\ DOMAIN controls = Names(sim.controls)
  BY DEF SimInv
<1>2. DOMAIN words = 1..n
  OBVIOUS
<1>2a. PICK c : WordByWord(base, addr, words, n, c)
  <2> HIDE DEF base
  <2> QED
    BY <1>2, WordsInTurn
<1>3. /\ c[0] = base
      /\ \A k \in 0..(n - 1) :
           c[k + 1] = WriteNext(c[k], (addr + (k + 1) - 1) % AddressSpace, words[k + 1])
      /\ c[n] = WriteAll(base, addr, words)
  <2> HIDE DEF base
  <2> QED
    BY <1>2a DEF WordByWord
<1> DEFINE Good == {k \in 0..n : Landed(slots, addr, words, k, controls, c[k])}
<1>4. 0 \in Good
  <2>1. \A name : Hits(slots, addr, 0, name) = {}
    BY DEF Hits
  <2>2. \A name \in DOMAIN controls : Got(slots, addr, words, 0, name, controls[name],
                                          controls[name])
    BY <2>1 DEF Got
  <2>0. c[0] = base
    <3> HIDE DEF base
    <3> QED
      BY <1>3
  <2>3. c[0].controls = controls /\ c[0].code = "Ok"
    BY <2>0
  <2> HIDE DEF slots
  <2>4. c[0] = [controls |-> c[0].controls, code |-> c[0].code]
    BY <2>0
  <2>5. Landed(slots, addr, words, 0, controls, c[0])
    <3> DEFINE acc == c[0]
    <3> HIDE DEF acc
    <3>1. acc.code = "Ok" <=> \A j \in 1..0 : Open(slots, addr, j)
      BY <2>3 DEF acc
    <3> QED
      BY <1>1, <2>2, <2>3, <2>4, <3>1 DEF Landed, acc
  <2> QED
    BY <2>5
<1>5. ASSUME NEW k \in 0..(n - 1), k \in Good PROVE k + 1 \in Good
  <2> DEFINE acc == c[k]
             a == (addr + (k + 1) - 1) % AddressSpace
             All(m) == \A j \in 1..m : Open(slots, addr, j)
             next == WriteNext(acc, a, words[k + 1])
  <2>1. /\ k \in Nat /\ k + 1 \in 0..n /\ k + 1 \in 1..n /\ words[k + 1] \in WordSet
        /\ \A j : j \in 1..(k + 1) <=> j \in 1..k \/ j = k + 1
    OBVIOUS
  <2>2. Landed(slots, addr, words, k, controls, acc)
    BY <1>5
  <2>3. c[k + 1] = next
    BY <1>3
  <2>4. All(k + 1) <=> All(k) /\ Open(slots, addr, k + 1)
    BY <2>1
  <2>5. /\ acc = [controls |-> acc.controls, code |-> acc.code]
        /\ acc.controls \in [Names(sim.controls) -> Int]
        /\ acc.code = "Ok" <=> All(k)
        /\ \A name \in DOMAIN controls : Got(slots, addr, words, k, name, controls[name],
                                              acc.controls[name])
    BY <1>1, <2>2 DEF Landed
  <2>6. Open(slots, addr, k + 1) <=>
          a \in DOMAIN slots /\ slots[a].kind = "control" /\ slots[a].writable
    BY DEF Open
  <2> HIDE DEF slots, All
  <2>7. CASE acc.code # "Ok"
    <3>1. next = acc /\ ~ All(k) /\ ~ All(k + 1)
      BY <2>4, <2>5, <2>7 DEF WriteNext
    <3>2. \A name \in DOMAIN controls :
            Got(slots, addr, words, k + 1, name, controls[name], acc.controls[name])
      BY <2>1, <2>5, <3>1, NothingGot DEF All
    <3> HIDE DEF acc, next
    <3>3. Landed(slots, addr, words, k + 1, controls, next)
      BY <1>1, <2>5, <2>7, <3>1, <3>2 DEF Landed, All
    <3> QED
      BY <2>1, <2>3, <3>3
  <2>8. CASE acc.code = "Ok"
    <3> DEFINE cs == acc.controls
               word == words[k + 1]
               name == slots[a].name
    <3>1. acc = [controls |-> cs, code |-> "Ok"] /\ cs \in [Names(sim.controls) -> Int]
      BY <2>5, <2>8
    <3>2. IF Open(slots, addr, k + 1)
          THEN /\ name \in Names(sim.controls)
               /\ next = [controls |-> [cs EXCEPT ![name] = Setting(word)], code |-> "Ok"]
          ELSE next \in {[controls |-> cs, code |-> "IllegalDataAddress"],
                         [controls |-> cs, code |-> "IllegalFunction"]}
      <4> HIDE DEF cs, a, acc
      <4>1. IF a \in DOMAIN slots /\ slots[a].kind = "control" /\ slots[a].writable
            THEN /\ slots[a].name \in Names(sim.controls)
                 /\ WriteNext([controls |-> cs, code |-> "Ok"], a, word)
                      = [controls |-> [cs EXCEPT ![slots[a].name] = Setting(word)],
                         code |-> "Ok"]
            ELSE WriteNext([controls |-> cs, code |-> "Ok"], a, word)
                   \in {[controls |-> cs, code |-> "IllegalDataAddress"],
                        [controls |-> cs, code |-> "IllegalFunction"]}
        BY <2>1, <3>1, WordWritten DEF slots
      <4> QED
        BY <2>6, <3>1, <4>1
    <3>3. CASE ~ Open(slots, addr, k + 1)
      <4> HIDE DEF next, acc
      <4>1. PICK code \in {"IllegalDataAddress", "IllegalFunction"} :
              next = [controls |-> cs, code |-> code]
        BY <3>2, <3>3
      <4>2. next.controls = cs /\ next.code # "Ok"
        BY <4>1
      <4>3. next = [controls |-> next.controls, code |-> next.code]
        BY <4>1
      <4>4. ~ All(k + 1)
        BY <2>4, <3>3
      <4>5. \A x \in DOMAIN controls :
              Got(slots, addr, words, k + 1, x, controls[x], cs[x])
        BY <2>1, <2>5, <3>3, NothingGot
      <4> HIDE DEF cs
      <4>6. Landed(slots, addr, words, k + 1, controls, next)
        BY <1>1, <3>1, <4>2, <4>3, <4>4, <4>5 DEF Landed, All
      <4> QED
        BY <2>1, <2>3, <4>6
    <3>4. CASE Open(slots, addr, k + 1)
      <4> HIDE DEF next, acc
      <4> DEFINE new == [cs EXCEPT ![name] = Setting(word)]
      <4>1. name \in Names(sim.controls) /\ next = [controls |-> new, code |-> "Ok"]
        BY <3>2, <3>4
      <4>2. next.controls = new /\ next.code = "Ok"
        BY <4>1
      <4>3. next = [controls |-> next.controls, code |-> next.code]
        <5> HIDE DEF new
        <5> QED
          BY <4>1
      <4>4. All(k) /\ All(k + 1)
        BY <2>4, <2>5, <2>8, <3>4
      <4>5. Setting(word) \in Int
        BY <2>1, ControlGets
      <4>6. new \in [Names(sim.controls) -> Int]
        BY <3>1, <4>1, <4>5
      <4>7. ASSUME NEW x \in DOMAIN controls
            PROVE  Got(slots, addr, words, k + 1, x, controls[x], new[x])
        <5>1. CASE x = name
          <6>1. new[x] = Setting(words[k + 1])
            BY <1>1, <3>1, <5>1
          <6>2. slots[(addr + (k + 1) - 1) % AddressSpace].name = x
            BY <5>1
          <6>3. Got(slots, addr, words, k + 1, x, controls[x], Setting(words[k + 1]))
            <7> HIDE DEF name, a
            <7> QED
              BY <2>1, <3>4, <4>4, <6>2, LastGot DEF All
          <6> QED
            BY <6>1, <6>3
        <5>2. CASE x # name
          <6>1. new[x] = cs[x]
            BY <1>1, <3>1, <5>2
          <6>2. slots[(addr + (k + 1) - 1) % AddressSpace].name # x
            BY <5>2
          <6>3. Got(slots, addr, words, k, x, controls[x], cs[x])
            BY <2>5
          <6>4. Got(slots, addr, words, k + 1, x, controls[x], cs[x])
            <7> HIDE DEF name, a, cs
            <7> QED
              BY <2>1, <6>2, <6>3, NothingGot
          <6> QED
            BY <6>1, <6>4
        <5> QED
          BY <5>1, <5>2
      <4> HIDE DEF new, cs
      <4>8. Landed(slots, addr, words, k + 1, controls, next)
        BY <1>1, <4>2, <4>3, <4>4, <4>6, <4>7 DEF Landed, All
      <4> QED
        BY <2>1, <2>3, <4>8
    <3> QED
      BY <3>3, <3>4
  <2> QED
    BY <2>7, <2>8
<1>6. \A k \in 0..n : k \in Good
  <2> HIDE DEF Good
  <2> QED
    BY <1>4, <1>5, FoldInduction
<1>7. Landed(slots, addr, words, n, controls, c[n])
  BY <1>6
<1> HIDE DEF Good, slots
<1> QED
  BY <1>3, <1>7 DEF slots

-----------------------------------------------------------------------------
(* The page *)

\* An area ends somewhere.
LEMMA AreaBounded ==
  ASSUME NEW x \in SimConfigs, Validate(x), NEW area
  PROVE  \E m \in Nat : DOMAIN BuildArea(x, area) \subseteq 0..m
<1> DEFINE q == Items(x)
           n == Len(q)
<1>1. PICK c : Built(x, area, q, c)
  BY MapIsBuilt
<1>2. /\ n \in Nat /\ \A i \in 1..n : GoodItem(q[i])
      /\ c[0] = EmptyArea
      /\ \A k \in 0..(n - 1) : c[k + 1] = PlaceIn(area, c[k], q[k + 1])
      /\ BuildArea(x, area) = c[n].slots
  BY <1>1 DEF Built, ItemList
<1>3. \A k \in 0..n : c[k].next \in Nat
  BY <1>1, AreaFilled DEF Filled
<1> HIDE DEF q, n
<1> DEFINE Good == {k \in 0..n : \E m \in Nat : DOMAIN c[k].slots \subseteq 0..m}
<1>4. 0 \in Good
  <2>1. DOMAIN c[0].slots = {}
    BY <1>2 DEF EmptyArea
  <2> QED
    BY <1>2, <2>1
<1>5. ASSUME NEW k \in 0..(n - 1), k \in Good PROVE k + 1 \in Good
  <2>1. k + 1 \in 0..n /\ k + 1 \in 1..n /\ k \in 0..n
    BY <1>2
  <2>2. PICK m \in Nat : DOMAIN c[k].slots \subseteq 0..m
    BY <1>5
  <2> DEFINE item == q[k + 1]
             at == IF item.address = NoAddress THEN c[k].next ELSE item.address
             d == Taken(item)
             new == c[k + 1]
  <2>3. at \in Nat /\ d \in {1, 2}
    <3>1. GoodItem(item) /\ c[k].next \in Nat
      BY <1>2, <1>3, <2>1
    <3> HIDE DEF item
    <3> QED
      BY <3>1 DEF GoodItem
  <2>4. new = c[k] \/ new.slots = Put(c[k].slots, at..(at + d - 1), item.slot)
    <3>1. new = PlaceIn(area, c[k], item)
      BY <1>2
    <3>2. PlaceItem(c[k], item).slots = Put(c[k].slots, at..(at + d - 1), item.slot)
      BY DEF PlaceItem
    <3> HIDE DEF new, item, at, d
    <3> QED
      BY <3>1, <3>2 DEF PlaceIn
  <2> HIDE DEF at, d, item, new
  <2>5. new.slots = Put(c[k].slots, at..(at + d - 1), item.slot) =>
          DOMAIN new.slots = (at..(at + d - 1)) \cup DOMAIN c[k].slots
    BY DEF Put
  <2>6. DOMAIN new.slots \subseteq 0..(m + at + 2) /\ m + at + 2 \in Nat
    BY <2>2, <2>3, <2>4, <2>5
  <2> QED
    BY <2>1, <2>6 DEF new
<1>6. n \in Good
  <2> HIDE DEF Good
  <2>1. \A k \in 0..n : k \in Good
    BY <1>2, <1>4, <1>5, FoldInduction
  <2> QED
    BY <1>2, <2>1
<1> QED
  BY <1>2, <1>6

\* The addresses in use are those up to its extent.
LEMMA ExtentCovers ==
  ASSUME NEW slots, NEW m \in Nat, DOMAIN slots \subseteq 0..m
  PROVE  Extent(slots) \in Nat /\ DOMAIN slots \subseteq 0..(Extent(slots) - 1)
<1>1. CASE DOMAIN slots = {}
  BY <1>1 DEF Extent
<1>2. CASE DOMAIN slots # {}
  <2> DEFINE top == Max(DOMAIN slots)
  <2>1. top \in DOMAIN slots /\ \A y \in DOMAIN slots : y <= top
    BY <1>2, MaxOfNumbers
  <2> HIDE DEF top
  <2>2. top + 1 \in Nat /\ DOMAIN slots \subseteq 0..((top + 1) - 1)
    BY <2>1
  <2> QED
    BY <1>2, <2>2 DEF Extent, top
<1> QED
  BY <1>1, <1>2

\* There is a moment for each evaluation of a page.
LEMMA MomentsCounted ==
  ASSUME SimInv
  PROVE  /\ Moments(map) \in Nat /\ Moments(map) >= 2
         /\ Extent(map["input"]) \in Nat
         /\ DOMAIN map["input"] \subseteq 0..(Extent(map["input"]) - 1)
         /\ \A a \in 0..Extent(map["input"]) :
              Moment(map, "input", a) \in 2..Moments(map)
         /\ \A a \in Nat : Moment(map, "input", a) <= Moment(map, "input", a + 1)
<1>1. ASSUME NEW area \in SimAreas
      PROVE  /\ Extent(map[area]) \in Nat
             /\ DOMAIN map[area] \subseteq 0..(Extent(map[area]) - 1)
  <2>1. sim \in SimConfigs /\ Validate(sim) /\ map[area] = BuildArea(sim, area)
    BY DEF SimInv, Build
  <2> QED
    BY <2>1, AreaBounded, ExtentCovers
<1>2. PICK h \in Nat, i \in Nat, c \in Nat :
        /\ h = Extent(map["holding"]) /\ i = Extent(map["input"])
        /\ c = Extent(map["coils"])
  BY <1>1 DEF SimAreas
<1>3. \A a : Moment(map, "input", a) = 2 + a + h
  BY <1>2 DEF Moment
<1>4. Moments(map) = 2 + c + (h + i + 1) - 1
  BY <1>2 DEF Moments, Moment
<1>5. DOMAIN map["input"] \subseteq 0..(Extent(map["input"]) - 1)
  BY <1>1 DEF SimAreas
<1> QED
  BY <1>2, <1>3, <1>4, <1>5

\* Evaluations that follow each other happen at times that do, from now on.
LEMMA TimesInOrder ==
  ASSUME now \in 0..MaxTime, NEW count \in Nat, NEW times \in Times(count)
  PROVE  /\ times \in [1..count -> now..MaxTime]
         /\ \A i, j \in 1..count : i <= j => times[i] <= times[j]
<1> DEFINE n == MaxTime - now
<1>1. n \in Nat /\ now \in Nat /\ MaxTime = now + n
  BY SimAssumption
<1>2. PICK since \in [1..n -> 1..(count + 1)] :
        times = [i \in 1..count |->
                   now + Cardinality({k \in DOMAIN since : since[k] <= i})]
  BY DEF Times
<1> DEFINE S(i) == {k \in DOMAIN since : since[k] <= i}
<1> HIDE DEF n
<1>3. IsFiniteSet(1..n) /\ Cardinality(1..n) = n
  BY <1>1, FS_Interval
<1>4. ASSUME NEW i PROVE IsFiniteSet(S(i)) /\ Cardinality(S(i)) \in 0..n
  <2> DEFINE T == S(i)
             U == 1..n
  <2>1. T \in SUBSET U /\ IsFiniteSet(U) /\ Cardinality(U) = n
    BY <1>2, <1>3
  <2> HIDE DEF T, U
  <2>2. IsFiniteSet(T) /\ Cardinality(T) <= Cardinality(U)
    BY <2>1, FS_Subset
  <2>3. Cardinality(T) \in Nat
    BY <2>2, FS_CardinalityType
  <2> QED
    BY <1>1, <2>1, <2>2, <2>3 DEF T
<1>5. ASSUME NEW i \in 1..count, NEW j \in 1..count, i <= j
      PROVE  Cardinality(S(i)) <= Cardinality(S(j))
  <2>1. S(i) \subseteq S(j)
    <3>1. \A k \in 1..n : since[k] \in Int
      BY <1>2
    <3> QED
      BY <1>2, <1>5, <3>1
  <2> HIDE DEF S
  <2> QED
    BY <1>4, <2>1, FS_Subset
<1>6. times = [i \in 1..count |-> now + Cardinality(S(i))]
  BY <1>2
<1> HIDE DEF S
<1>7. times \in [1..count -> now..MaxTime]
  <2>1. \A i \in 1..count : now + Cardinality(S(i)) \in now..MaxTime
    BY <1>1, <1>4
  <2> QED
    BY <1>6, <2>1
<1>8. ASSUME NEW i \in 1..count, NEW j \in 1..count, i <= j
      PROVE  times[i] <= times[j]
  BY <1>1, <1>4, <1>5, <1>6, <1>8
<1> QED
  BY <1>7, <1>8

-----------------------------------------------------------------------------
(* The invariant *)

\* The first value of each control is that of the configuration.
LEMMA InitHolds ==
  ASSUME Init
  PROVE  SimInv
<1>1. sim \in SimConfigs /\ Validate(sim) /\ map = Build(sim) /\ now = 0 /\ reply = NoReply
  BY DEF Init
<1>2. ASSUME NEW n \in Names(sim.controls)
      PROVE  Named(sim.controls, n).initial \in Int
  <2> DEFINE q == sim.controls
  <2>1. q \in Seq(ToSet(q)) /\ \A k \in ToSet(q) : k.initial \in Int
    BY <1>1, SimConfigsAssumption
  <2> HIDE DEF q
  <2>2. \E i \in DOMAIN q : q[i].name = n
    BY <1>2 DEF Names, q
  <2>3. Named(q, n) \in ToSet(q)
    BY <2>1, <2>2, InList DEF Named
  <2> QED
    BY <2>1, <2>3 DEF q
<1>3. controls \in [Names(sim.controls) -> Int]
  BY <1>2 DEF Init
<1>4. now \in 0..MaxTime
  BY <1>1, SimAssumption
<1>5. reply.op = "none"
  BY <1>1 DEF NoReply
<1> QED
  BY <1>1, <1>3, <1>4, <1>5 DEF SimInv

\* A step that keeps the configuration, and answers neither a read nor the page,
\* needs only to give the controls numbers.
LEMMA OtherStep ==
  ASSUME SimInv, UNCHANGED <<sim, map>>, now' \in 0..MaxTime,
         controls' \in [Names(sim.controls) -> Int], reply'.op \notin {"read", "state"}
  PROVE  SimInv'
BY DEF SimInv

\* A read answers what stands at its addresses and changes no control.
LEMMA ReadStep ==
  ASSUME SimInv, NEW area \in SimAreas, NEW addr \in 0..(AddressSpace - 1),
         NEW count \in 1..MaxWords, Read(area, addr, count)
  PROVE  SimInv' /\ controls' = controls /\ reply'.op = "read"
<1> DEFINE word(t, i) == IF area = "coils" THEN ReadCoil(World(t), map[area], addr + i - 1)
                         ELSE ReadWord(World(t), map[area], addr + i - 1)
<1>1. PICK times \in Times(count) :
        /\ reply' = [op |-> "read", area |-> area, addr |-> addr, times |-> times,
                     words |-> [i \in 1..count |-> word(times[i], i)]]
        /\ now' = times[count]
        /\ UNCHANGED <<sim, map, controls>>
  BY DEF Read
<1>2. now \in 0..MaxTime /\ count \in Nat /\ count \in 1..count /\ MaxTime \in Nat
  BY SimAssumption DEF SimInv
<1>3. times \in [1..count -> 0..MaxTime]
  <2>1. times \in [1..count -> now..MaxTime]
    BY <1>2, TimesInOrder
  <2>2. now..MaxTime \subseteq 0..MaxTime
    BY <1>2
  <2> QED
    BY <2>1, <2>2
<1>4. now' \in 0..MaxTime
  BY <1>1, <1>2, <1>3
<1>5. addr \in Nat
  BY SimAssumption
<1>6. PICK r : r = reply'
  OBVIOUS
<1>7. /\ r.area = area /\ r.addr = addr /\ r.times = times /\ r.op = "read"
      /\ r.words = [i \in 1..count |-> word(times[i], i)]
  <2> HIDE DEF word
  <2> QED
    BY <1>1, <1>6
<1>8. Answered(sim, controls, map, r)
  <2>1. r.words = [i \in 1..count |->
            LET w == [sim |-> sim, controls |-> controls, now |-> r.times[i]]
                a == r.addr + i - 1
            IN  IF r.area = "coils" THEN ReadCoil(w, map[r.area], a)
                ELSE ReadWord(w, map[r.area], a)]
    BY <1>7 DEF World
  <2> HIDE DEF word
  <2> QED
    BY <1>2, <1>3, <1>5, <1>7, <2>1 DEF Answered
<1>9. SimInv'
  <2>1. UNCHANGED <<sim, map, controls>>
    BY <1>1
  <2>2. reply'.op = "read"
    BY <1>6, <1>7
  <2> HIDE DEF word
  <2> QED
    BY <1>4, <1>6, <1>8, <2>1, <2>2 DEF SimInv
<1> QED
  BY <1>1, <1>6, <1>7, <1>9

\* The page shows what there is while it is built, and changes no control.
LEMMA PageStep ==
  ASSUME SimInv, WebState
  PROVE  SimInv' /\ controls' = controls /\ reply'.op = "state"
<1> DEFINE n == Moments(map)
<1>1. PICK times \in Times(n) :
        /\ reply' = [op |-> "state", times |-> times,
                     json |-> StateJson([i \in DOMAIN times |-> World(times[i])], map)]
        /\ now' = times[Len(times)]
        /\ UNCHANGED <<sim, map, controls>>
  BY DEF WebState
<1>2. n \in Nat /\ n \in 1..n
  BY MomentsCounted
<1>3. now \in 0..MaxTime /\ MaxTime \in Nat
  BY SimAssumption DEF SimInv
<1> HIDE DEF n
<1>4. /\ times \in [1..n -> now..MaxTime]
      /\ \A i, j \in 1..n : i <= j => times[i] <= times[j]
  BY <1>2, <1>3, TimesInOrder
<1>5. Len(times) = n /\ DOMAIN times = 1..n
  BY <1>2, <1>4
<1>6. now' = times[n] /\ now' \in 0..MaxTime
  BY <1>1, <1>2, <1>3, <1>4, <1>5
<1>7. times \in [1..n -> 0..now']
  <2>1. \A i \in 1..n : times[i] \in Int /\ 0 <= times[i] /\ times[i] <= times[n]
    BY <1>2, <1>3, <1>4
  <2> QED
    BY <1>4, <1>6, <2>1
<1>8. PICK r : r = reply'
  OBVIOUS
<1>9. /\ r.op = "state" /\ r.times = times
      /\ r.json = StateJson([i \in 1..n |-> World(times[i])], map)
  BY <1>1, <1>5, <1>8
<1>10. Page(sim, controls, map, now', r)
  BY <1>4, <1>7, <1>9 DEF Page, World, n
<1>11. SimInv'
  <2>1. UNCHANGED <<sim, map, controls>>
    BY <1>1
  <2> QED
    BY <1>6, <1>8, <1>9, <1>10, <2>1 DEF SimInv
<1> QED
  BY <1>1, <1>8, <1>9, <1>11

\* A write does what the loop over its words does.
LEMMA WriteStep ==
  ASSUME SimInv, NEW addr \in 0..(AddressSpace - 1), NEW n \in 1..MaxWords,
         NEW words \in [1..n -> Payload], Write(addr, words)
  PROVE  /\ SimInv'
         /\ Landed(map["holding"], addr, words, n, controls,
                   [controls |-> controls', code |-> reply'.code])
         /\ reply'.op = "write" /\ reply'.addr = addr /\ reply'.words = words
<1> DEFINE done == WriteAll([controls |-> controls, code |-> "Ok"], addr, words)
<1>1. /\ controls' = done.controls
      /\ reply' = [op |-> "write", addr |-> addr, words |-> words, code |-> done.code]
      /\ UNCHANGED <<sim, map, now>>
  BY DEF Write
<1>2. Landed(map["holding"], addr, words, n, controls, done)
  <2>1. n \in Nat /\ addr \in Nat /\ words \in [1..n -> WordSet]
    BY SimAssumption
  <2> QED
    BY <2>1, RequestLands
<1> HIDE DEF done
<1>3. /\ reply'.op = "write" /\ reply'.addr = addr /\ reply'.words = words
      /\ reply'.code = done.code
  BY <1>1
<1>4. done = [controls |-> controls', code |-> reply'.code]
  <2>1. done = [controls |-> done.controls, code |-> done.code]
    BY <1>2 DEF Landed
  <2> QED
    BY <1>1, <1>3, <2>1
<1>5. controls' \in [Names(sim.controls) -> Int]
  BY <1>1, <1>2 DEF Landed, SimInv
<1>6. SimInv'
  BY <1>1, <1>3, <1>5, OtherStep DEF SimInv
<1> QED
  BY <1>2, <1>3, <1>4, <1>6

\* The web page sets the control it names, if that may be written.
LEMMA WebStep ==
  ASSUME SimInv, NEW name, NEW value \in Settings, WebSet(name, value)
  PROVE  /\ SimInv'
         /\ reply'.op = "web"
         /\ \A n \in DOMAIN controls :
              controls'[n] = IF reply'.status = 200 /\ n = reply'.name THEN reply'.value
                             ELSE controls[n]
<1>1. controls \in [Names(sim.controls) -> Int] /\ value \in Int
  BY SimAssumption DEF SimInv
<1>2. CASE SetControl(name)
  <2>1. /\ controls' = [controls EXCEPT ![name] = value]
        /\ reply' = [op |-> "web", name |-> name, value |-> value, status |-> 200]
        /\ UNCHANGED <<sim, map, now>>
    BY <1>2 DEF WebSet
  <2>2. controls' \in [Names(sim.controls) -> Int]
    BY <1>1, <2>1
  <2>3. /\ reply'.op = "web" /\ reply'.name = name /\ reply'.value = value
        /\ reply'.status = 200
    BY <2>1
  <2>4. SimInv'
    BY <2>1, <2>2, <2>3, OtherStep DEF SimInv
  <2> QED
    BY <1>1, <2>1, <2>3, <2>4
<1>3. CASE ~ SetControl(name)
  <2>1. /\ reply' = [op |-> "web", name |-> name, value |-> value, status |-> 400]
        /\ UNCHANGED <<sim, map, now, controls>>
    BY <1>3 DEF WebSet
  <2>2. reply'.op = "web" /\ reply'.status = 400
    BY <2>1
  <2>3. SimInv'
    BY <1>1, <2>1, <2>2, OtherStep DEF SimInv
  <2> QED
    BY <2>1, <2>2, <2>3
<1> QED
  BY <1>2, <1>3

\* A read, a refused request or a delivery.
LEMMA QuietStep ==
  ASSUME SimInv, Refuse \/ Deliver
  PROVE  /\ SimInv' /\ controls' = controls
         /\ reply'.op \notin {"write", "web"}
<1>1. /\ UNCHANGED <<sim, map, controls, now>>
      /\ reply' \in {NoReply, [op |-> "refused", code |-> "IllegalFunction"]}
  BY DEF Refuse, Deliver
<1>2. reply'.op \in {"none", "refused"}
  BY <1>1 DEF NoReply
<1>3. SimInv'
  BY <1>1, <1>2, OtherStep DEF SimInv
<1> QED
  BY <1>1, <1>2, <1>3

\* Every step keeps the invariant.
LEMMA StepHolds ==
  ASSUME SimInv, [Next]_vars
  PROVE  SimInv'
<1>1. CASE UNCHANGED vars
  BY <1>1 DEF vars, SimInv
<1>2. CASE \E area \in SimAreas, addr \in 0..(AddressSpace - 1), count \in 1..MaxWords :
             Read(area, addr, count)
  BY <1>2, ReadStep
<1>3. CASE \E addr \in 0..(AddressSpace - 1), n \in 1..MaxWords :
             \E words \in [1..n -> Payload] : Write(addr, words)
  BY <1>3, WriteStep
<1>4. CASE \E name \in Names(sim.controls) \cup {"nobody"}, value \in Settings :
             WebSet(name, value)
  BY <1>4, WebStep
<1>5. CASE Refuse \/ Deliver
  BY <1>5, QuietStep
<1>6. CASE WebState
  BY <1>6, PageStep
<1> QED
  BY <1>1, <1>2, <1>3, <1>4, <1>5, <1>6 DEF Next, Master, Web

\* The invariant of the simulator: what it evaluates is a configuration that
\* passed validation, with a number for each control, and a read and the page
\* answer what was there at their times (SimSlaveState, SimEngine).
THEOREM SimInvariant == Spec => []SimInv
<1>1. Init => SimInv
  BY InitHolds
<1>2. SimInv /\ [Next]_vars => SimInv'
  BY StepHolds
<1> QED
  BY <1>1, <1>2, PTL DEF Spec

\* eval and eval_all give a value to exactly the sensors whose formula can be
\* followed down to controls and the time, and that value.
THEOREM SimEvalExact == Spec => []EvalExact
<1>1. SimInv => EvalExact
  <2> SUFFICES ASSUME SimInv PROVE EvalExact
    OBVIOUS
  <2>1. now \in Int
    BY DEF SimInv
  <2>2. GoodWorld(World(now))
    BY <2>1, WorldIsGood
  <2> QED
    BY <2>2, EvalAllIsBottomUp DEF EvalExact
<1> QED
  BY <1>1, SimInvariant, PTL

\* RegisterMap::build leaves every item of a valid configuration all of its
\* addresses, in the areas where none is put over another.
THEOREM SimSlotsKept == Spec => []SlotsKept
<1>1. SimInv => SlotsKept
  BY SlotsAreKept
<1> QED
  BY <1>1, SimInvariant, PTL

\* What the property says of a request and the controls after it.
Says(slots, addr, words, old, cs, code) ==
  LET Pos(i) == (addr + i - 1) % AddressSpace
      Opens(i) == /\ Pos(i) \in DOMAIN slots
                  /\ slots[Pos(i)].kind = "control"
                  /\ slots[Pos(i)].writable
      Done(i) == i \in DOMAIN words /\ \A j \in 1..i : Opens(j)
      Hit(x) == {i \in 1..MaxWords : Done(i) /\ slots[Pos(i)].name = x}
      Low(v) == IF v < 2 * DutyMax THEN v ELSE 2 * DutyMax
  IN  /\ code = "Ok" <=> \A i \in DOMAIN words : Opens(i)
      /\ \A x \in DOMAIN old :
           cs[x] = IF Hit(x) = {} THEN old[x]
                   ELSE LET last == CHOOSE i \in Hit(x) : \A j \in Hit(x) : j <= i
                        IN  Low(2 * words[last])

\* It follows from what the loop over the words does.
LEMMA LandedLands ==
  ASSUME NEW slots, NEW addr \in Nat, NEW n \in 1..MaxWords, NEW words \in [1..n -> Payload],
         NEW old, NEW cs, NEW code,
         Landed(slots, addr, words, n, old, [controls |-> cs, code |-> code])
  PROVE  Says(slots, addr, words, old, cs, code)
<1> DEFINE Pos(i) == (addr + i - 1) % AddressSpace
           Opens(i) == /\ Pos(i) \in DOMAIN slots
                       /\ slots[Pos(i)].kind = "control"
                       /\ slots[Pos(i)].writable
           Done(i) == i \in DOMAIN words /\ \A j \in 1..i : Opens(j)
           Hit(x) == {i \in 1..MaxWords : Done(i) /\ slots[Pos(i)].name = x}
           acc == [controls |-> cs, code |-> code]
<1>1. n \in Nat /\ DOMAIN words = 1..n /\ 1..n \subseteq 1..MaxWords
  BY SimAssumption
<1>2. \A i : Open(slots, addr, i) <=> Opens(i)
  BY DEF Open
<1>3. /\ acc.code = "Ok" <=> \A j \in 1..n : Open(slots, addr, j)
      /\ \A x \in DOMAIN old : Got(slots, addr, words, n, x, old[x], acc.controls[x])
  <2> HIDE DEF acc
  <2> QED
    BY DEF Landed, acc
<1>4. acc.code = code /\ acc.controls = cs
  OBVIOUS
<1> HIDE DEF acc
<1>5. ASSUME NEW x PROVE Hits(slots, addr, n, x) = Hit(x)
  <2>1. \A i : i \in Hits(slots, addr, n, x) <=> i \in Hit(x)
    <3> HIDE DEF Pos
    <3>1. \A i : i \in Hits(slots, addr, n, x) <=>
                   /\ i \in 1..n /\ \A j \in 1..i : Open(slots, addr, j)
                   /\ slots[Pos(i)].name = x
      BY DEF Hits, Pos
    <3> HIDE DEF Opens
    <3> QED
      BY <1>1, <1>2, <3>1
  <2> HIDE DEF Hit
  <2> QED
    BY <2>1 DEF Hits
<1>6. code = "Ok" <=> \A i \in DOMAIN words : Opens(i)
  <2> HIDE DEF Opens
  <2> QED
    BY <1>1, <1>2, <1>3, <1>4
<1>7. ASSUME NEW x \in DOMAIN old
      PROVE  cs[x] = IF Hit(x) = {} THEN old[x]
                     ELSE Setting(words[CHOOSE i \in Hit(x) : \A j \in Hit(x) : j <= i])
  <2>1. Got(slots, addr, words, n, x, old[x], cs[x])
    BY <1>3, <1>4
  <2>2. Hit(x) \subseteq Nat
    BY <1>1
  <2>3. Hits(slots, addr, n, x) = Hit(x)
    BY <1>5
  <2> HIDE DEF Hit
  <2>4. CASE Hit(x) = {}
    BY <2>1, <2>3, <2>4 DEF Got
  <2>5. CASE Hit(x) # {}
    <3>1. PICK i \in Hit(x) : /\ \A j \in Hit(x) : j <= i
                              /\ cs[x] = Setting(words[i])
      BY <2>1, <2>3, <2>5 DEF Got
    <3> DEFINE last == CHOOSE k \in Hit(x) : \A j \in Hit(x) : j <= k
    <3>2. last \in Hit(x) /\ \A j \in Hit(x) : j <= last
      BY <3>1
    <3> HIDE DEF last
    <3>3. last = i
      BY <2>2, <3>1, <3>2
    <3> QED
      BY <2>5, <3>1, <3>3 DEF last
  <2> QED
    BY <2>4, <2>5
<1> QED
  BY <1>6, <1>7 DEF Setting, Says

\* Each step does to the controls what the property says.
LEMMA StepLands ==
  ASSUME SimInv, [Next]_vars
  PROVE  [Lands]_vars
<1>1. CASE UNCHANGED vars
  BY <1>1
<1>2. ASSUME NEW area \in SimAreas, NEW addr \in 0..(AddressSpace - 1),
             NEW count \in 1..MaxWords, Read(area, addr, count)
      PROVE  Lands
  BY <1>2, ReadStep DEF Lands
<1>3. ASSUME NEW addr \in 0..(AddressSpace - 1), NEW n \in 1..MaxWords,
             NEW words \in [1..n -> Payload], Write(addr, words)
      PROVE  Lands
  <2>1. PICK r, cs : r = reply' /\ cs = controls'
    OBVIOUS
  <2>2. /\ Landed(map["holding"], addr, words, n, controls,
                  [controls |-> cs, code |-> r.code])
        /\ r.op = "write" /\ r.addr = addr /\ r.words = words
    BY <1>3, <2>1, WriteStep
  <2>3. addr \in Nat
    BY SimAssumption
  <2>4. Says(map["holding"], addr, words, controls, cs, r.code)
    BY <2>2, <2>3, LandedLands
  <2>5. r = reply' /\ cs = controls'
    BY <2>1
  <2>6. Says(map["holding"], r.addr, r.words, controls, controls', r.code)
    BY <2>2, <2>4, <2>5
  <2>7. Says(map["holding"], reply'.addr, reply'.words, controls, controls', reply'.code)
    BY <2>5, <2>6
  <2> QED
    BY <2>2, <2>5, <2>7 DEF Lands, Says
<1>4. ASSUME NEW name, NEW value \in Settings, WebSet(name, value)
      PROVE  Lands
  <2>1. /\ reply'.op = "web"
        /\ \A n \in DOMAIN controls :
             controls'[n] = IF reply'.status = 200 /\ n = reply'.name THEN reply'.value
                            ELSE controls[n]
    BY <1>4, WebStep
  <2>2. reply'.status # 200 => controls' = controls
    BY <1>4 DEF WebSet
  <2> QED
    BY <2>1, <2>2 DEF Lands
<1>5. ASSUME Refuse \/ Deliver
      PROVE  Lands
  BY <1>5, QuietStep DEF Lands
<1>6. CASE WebState
  BY <1>6, PageStep DEF Lands
<1> QED
  BY <1>1, <1>2, <1>3, <1>4, <1>5, <1>6 DEF Next, Master, Web

\* A write request changes the controls at its addresses, up to the first that
\* cannot be written (handle, write_control).
THEOREM SimWritesLand == Spec => WritesLand
<1>1. SimInv /\ [Next]_vars => [Lands]_vars
  BY StepLands
<1> QED
  BY <1>1, SimInvariant, PTL DEF Spec, WritesLand

-----------------------------------------------------------------------------
(* Reads *)

\* Some float is nearest to a number.
LEMMA NearestFloat ==
  ASSUME NEW v \in Int
  PROVE  Narrow(v) \in Floats
<1> DEFINE F == Floats \ {NaN}
           D == {Abs(f - v) : f \in F}
           Best(x) == \A g \in Near(v) : IsEven(g) => IsEven(x)
<1>1. F \subseteq Int /\ v # NaN
  BY FloatAssumption
<1>2. F # {}
  <2>1. Base * Base - 1 >= 1 /\ Base * Base - 1 \in Int
    <3>1. Base \in Int /\ Base >= 2
      BY BaseAssumption
    <3>2. Base * Base >= 2 * Base
      BY <3>1
    <3> QED
      BY <3>1, <3>2
  <2>2. PICK x \in Floats, y \in Floats : FloatBits[x] = 0 /\ FloatBits[y] = 1
    BY <2>1, FloatAssumption
  <2> QED
    BY <2>2
<1>3. D \subseteq Nat /\ D # {}
  BY <1>1, <1>2 DEF Abs
<1>4. PICK m \in D : \A n \in D : m <= n
  BY <1>3, LeastMember
<1>5. PICK f \in F : m = Abs(f - v)
  BY <1>4
<1>6. f \in Near(v)
  BY <1>4, <1>5 DEF Near
<1>7. \E x \in Near(v) : Best(x)
  BY <1>6
<1>8. Narrow(v) = CHOOSE x \in Near(v) : Best(x)
  BY <1>1 DEF Narrow
<1> HIDE DEF Best
<1>9. Narrow(v) \in Near(v)
  BY <1>7, <1>8
<1> QED
  BY <1>9 DEF Near

\* The pattern of the value that a sensor has at a time.
BitsAt(name, t) == FloatBits[Narrow(ValueFrom(EvalAll(World(t)), name, NaN))]

\* It is one of two words.
LEMMA BitsTyped ==
  ASSUME SimInv, NEW t \in Int, NEW name
  PROVE  BitsAt(name, t) \in Doubles
<1> DEFINE w == World(t)
           v == ValueFrom(EvalAll(w), name, NaN)
<1>1. GoodWorld(w)
  BY WorldIsGood
<1> HIDE DEF w
<1>2. PICK rank : Solution(w, BottomUp(w), rank)
  BY <1>1, BottomUpSolves
<1>3. Partial(w, BottomUp(w)) /\ EvalAll(w) = BottomUp(w)
  BY <1>1, <1>2, EvalAllIsBottomUp DEF Solution
<1>4. v \in Int \cup {NaN}
  BY <1>3 DEF Partial, ValueFrom
<1> HIDE DEF v
<1>5. Narrow(v) \in Floats
  <2>1. CASE v = NaN
    BY <2>1, FloatAssumption DEF Narrow
  <2>2. CASE v # NaN
    BY <1>4, <2>2, NearestFloat
  <2> QED
    BY <2>1, <2>2
<1> QED
  BY <1>5, FloatAssumption DEF Doubles, BitsAt, v, w

\* Two elements of a sequence that follow each other.
LEMMA TwoOf ==
  ASSUME NEW S, NEW q \in Seq(S), NEW i \in 1..(Len(q) - 1)
  PROVE  SubSeq(q, i, i + 1) = <<q[i], q[i + 1]>>
<1>1. i \in Int /\ i + 1 \in 1..Len(q) /\ i \in 1..Len(q)
  OBVIOUS
<1>2. Len(SubSeq(q, i, i + 1)) = 2
  BY <1>1
<1>3. SubSeq(q, i, i + 1)[1] = q[i] /\ SubSeq(q, i, i + 1)[2] = q[i + 1]
  BY <1>1
<1> DEFINE s == SubSeq(q, i, i + 1)
<1>4. s \in Seq(S)
  BY <1>1
<1>5. s = [k \in 1..2 |-> s[k]]
  BY <1>2, <1>4
<1> HIDE DEF s
<1> DEFINE t == <<q[i], q[i + 1]>>
<1>6. \A k \in 1..2 : s[k] = t[k]
  BY <1>3 DEF s
<1>7. t = [k \in 1..2 |-> t[k]]
  OBVIOUS
<1> HIDE DEF t
<1>8. s = t
  BY <1>5, <1>6, <1>7
<1> QED
  BY <1>8 DEF s, t

\* The two halves of a double word, in the order of their addresses.
LEMMA HalvesJoin ==
  ASSUME NEW bits \in Doubles, NEW a \in Nat
  PROVE  Combine(<<WordOf(bits, a), WordOf(bits, a + 1)>>,
                 IF a % 2 = 0 THEN "big" ELSE "little") = bits
<1>1. Base \in Nat \ {0} /\ bits \in Nat
  <2>1. Base \in Nat \ {0}
    BY BaseAssumption
  <2> DEFINE top == Base * Base - 1
  <2>2. bits \in 0..top
    BY DEF Doubles
  <2> HIDE DEF top
  <2> QED
    BY <2>1, <2>2
<1>2. ((bits \div Base) * Base) + (bits % Base) = bits
  BY <1>1
<1>3. CASE a % 2 = 0
  <2>1. (a + 1) % 2 # 0
    BY <1>3
  <2>2. WordOf(bits, a) = bits \div Base /\ WordOf(bits, a + 1) = bits % Base
    BY <1>3, <2>1 DEF WordOf
  <2> QED
    BY <1>2, <1>3, <2>2 DEF Combine
<1>4. CASE a % 2 # 0
  <2>1. (a + 1) % 2 = 0
    BY <1>4
  <2>2. WordOf(bits, a) = bits % Base /\ WordOf(bits, a + 1) = bits \div Base
    BY <1>4, <2>1 DEF WordOf
  <2> QED
    BY <1>2, <1>4, <2>2 DEF Combine
<1> QED
  BY <1>3, <1>4

\* Two words of a 32-bit sensor that did not change between their reads are its
\* value, in the order that the address gives them (read_sensor).
THEOREM SimTwoWordsOneValue == Spec => []TwoWordsOneValue
<1>1. SimInv => TwoWordsOneValue
  <2> SUFFICES ASSUME SimInv, reply.op = "read", reply.area # "coils",
                      NEW i \in 1..(Len(reply.words) - 1),
                      {reply.addr + i - 1, reply.addr + i - 1 + 1}
                        \subseteq DOMAIN map[reply.area],
                      map[reply.area][reply.addr + i - 1]
                        = map[reply.area][reply.addr + i - 1 + 1],
                      map[reply.area][reply.addr + i - 1].kind = "sensor",
                      map[reply.area][reply.addr + i - 1].storage = "f32",
                      ValueFrom(EvalAll(World(reply.times[i])),
                                map[reply.area][reply.addr + i - 1].name, NaN)
                        = ValueFrom(EvalAll(World(reply.times[i + 1])),
                                    map[reply.area][reply.addr + i - 1].name, NaN)
               PROVE  Combine(SubSeq(reply.words, i, i + 1),
                              IF (reply.addr + i - 1) % 2 = 0 THEN "big" ELSE "little")
                        = FloatBits[Narrow(ValueFrom(EvalAll(World(reply.times[i])),
                                           map[reply.area][reply.addr + i - 1].name, NaN))]
    BY DEF TwoWordsOneValue
  <2> DEFINE slots == map[reply.area]
             a == reply.addr + i - 1
             name == slots[a].name
             bits == BitsAt(name, reply.times[i])
             order == IF a % 2 = 0 THEN "big" ELSE "little"
  <2>1. Answered(sim, controls, map, reply)
    BY DEF SimInv
  <2>2. PICK count \in Nat :
          /\ reply.times \in [1..count -> 0..MaxTime]
          /\ reply.words = [k \in 1..count |->
               LET w == [sim |-> sim, controls |-> controls, now |-> reply.times[k]]
                   b == reply.addr + k - 1
               IN  IF reply.area = "coils" THEN ReadCoil(w, map[reply.area], b)
                   ELSE ReadWord(w, map[reply.area], b)]
    BY <2>1 DEF Answered
  <2>3. Len(reply.words) = count
    BY <2>2
  <2>4. /\ i \in 1..count /\ i + 1 \in 1..count /\ i \in Nat
        /\ reply.addr \in Nat /\ a \in Nat /\ reply.addr + (i + 1) - 1 = a + 1
    <3>1. reply.addr \in Nat
      BY <2>1 DEF Answered
    <3> QED
      BY <2>3, <3>1
  <2>5. reply.times[i] \in Int /\ reply.times[i + 1] \in Int
    BY <2>2, <2>4
  <2>8. bits \in Doubles
    <3> HIDE DEF name
    <3> QED
      BY <2>5, BitsTyped
  <2>9. /\ reply.words[i] = ReadWord(World(reply.times[i]), slots, a)
        /\ reply.words[i + 1] = ReadWord(World(reply.times[i + 1]), slots, a + 1)
    <3>1. ASSUME NEW k \in 1..count
          PROVE  reply.words[k] = ReadWord(World(reply.times[k]), slots, reply.addr + k - 1)
      BY <2>2 DEF World
    <3>2. reply.words[i + 1] = ReadWord(World(reply.times[i + 1]), slots, reply.addr + (i + 1) - 1)
      BY <2>4, <3>1
    <3>3. reply.words[i] = ReadWord(World(reply.times[i]), slots, a)
      BY <2>4, <3>1
    <3> HIDE DEF slots
    <3> QED
      BY <2>4, <3>2, <3>3
  <2>10. reply.words[i] = WordOf(bits, a)
    BY <2>9 DEF ReadWord, ReadSensor, BitsAt
  <2>11. reply.words[i + 1] = WordOf(bits, a + 1)
    BY <2>9 DEF ReadWord, ReadSensor, BitsAt
  <2> HIDE DEF bits, name, slots, a
  <2>12. SubSeq(reply.words, i, i + 1) = <<WordOf(bits, a), WordOf(bits, a + 1)>>
    <3> DEFINE S == {reply.words[k] : k \in 1..count}
    <3>0. reply.words = [k \in 1..count |-> reply.words[k]]
      BY <2>2
    <3>1. reply.words \in Seq(S)
      BY <3>0
    <3> HIDE DEF S
    <3>2. i \in 1..(Len(reply.words) - 1)
      OBVIOUS
    <3> QED
      BY <2>10, <2>11, <3>1, <3>2, TwoOf
  <2>13. Combine(SubSeq(reply.words, i, i + 1), order) = bits
    BY <2>4, <2>8, <2>12, HalvesJoin
  <2> QED
    BY <2>13 DEF bits, name, slots, a, BitsAt
<1> QED
  BY <1>1, SimInvariant, PTL

-----------------------------------------------------------------------------
(* The web page *)

\* c[k] is what is listed after k addresses.
AddressByAddress(slots, words, n, c) ==
  /\ c[0] = [next |-> 0, entries |-> <<>>]
  /\ \A k \in 0..(n - 1) : c[k + 1] = ListAddress(slots, words, c[k], k)
  /\ c[n].entries = InputEntries(slots, words)

\* The addresses of an area are listed one after the other.
LEMMA AddressesInTurn ==
  ASSUME NEW slots, NEW words, Extent(slots) \in Nat
  PROVE  \E c : AddressByAddress(slots, words, Extent(slots), c)
<1> DEFINE n == Extent(slots)
           base == [next |-> 0, entries |-> <<>>]
           q == [i \in 1..Extent(slots) |-> i]
           f == [fold |-> "entries", slots |-> slots, words |-> words, q |-> q]
           Next1(acc, i) == ListAddress(slots, words, acc, i - 1)
           Solved(g) == g = [T \in SUBSET DOMAIN q |->
                               IF T = {} THEN base ELSE Next1(g[T \ {Max(T)}], q[Max(T)])]
           iter == CHOOSE g : Solved(g)
<1>0. \A i \in 1..n : q[i] = i
  OBVIOUS
<1>1. DOMAIN q = 1..n /\ n \in Nat
  OBVIOUS
<1>2. InputEntries(slots, words) = iter[DOMAIN q].entries
  BY Zenon DEF InputEntries, FoldLeft, MapThenFoldSet
<1> HIDE DEF n, base
<1>3. PICK g : Turns(f, base, n, g)
  <2> HIDE DEF f
  <2> QED
    BY <1>1, TurnsSolved
<1>4. \A y, i : Turn(f, y, i) = Next1(y, q[i])
  BY DEF Turn
<1>5. Turns(f, base, n, iter)
  <2> HIDE DEF f, Next1, q
  <2>1. Solved(g)
    BY <1>1, <1>3, <1>4 DEF Turns
  <2>2. Solved(iter)
    <3> HIDE DEF Solved
    <3> QED
      BY <2>1
  <2> HIDE DEF iter
  <2>3. iter = [T \in SUBSET (1..n) |->
                  IF T = {} THEN base ELSE Next1(iter[T \ {Max(T)}], q[Max(T)])]
    BY <1>1, <2>2
  <2>4. iter = [T \in SUBSET (1..n) |->
                  IF T = {} THEN base ELSE Turn(f, iter[T \ {Max(T)}], Max(T))]
    BY <1>4, <2>3
  <2> QED
    BY <2>4 DEF Turns
<1>6. PICK c : Folded(f, base, n, c, iter[1..n])
  <2> HIDE DEF f, iter
  <2> QED
    BY <1>1, <1>5, TurnsInTurn
<1> HIDE DEF iter
<1>7. ASSUME NEW k \in 0..(n - 1)
      PROVE  c[k + 1] = ListAddress(slots, words, c[k], k)
  <2>1. k + 1 \in 1..n /\ (k + 1) - 1 = k
    BY <1>1
  <2>2. c[k + 1] = Next1(c[k], q[k + 1])
    <3> HIDE DEF f, Next1, q
    <3> QED
      BY <1>4, <1>6 DEF Folded
  <2>3. q[k + 1] = k + 1
    BY <1>0, <2>1
  <2> QED
    BY <2>1, <2>2, <2>3
<1>8. c[0] = base /\ c[n].entries = InputEntries(slots, words)
  <2> HIDE DEF f, q
  <2> QED
    BY <1>1, <1>2, <1>6 DEF Folded
<1> QED
  BY <1>7, <1>8 DEF AddressByAddress, n, base

\* The first address of what stands there.
Begins(slots, a) ==
  /\ a \in DOMAIN slots
  /\ a - 1 \in DOMAIN slots => slots[a - 1] # slots[a]

\* A value of 32 bits takes two addresses that follow each other, any other
\* value takes one.
Paired(slots) ==
  /\ DOMAIN slots \subseteq Nat
  /\ \A a \in DOMAIN slots : Begins(slots, a) =>
       \A b \in DOMAIN slots :
         slots[b] = slots[a] <=> b = a \/ (IsWide(slots, a) /\ b = a + 1)
  /\ \A a \in DOMAIN slots : Begins(slots, a) /\ IsWide(slots, a) =>
       a + 1 \in DOMAIN slots
  /\ \A a \in DOMAIN slots : ~ Begins(slots, a) => Begins(slots, a - 1)

\* After k addresses each of them at which something begins is listed once; the
\* next one is skipped exactly if something goes on there.
Listed(slots, words, acc, k) ==
  /\ acc.next \in Nat
  /\ acc.entries \in Seq({Entry(slots, words, a) : a \in DOMAIN slots})
  /\ k < acc.next <=> k \in DOMAIN slots /\ ~ Begins(slots, k)
  /\ acc.next <= k + 1
  /\ \A i \in 1..Len(acc.entries) : LET a == acc.entries[i].addr IN
       /\ a < k /\ Begins(slots, a)
       /\ acc.entries[i] = Entry(slots, words, a)
  /\ \A i, j \in 1..Len(acc.entries) :
       acc.entries[i].addr = acc.entries[j].addr => i = j
  /\ \A a \in 0..(k - 1) : Begins(slots, a) =>
       \E i \in 1..Len(acc.entries) : acc.entries[i].addr = a

\* An address at which something begins is listed, and its second address is
\* then skipped.
LEMMA EntryAdded ==
  ASSUME NEW slots, Paired(slots), NEW words, NEW acc, NEW k \in Nat,
         Listed(slots, words, acc, k), Begins(slots, k)
  PROVE  Listed(slots, words, ListAddress(slots, words, acc, k), k + 1)
<1> DEFINE new == ListAddress(slots, words, acc, k)
           old == acc.entries
           E == {Entry(slots, words, a) : a \in DOMAIN slots}
           n == Len(old)
           e == Entry(slots, words, k)
<1>1. /\ k \in DOMAIN slots /\ ~ k < acc.next
      /\ old \in Seq(E) /\ e \in E /\ e.addr = k
  BY DEF Listed, Begins, Entry
<1>2. /\ new.next = IF IsWide(slots, k) THEN k + 2 ELSE k + 1
      /\ new.entries = Append(old, e)
  BY <1>1 DEF ListAddress
<1> HIDE DEF new, E, e
<1>3. /\ new.entries \in Seq(E) /\ n \in Nat /\ Len(new.entries) = n + 1
      /\ \A i \in 1..n : new.entries[i] = old[i]
      /\ new.entries[n + 1] = e
      /\ \A i : i \in 1..(n + 1) <=> i \in 1..n \/ i = n + 1
  BY <1>1, <1>2
<1> HIDE DEF n
<1>4. k + 1 < new.next <=> IsWide(slots, k)
  BY <1>2
<1>5. IsWide(slots, k) <=> k + 1 \in DOMAIN slots /\ ~ Begins(slots, k + 1)
  <2>1. (k + 1) - 1 = k
    OBVIOUS
  <2>2. IsWide(slots, k) => k + 1 \in DOMAIN slots
    BY <1>1 DEF Paired
  <2>3. ASSUME k + 1 \in DOMAIN slots PROVE slots[k + 1] = slots[k] <=> IsWide(slots, k)
    BY <1>1, <2>3 DEF Paired
  <2> QED
    BY <1>1, <2>1, <2>2, <2>3 DEF Begins
<1>6. new.next \in Nat /\ new.next <= (k + 1) + 1
  BY <1>2
<1>7. ASSUME NEW i \in 1..n
      PROVE  /\ old[i].addr < k /\ Begins(slots, old[i].addr)
             /\ old[i] = Entry(slots, words, old[i].addr)
             /\ old[i].addr \in Nat
  <2>1. /\ old[i].addr < k /\ Begins(slots, old[i].addr)
        /\ old[i] = Entry(slots, words, old[i].addr)
    BY DEF Listed, n
  <2> QED
    BY <2>1 DEF Begins, Paired
<1>8. ASSUME NEW i \in 1..(n + 1)
      PROVE  LET a == new.entries[i].addr IN
             /\ a < k + 1 /\ Begins(slots, a)
             /\ new.entries[i] = Entry(slots, words, a)
  <2>1. CASE i \in 1..n
    BY <1>3, <1>7, <2>1
  <2>2. CASE i = n + 1
    BY <1>1, <1>3, <2>2 DEF e
  <2> QED
    BY <1>3, <2>1, <2>2
<1>9. ASSUME NEW i \in 1..(n + 1), NEW j \in 1..(n + 1),
             new.entries[i].addr = new.entries[j].addr
      PROVE  i = j
  <2>1. \A m \in 1..n : old[m].addr # k
    BY <1>7
  <2>2. CASE i \in 1..n /\ j \in 1..n
    BY <1>3, <1>9, <2>2 DEF Listed, n
  <2>3. CASE ~ (i \in 1..n /\ j \in 1..n)
    BY <1>1, <1>3, <1>9, <2>1, <2>3
  <2> QED
    BY <2>2, <2>3
<1>10. ASSUME NEW a \in 0..((k + 1) - 1), Begins(slots, a)
       PROVE  \E i \in 1..(n + 1) : new.entries[i].addr = a
  <2>1. CASE a = k
    <3>1. n + 1 \in 1..(n + 1)
      BY <1>3
    <3> QED
      BY <1>1, <1>3, <2>1, <3>1
  <2>2. CASE a # k
    <3>1. a \in 0..(k - 1)
      BY <2>2
    <3>2. PICK i \in 1..n : old[i].addr = a
      BY <1>10, <3>1 DEF Listed, n
    <3> QED
      BY <1>3, <3>2
  <2> QED
    BY <2>1, <2>2
<1>11. Listed(slots, words, new, k + 1)
  BY <1>3, <1>4, <1>5, <1>6, <1>8, <1>9, <1>10 DEF Listed, E
<1> QED
  BY <1>11 DEF new

\* Any other address is not.
LEMMA AddressPassed ==
  ASSUME NEW slots, Paired(slots), NEW words, NEW acc, NEW k \in Nat,
         Listed(slots, words, acc, k), ~ Begins(slots, k)
  PROVE  Listed(slots, words, ListAddress(slots, words, acc, k), k + 1)
<1> DEFINE new == ListAddress(slots, words, acc, k)
<1>1. new = acc
  BY DEF ListAddress, Listed
<1>2. ~ (k + 1 \in DOMAIN slots /\ ~ Begins(slots, k + 1))
  <2>1. (k + 1) - 1 = k
    OBVIOUS
  <2>2. k + 1 \in DOMAIN slots /\ ~ Begins(slots, k + 1) => Begins(slots, k)
    BY <2>1 DEF Paired
  <2> QED
    BY <2>2
<1>3. acc.next \in Nat /\ acc.next <= k + 1 /\ ~ k + 1 < acc.next /\ acc.next <= (k + 1) + 1
  BY DEF Listed
<1>4. \A i \in 1..Len(acc.entries) : acc.entries[i].addr < k + 1
  <2> SUFFICES ASSUME NEW i \in 1..Len(acc.entries) PROVE acc.entries[i].addr < k + 1
    OBVIOUS
  <2>1. acc.entries[i].addr < k /\ acc.entries[i].addr \in Nat
    BY DEF Listed, Begins, Paired
  <2> QED
    BY <2>1
<1>5. \A a \in 0..((k + 1) - 1) : Begins(slots, a) => a \in 0..(k - 1)
  OBVIOUS
<1>6. Listed(slots, words, acc, k + 1)
  BY <1>2, <1>3, <1>4, <1>5 DEF Listed
<1> QED
  BY <1>1, <1>6

\* To the end.
LEMMA AllListed ==
  ASSUME NEW slots, Paired(slots), NEW words, Extent(slots) \in Nat
  PROVE  \E acc : /\ Listed(slots, words, acc, Extent(slots))
                  /\ acc.entries = InputEntries(slots, words)
<1> DEFINE n == Extent(slots)
<1>1. PICK c : AddressByAddress(slots, words, n, c)
  BY AddressesInTurn
<1> HIDE DEF n
<1> DEFINE Good == {k \in 0..n : Listed(slots, words, c[k], k)}
<1>2. 0 \in Good
  <2>1. c[0] = [next |-> 0, entries |-> <<>>]
    BY <1>1 DEF AddressByAddress
  <2>2. 0 \in DOMAIN slots => Begins(slots, 0)
    <3>1. ~ 0 - 1 \in DOMAIN slots
      BY DEF Paired
    <3> QED
      BY <3>1 DEF Begins
  <2>3. Listed(slots, words, c[0], 0)
    BY <2>1, <2>2 DEF Listed
  <2> QED
    BY <2>3 DEF n
<1>3. ASSUME NEW k \in 0..(n - 1), k \in Good PROVE k + 1 \in Good
  <2>1. Listed(slots, words, c[k], k) /\ k \in Nat /\ k + 1 \in 0..n
    BY <1>3 DEF n
  <2>2. c[k + 1] = ListAddress(slots, words, c[k], k)
    BY <1>1 DEF AddressByAddress
  <2>3. Listed(slots, words, ListAddress(slots, words, c[k], k), k + 1)
    BY <2>1, EntryAdded, AddressPassed
  <2> QED
    BY <2>1, <2>2, <2>3
<1>4. n \in Good
  <2> HIDE DEF Good
  <2>1. \A k \in 0..n : k \in Good
    BY <1>2, <1>3, FoldInduction DEF n
  <2> QED
    BY <2>1 DEF n
<1>5. c[n].entries = InputEntries(slots, words)
  BY <1>1 DEF AddressByAddress
<1> QED
  BY <1>4, <1>5 DEF n

\* How many addresses a value takes that is not a coil.
Size(slots, a) == IF IsWide(slots, a) THEN 2 ELSE 1

\* It is enough that each value has as many addresses as it needs, which follow
\* each other.
LEMMA RunsArePaired ==
  ASSUME NEW slots, DOMAIN slots \subseteq Nat,
         \A a \in DOMAIN slots : \E x \in Nat :
           {b \in DOMAIN slots : slots[b] = slots[a]} = x..(x + Size(slots, a) - 1)
  PROVE  Paired(slots)
<1>1. ASSUME NEW a \in DOMAIN slots
      PROVE  \E x \in DOMAIN slots :
               /\ \A b : b \in DOMAIN slots /\ slots[b] = slots[a] <=>
                           b = x \/ (IsWide(slots, a) /\ b = x + 1)
               /\ slots[x] = slots[a]
               /\ Begins(slots, a) <=> a = x
  <2>1. PICK x \in Nat : {b \in DOMAIN slots : slots[b] = slots[a]}
                           = x..(x + Size(slots, a) - 1)
    OBVIOUS
  <2>2. \A b : b \in x..(x + Size(slots, a) - 1) <=>
                 b = x \/ (IsWide(slots, a) /\ b = x + 1)
    BY DEF Size
  <2>3. \A b : b \in DOMAIN slots /\ slots[b] = slots[a] <=>
                 b = x \/ (IsWide(slots, a) /\ b = x + 1)
    BY <2>1, <2>2
  <2>4. x \in DOMAIN slots /\ slots[x] = slots[a]
    BY <2>3
  <2>5. a = x \/ (IsWide(slots, a) /\ a = x + 1)
    BY <2>3
  <2>6. Begins(slots, a) <=> a = x
    <3>1. CASE a = x
      <4>1. ~ (a - 1 \in DOMAIN slots /\ slots[a - 1] = slots[a])
        <5>1. a - 1 # x /\ a - 1 # x + 1
          BY <2>1, <3>1
        <5> QED
          BY <2>3, <5>1
      <4> QED
        BY <3>1, <4>1 DEF Begins
    <3>2. CASE a # x
      <4>1. a - 1 = x
        BY <2>1, <2>5, <3>2
      <4> QED
        BY <2>4, <3>2, <4>1 DEF Begins
    <3> QED
      BY <3>1, <3>2
  <2> QED
    BY <2>3, <2>4, <2>6
<1>2. ASSUME NEW a \in DOMAIN slots, Begins(slots, a)
      PROVE  /\ \A b \in DOMAIN slots :
                  slots[b] = slots[a] <=> b = a \/ (IsWide(slots, a) /\ b = a + 1)
             /\ IsWide(slots, a) => a + 1 \in DOMAIN slots
  BY <1>1, <1>2
<1>3. ASSUME NEW a \in DOMAIN slots, ~ Begins(slots, a) PROVE Begins(slots, a - 1)
  <2>1. PICK x \in DOMAIN slots :
          /\ \A b : b \in DOMAIN slots /\ slots[b] = slots[a] <=>
                      b = x \/ (IsWide(slots, a) /\ b = x + 1)
          /\ slots[x] = slots[a]
          /\ Begins(slots, a) <=> a = x
    BY <1>1
  <2>2. a = x + 1 /\ x \in Nat
    BY <1>3, <2>1
  <2>3. ~ (x - 1 \in DOMAIN slots /\ slots[x - 1] = slots[x])
    <3>1. x - 1 # x /\ x - 1 # x + 1
      BY <2>2
    <3> QED
      BY <2>1, <3>1
  <2>4. Begins(slots, x) /\ a - 1 = x
    BY <2>2, <2>3 DEF Begins
  <2> QED
    BY <2>4
<1> QED
  BY <1>2, <1>3 DEF Paired

\* A slot of the input area is that of a sensor of the area.
LEMMA InputSlots ==
  ASSUME SimInv, NEW a \in DOMAIN map["input"]
  PROVE  \E i \in In("input"), s \in ToSet(Sensors(sim)) :
           /\ Items(sim)[i] = SensorItem(s) /\ s.area = "input"
           /\ map["input"][a] = Items(sim)[i].slot
<1>1. /\ sim \in SimConfigs /\ Validate(sim) /\ map["input"] = BuildArea(sim, "input")
  BY DEF SimInv, Build, SimAreas
<1>2. PICK i \in DOMAIN Items(sim) :
        Items(sim)[i].area = "input" /\ map["input"][a] = Items(sim)[i].slot
  BY <1>1, SlotsAreItems
<1>3. \/ \E c \in ToSet(sim.controls) : Items(sim)[i] = ControlItem(c)
      \/ \E s \in ToSet(Sensors(sim)) : Items(sim)[i] = SensorItem(s)
  BY <1>1, <1>2, ItemsListed DEF ItemList
<1>4. \A c : ControlItem(c).area # "input"
  BY DEF ControlItem
<1>5. PICK s \in ToSet(Sensors(sim)) : Items(sim)[i] = SensorItem(s)
  BY <1>2, <1>3, <1>4
<1>6. s.area = "input"
  BY <1>2, <1>5 DEF SensorItem
<1> QED
  BY <1>2, <1>5, <1>6 DEF In

\* Where nothing is put over another, the input area is in pairs and single
\* addresses.
LEMMA InputsArePaired ==
  ASSUME SimInv, Uniform("input")
  PROVE  Paired(map["input"])
<1> DEFINE slots == map["input"]
<1>1. SlotsKept /\ "input" \in SimAreas
  BY SlotsAreKept DEF SimAreas
<1>2. DOMAIN slots \subseteq Nat
  <2>1. sim \in SimConfigs /\ Validate(sim) /\ map["input"] = BuildArea(sim, "input")
    BY DEF SimInv, Build, SimAreas
  <2> QED
    BY <2>1, AreaBounded
<1>3. ASSUME NEW a \in DOMAIN slots
      PROVE  \E x \in Nat : {b \in DOMAIN slots : slots[b] = slots[a]}
                              = x..(x + Size(slots, a) - 1)
  <2>1. PICK i \in In("input"), s \in ToSet(Sensors(sim)) :
          /\ Items(sim)[i] = SensorItem(s) /\ s.area = "input"
          /\ slots[a] = Items(sim)[i].slot
    BY InputSlots
  <2>2. \E y \in DOMAIN slots :
          {b \in DOMAIN slots : slots[b] = Items(sim)[i].slot} = y..(y + Taken(Items(sim)[i]) - 1)
    BY <1>1 DEF SlotsKept
  <2>3. Taken(Items(sim)[i]) = Size(slots, a)
    BY <2>1 DEF SensorItem, Taken, Size, IsWide, StorageWidth
  <2> HIDE DEF slots
  <2> QED
    BY <1>2, <2>1, <2>2, <2>3
<1> HIDE DEF slots
<1>4. Paired(slots)
  BY <1>2, <1>3, RunsArePaired
<1> QED
  BY <1>4 DEF slots

\* The words of the input area that the page decodes, at the times of their
\* addresses.
PageWords(tm, slots) ==
  [a \in DOMAIN slots \cup {b + 1 : b \in DOMAIN slots} |->
     ReadWord(World(tm[a]), slots, a)]

\* Each sensor has an item.
LEMMA SensorsAreItems ==
  ASSUME NEW x \in SimConfigs, NEW s \in ToSet(Sensors(x))
  PROVE  \E i \in DOMAIN Items(x) : Items(x)[i] = SensorItem(s)
<1> DEFINE a == [i \in DOMAIN x.controls |-> ControlItem(x.controls[i])]
           b == [i \in DOMAIN Sensors(x) |-> SensorItem(Sensors(x)[i])]
           U == {ControlItem(c) : c \in ToSet(x.controls)}
                  \cup {SensorItem(r) : r \in ToSet(Sensors(x))}
<1>1. x.controls \in Seq(ToSet(x.controls)) /\ Sensors(x) \in Seq(ToSet(Sensors(x)))
  BY SimConfigsAssumption
<1>2. a \in Seq(U) /\ b \in Seq(U)
  <2>1. /\ DOMAIN x.controls = 1..Len(x.controls)
        /\ DOMAIN Sensors(x) = 1..Len(Sensors(x))
        /\ Len(x.controls) \in Nat /\ Len(Sensors(x)) \in Nat
    BY <1>1
  <2>2. \A i \in DOMAIN x.controls : ControlItem(x.controls[i]) \in U
    BY <1>1, InList
  <2>3. \A i \in DOMAIN Sensors(x) : SensorItem(Sensors(x)[i]) \in U
    BY <1>1, InList
  <2> HIDE DEF U
  <2> QED
    BY <2>1, <2>2, <2>3
<1>3. PICK k \in DOMAIN b : b[k] = SensorItem(s)
  <2>1. PICK k \in DOMAIN Sensors(x) : Sensors(x)[k] = s
    BY <1>1, InList
  <2> QED
    BY <2>1
<1>4. Items(x) = a \o b
  BY DEF Items
<1> HIDE DEF a, b, U
<1>5. ToSet(a \o b) = ToSet(a) \cup ToSet(b)
  BY <1>2, JoinedMembers
<1>6. SensorItem(s) \in ToSet(b)
  BY <1>2, <1>3, InList
<1>7. SensorItem(s) \in ToSet(Items(x))
  BY <1>4, <1>5, <1>6
<1> QED
  BY <1>7 DEF ToSet

\* Each sensor is listed once, and its words are those of its value at their times.
InputsAgree(slots, tm, inputs) ==
  /\ \A s \in ToSet(Sensors(sim)) :
       s.area = "input" <=>
         Cardinality({i \in DOMAIN inputs : inputs[i].name = s.name}) = 1
  /\ \A e \in ToSet(inputs) :
       e.storage = "f32" /\ e.addr % 2 = 0 =>
         /\ e.addr \in 0..(Extent(slots) - 1)
         /\ e.bits = (BitsAt(e.name, tm[e.addr]) \div Base) * Base
                     + (BitsAt(e.name, tm[e.addr + 1]) % Base)

\* So it is with the input area.
LEMMA PageAgrees ==
  ASSUME SimInv, Uniform("input"), NEW slots, slots = map["input"],
         NEW tm \in [0..Extent(slots) -> Int],
         NEW inputs, inputs = InputEntries(slots, PageWords(tm, slots))
  PROVE  InputsAgree(slots, tm, inputs)
<1> DEFINE words == PageWords(tm, slots)
           n == Len(inputs)
           all == Sensors(sim)
<1>1. Paired(slots)
  BY InputsArePaired
<1>2. /\ sim \in SimConfigs /\ Validate(sim)
      /\ slots = BuildArea(sim, "input")
  BY DEF SimInv, Build, SimAreas
<1>3. Extent(slots) \in Nat /\ DOMAIN slots \subseteq 0..(Extent(slots) - 1)
  BY <1>2, AreaBounded, ExtentCovers
<1>4. PICK acc : Listed(slots, words, acc, Extent(slots)) /\ acc.entries = inputs
  <2> HIDE DEF words
  <2> QED
    BY <1>1, <1>3, AllListed DEF words
<1>5. /\ DOMAIN inputs = 1..n /\ n \in Nat
      /\ \A i \in 1..n : /\ Begins(slots, inputs[i].addr)
                         /\ inputs[i] = Entry(slots, words, inputs[i].addr)
      /\ \A i, j \in 1..n : inputs[i].addr = inputs[j].addr => i = j
      /\ \A a \in 0..(Extent(slots) - 1) : Begins(slots, a) =>
           \E i \in 1..n : inputs[i].addr = a
  <2> HIDE DEF words
  <2>1. inputs \in Seq({Entry(slots, words, a) : a \in DOMAIN slots})
    BY <1>4 DEF Listed
  <2>2. DOMAIN inputs = 1..n /\ n \in Nat
    BY <2>1
  <2> QED
    BY <1>4, <2>2 DEF Listed
<1> HIDE DEF n
<1>6. ASSUME NEW a \in DOMAIN slots
      PROVE  \E s \in ToSet(all) : s.area = "input" /\ slots[a] = SensorItem(s).slot
  BY InputSlots
<1>7. ASSUME NEW s \in ToSet(all), NEW r \in ToSet(all), s.name = r.name PROVE s = r
  <2>1. GoodWorld(World(now))
    <3>1. now \in Int
      BY DEF SimInv
    <3> QED
      BY <3>1, WorldIsGood
  <2>2. SensorNamed(sim, s.name) = s /\ SensorNamed(sim, r.name) = r
    BY <2>1, SensorOfName DEF World
  <2> QED
    BY <1>7, <2>2
<1>8. \A i \in 1..n : inputs[i].addr \in DOMAIN slots
                      /\ inputs[i].name = slots[inputs[i].addr].name
  <2> SUFFICES ASSUME NEW i \in 1..n
               PROVE  /\ inputs[i].addr \in DOMAIN slots
                      /\ inputs[i].name = slots[inputs[i].addr].name
    OBVIOUS
  <2> DEFINE a == inputs[i].addr
  <2>1. Begins(slots, a) /\ inputs[i] = Entry(slots, words, a)
    BY <1>5
  <2> HIDE DEF words, a
  <2>2. a \in DOMAIN slots
    BY <2>1 DEF Begins
  <2>3. inputs[i].name = slots[a].name
    BY <2>1 DEF Entry
  <2> QED
    BY <2>2, <2>3 DEF a
<1>9. ASSUME NEW s \in ToSet(all), NEW i \in 1..n, inputs[i].name = s.name
      PROVE  s.area = "input" /\ slots[inputs[i].addr] = SensorItem(s).slot
  <2>1. PICK r \in ToSet(all) : /\ r.area = "input"
                                /\ slots[inputs[i].addr] = SensorItem(r).slot
    BY <1>6, <1>8
  <2>2. r.name = s.name
    BY <1>8, <1>9, <2>1 DEF SensorItem
  <2>3. r = s
    BY <1>7, <2>2
  <2> QED
    BY <2>1, <2>3
<1>10. ASSUME NEW s \in ToSet(all), s.area = "input"
       PROVE  \E a \in DOMAIN slots : Begins(slots, a) /\ slots[a] = SensorItem(s).slot
  <2>1. PICK i \in In("input") : Items(sim)[i] = SensorItem(s)
    <3>1. PICK i \in DOMAIN Items(sim) : Items(sim)[i] = SensorItem(s)
      BY <1>2, SensorsAreItems
    <3>2. SensorItem(s).area = "input"
      BY <1>10 DEF SensorItem
    <3> QED
      BY <3>1, <3>2 DEF In
  <2>2. SlotsKept /\ "input" \in SimAreas
    BY SlotsAreKept DEF SimAreas
  <2>3. PICK a \in DOMAIN slots : {b \in DOMAIN slots : slots[b] = SensorItem(s).slot}
                                    = a..(a + Taken(SensorItem(s)) - 1)
    BY <2>1, <2>2 DEF SlotsKept
  <2>4. a \in Nat /\ Taken(SensorItem(s)) \in {1, 2}
    BY <1>1, <1>10 DEF Paired, Taken, SensorItem, StorageWidth
  <2>5. a \in a..(a + Taken(SensorItem(s)) - 1) /\ ~ a - 1 \in a..(a + Taken(SensorItem(s)) - 1)
    BY <2>4
  <2>6. slots[a] = SensorItem(s).slot
    BY <2>3, <2>5
  <2> QED
    BY <2>3, <2>5, <2>6 DEF Begins
<1>11. ASSUME NEW s \in ToSet(all)
       PROVE  s.area = "input" <=>
                Cardinality({i \in DOMAIN inputs : inputs[i].name = s.name}) = 1
  <2> DEFINE T == {i \in DOMAIN inputs : inputs[i].name = s.name}
  <2>1. CASE s.area = "input"
    <3>1. PICK a \in DOMAIN slots : Begins(slots, a) /\ slots[a] = SensorItem(s).slot
      BY <1>10, <2>1
    <3>2. PICK i \in 1..n : inputs[i].addr = a
      BY <1>3, <1>5, <3>1
    <3>3. i \in T
      BY <1>5, <1>8, <3>1, <3>2 DEF SensorItem
    <3>4. ASSUME NEW j \in T PROVE j = i
      <4>1. j \in 1..n /\ inputs[j].name = s.name
        BY <1>5
      <4>2. slots[inputs[j].addr] = slots[a] /\ Begins(slots, inputs[j].addr)
        BY <1>5, <1>9, <3>1, <4>1
      <4>3. inputs[j].addr = a
        <5> DEFINE b == inputs[j].addr
        <5>1. b \in DOMAIN slots /\ a \in Nat /\ b \in Nat
          BY <1>1, <4>2 DEF Begins, Paired
        <5>2. b = a \/ b = a + 1
          BY <1>1, <3>1, <4>2, <5>1 DEF Paired
        <5>3. a = b \/ a = b + 1
          BY <1>1, <3>1, <4>2, <5>1 DEF Paired
        <5> HIDE DEF b
        <5>4. a = b
          BY <5>1, <5>2, <5>3
        <5> QED
          BY <5>4 DEF b
      <4> QED
        BY <1>5, <3>2, <4>1, <4>3
    <3>5. T = {i}
      BY <3>3, <3>4
    <3> HIDE DEF T
    <3>6. Cardinality(T) = 1
      BY <3>5, FS_Singleton
    <3> QED
      BY <2>1, <3>6 DEF T
  <2>2. CASE s.area # "input"
    <3>1. T = {}
      BY <1>5, <1>9, <2>2
    <3> HIDE DEF T
    <3>2. Cardinality(T) # 1
      BY <3>1, FS_EmptySet
    <3> QED
      BY <2>2, <3>2 DEF T
  <2> QED
    BY <2>1, <2>2
<1>12. ASSUME NEW e \in ToSet(inputs), e.storage = "f32", e.addr % 2 = 0
       PROVE  /\ e.addr \in 0..(Extent(slots) - 1)
              /\ e.bits = (BitsAt(e.name, tm[e.addr]) \div Base) * Base
                          + (BitsAt(e.name, tm[e.addr + 1]) % Base)
  <2>1. PICK i \in 1..n : inputs[i] = e
    BY <1>5 DEF ToSet
  <2> DEFINE a == e.addr
  <2>2. Begins(slots, a) /\ e = Entry(slots, words, a) /\ a \in DOMAIN slots
    BY <1>5, <1>8, <2>1
  <2>3. IsWide(slots, a) /\ e.name = slots[a].name
    BY <1>12, <2>2 DEF Entry, IsWide
  <2>4. a \in Nat /\ a + 1 \in DOMAIN slots /\ slots[a + 1] = slots[a]
    BY <1>1, <2>2, <2>3 DEF Paired
  <2>5. slots[a].kind = "sensor" /\ slots[a].storage = "f32"
    <3>1. slots[a].storage = "f32"
      BY <2>3 DEF IsWide
    <3>2. \A s : SensorItem(s).slot.kind = "sensor"
      BY DEF SensorItem
    <3> HIDE DEF a
    <3> QED
      BY <1>6, <2>2, <3>1, <3>2
  <2>6. /\ words[a] = WordOf(BitsAt(e.name, tm[a]), a)
        /\ words[a + 1] = WordOf(BitsAt(e.name, tm[a + 1]), a + 1)
    <3>1. /\ words[a] = ReadWord(World(tm[a]), slots, a)
          /\ words[a + 1] = ReadWord(World(tm[a + 1]), slots, a + 1)
      BY <2>2, <2>4 DEF PageWords
    <3> HIDE DEF words, a
    <3> QED
      BY <2>2, <2>3, <2>4, <2>5, <3>1 DEF ReadWord, ReadSensor, BitsAt
  <2>7. e.bits = Combine(<<words[a], words[a + 1]>>, "big")
    BY <2>2, <2>3 DEF Entry
  <2>8. a % 2 = 0 /\ (a + 1) % 2 # 0
    BY <1>12, <2>4
  <2> HIDE DEF words, a
  <2>9. /\ words[a] = BitsAt(e.name, tm[a]) \div Base
        /\ words[a + 1] = BitsAt(e.name, tm[a + 1]) % Base
    BY <2>6, <2>8 DEF WordOf
  <2>10. e.bits = words[a] * Base + words[a + 1]
    BY <2>7 DEF Combine
  <2>11. a \in 0..(Extent(slots) - 1)
    BY <1>3, <2>2
  <2> QED
    BY <2>9, <2>10, <2>11 DEF a
<1> QED
  BY <1>11, <1>12 DEF InputsAgree

\* A double word is its halves.
LEMMA HalvesOf ==
  ASSUME NEW bits \in Doubles
  PROVE  (bits \div Base) * Base + (bits % Base) = bits
<1>1. Base \in Nat \ {0}
  BY BaseAssumption
<1> DEFINE top == Base * Base - 1
<1>2. bits \in 0..top
  BY DEF Doubles
<1> HIDE DEF top
<1> QED
  BY <1>1, <1>2

\* The web page lists each sensor of the input area once, with halves of values
\* that it had while the page was built, which are its value if it did not change
\* (build_state_json).
THEOREM SimWebAgrees == Spec => []WebAgrees
<1>1. SimInv => WebAgrees
  <2> SUFFICES ASSUME SimInv, reply.op = "state", Uniform("input") PROVE WebAgrees
    BY DEF WebAgrees
  <2> DEFINE n == Moments(map)
             times == reply.times
             inputs == reply.json.inputs
             slots == map["input"]
             tm == [a \in 0..Extent(slots) |-> times[Moment(map, "input", a)]]
             last == Extent(slots)
             bitsOf(v) == FloatBits[Narrow(v)]
             shown(name) == bitsOf(ValueFrom(reply.json.sensors, name, NaN))
  <2>1. /\ times \in [1..n -> 0..now]
        /\ \A i, j \in 1..n : i <= j => times[i] <= times[j]
        /\ reply.json = StateJson([i \in 1..n |-> World(times[i])], map)
        /\ now \in Int
    BY DEF SimInv, Page, World
  <2>2. /\ n \in Nat /\ 1 \in 1..n /\ last \in Nat
        /\ \A a \in 0..last : Moment(map, "input", a) \in 1..n
        /\ \A a \in 0..(last - 1) : Moment(map, "input", a) <= Moment(map, "input", a + 1)
        /\ DOMAIN slots \subseteq 0..(last - 1)
    BY MomentsCounted
  <2>3. tm \in [0..last -> Int]
    <3>1. \A a \in 0..last : times[Moment(map, "input", a)] \in Int
      BY <2>1, <2>2
    <3> QED
      BY <3>1
  <2>4. inputs = InputEntries(slots, PageWords(tm, slots))
    <3> DEFINE worlds == [i \in 1..n |-> World(times[i])]
               D == DOMAIN slots \cup {b + 1 : b \in DOMAIN slots}
    <3>1. inputs = InputEntries(slots,
                     [a \in D |-> ReadWord(worlds[Moment(map, "input", a)], slots, a)])
      BY <2>1 DEF StateJson
    <3>2. ASSUME NEW a \in D
          PROVE  worlds[Moment(map, "input", a)] = World(tm[a])
      <4>1. a \in 0..last
        BY <2>2
      <4>2. Moment(map, "input", a) \in 1..n
        BY <2>2, <4>1
      <4> HIDE DEF D
      <4> QED
        BY <4>1, <4>2
    <3> HIDE DEF worlds, D, slots, inputs, tm
    <3>3. [a \in D |-> ReadWord(worlds[Moment(map, "input", a)], slots, a)]
            = [a \in D |-> ReadWord(World(tm[a]), slots, a)]
      BY <3>2
    <3> QED
      BY <3>1, <3>3 DEF PageWords, D
  <2>5. ASSUME NEW a \in 0..(last - 1)
        PROVE  /\ tm[a] \in times[1]..now /\ tm[a + 1] \in tm[a]..now
               /\ tm[a + 1] \in times[1]..now
    <3> DEFINE i == Moment(map, "input", a)
               j == Moment(map, "input", a + 1)
    <3>1. i \in 1..n /\ j \in 1..n /\ i <= j /\ a \in 0..last /\ a + 1 \in 0..last
      BY <2>2
    <3>2. tm[a] = times[i] /\ tm[a + 1] = times[j]
      BY <3>1
    <3> HIDE DEF i, j, tm, times, n
    <3>3. /\ times[1] \in 0..now /\ times[i] \in 0..now /\ times[j] \in 0..now
          /\ times[1] <= times[i] /\ times[i] <= times[j]
      BY <2>1, <2>2, <3>1
    <3> QED
      BY <2>1, <3>2, <3>3
  <2> HIDE DEF tm, inputs, slots
  <2>6. /\ \A s \in ToSet(Sensors(sim)) :
             s.area = "input" <=>
               Cardinality({i \in DOMAIN inputs : inputs[i].name = s.name}) = 1
        /\ \A e \in ToSet(inputs) :
             e.storage = "f32" /\ e.addr % 2 = 0 =>
               /\ e.addr \in 0..(last - 1)
               /\ e.bits = (BitsAt(e.name, tm[e.addr]) \div Base) * Base
                           + (BitsAt(e.name, tm[e.addr + 1]) % Base)
    <3>1. slots = map["input"]
      BY DEF slots
    <3>2. InputsAgree(slots, tm, inputs)
      BY <2>3, <2>4, <3>1, PageAgrees
    <3> HIDE DEF times, n, shown
    <3> QED
      BY <3>2 DEF InputsAgree
  <2>7. ASSUME NEW e \in ToSet(inputs), e.storage = "f32", e.addr % 2 = 0
        PROVE  /\ \E t \in times[1]..now : \E u \in t..now :
                    e.bits = (BitsAt(e.name, t) \div Base) * Base
                             + (BitsAt(e.name, u) % Base)
               /\ (\A t \in times[1]..now : BitsAt(e.name, t) = shown(e.name))
                    => e.bits = shown(e.name)
    <3> HIDE DEF times, shown, last
    <3>1. /\ tm[e.addr] \in times[1]..now
          /\ tm[e.addr + 1] \in tm[e.addr]..now
          /\ tm[e.addr + 1] \in times[1]..now
          /\ e.bits = (BitsAt(e.name, tm[e.addr]) \div Base) * Base
                      + (BitsAt(e.name, tm[e.addr + 1]) % Base)
      BY <2>5, <2>6, <2>7
    <3>2. ASSUME \A t \in times[1]..now : BitsAt(e.name, t) = shown(e.name)
          PROVE  e.bits = shown(e.name)
      <4>1. /\ BitsAt(e.name, tm[e.addr]) = shown(e.name)
            /\ BitsAt(e.name, tm[e.addr + 1]) = shown(e.name)
        BY <3>1, <3>2
      <4>2. tm[e.addr] \in Int
        BY <3>1
      <4>3. shown(e.name) \in Doubles
        BY <4>1, <4>2, BitsTyped
      <4> QED
        BY <3>1, <4>1, <4>3, HalvesOf
    <3> QED
      BY <3>1, <3>2
  <2> QED
    BY <2>6, <2>7 DEF WebAgrees, BitsAt, inputs
<1> QED
  BY <1>1, SimInvariant, PTL
=============================================================================
