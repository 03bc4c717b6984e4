-------------------------- MODULE ObserversProofs --------------------------
(***************************************************************************)
(* Proofs about Consumer and Observers, for any configuration files and    *)
(* any additions to them, any number of devices, clients, samples and      *)
(* updates, and any width of the filters and capacity of the channels.     *)
(*                                                                         *)
(* The configuration changes as in HotConfig, so that every configuration  *)
(* in force is valid.  The inductive invariant says what the batches on    *)
(* their way still hold: for each sample the store has of a register, a    *)
(* batch for every later poll of its device, each newer than the one       *)
(* before.  A window that begins with a sample then takes in every later   *)
(* one, and none twice.                                                    *)
(***************************************************************************)
EXTENDS Observers, HotConfigProofs, ComputedProofs

-----------------------------------------------------------------------------
(* The configuration *)

\* What happens to samples and caches leaves configuration and file alone;
\* every other step is one of HotConfig.
THEOREM ConsumerRunsConfig == Spec => ConfigSpec
<1>1. Init => ConfigInit
  BY DEF Init
<1>2. [Next]_vars => [ConfigNext]_configVars
  <2> SUFFICES ASSUME [Next]_vars
               PROVE  [ConfigNext]_configVars
    OBVIOUS
  <2>1. ASSUME NEW d \in DeviceSet, Poll(d)
        PROVE  UNCHANGED configVars
    BY <2>1 DEF Poll
  <2>2. CASE Consume
    BY <2>2 DEF Consume
  <2>3. CASE Tick
    BY <2>3 DEF Tick
  <2>4. CASE \E q \in Additions : HotAdd(q)
    BY <2>4 DEF ConfigNext
  <2>5. CASE Halt
    BY <2>5 DEF Halt, ConfigNext
  <2>6. CASE Start
    BY <2>6 DEF Start, ConfigNext
  <2>7. CASE UNCHANGED vars
    BY <2>7 DEF vars
  <2> QED
    BY <2>1, <2>2, <2>3, <2>4, <2>5, <2>6, <2>7 DEF Next
<1> QED
  BY <1>1, <1>2, PTL DEF Spec, ConfigSpec

\* Health endpoint and dashboard only look: with them the gateway takes the
\* steps of Consumer.
THEOREM ObserversOnlyLook == ObserversSpec => Spec
<1>1. ObserversInit => Init
  BY DEF ObserversInit
<1>2. [ObserversNext]_allVars => [Next]_vars
  <2> SUFFICES ASSUME [ObserversNext]_allVars
               PROVE  [Next]_vars
    OBVIOUS
  <2>1. CASE \E d \in DeviceSet : Poll(d) /\ UNCHANGED observerVars
    BY <2>1 DEF Next
  <2>2. CASE Consume \/ Tick \/ Start
    BY <2>2 DEF Next
  <2>3. CASE \E q \in Additions : HotAdd(q) /\ UNCHANGED <<consumerVars, observerVars>>
    BY <2>3 DEF Next
  <2>4. CASE StopAll
    BY <2>4 DEF StopAll, Next
  <2>5. CASE Broadcast
    BY <2>5 DEF Broadcast
  <2>6. ASSUME NEW c \in Clients, Connect(c) \/ Receive(c) \/ Disconnect(c)
        PROVE  UNCHANGED vars
    BY <2>6 DEF Connect, Receive, Disconnect
  <2>7. CASE UNCHANGED allVars
    BY <2>7 DEF allVars
  <2> QED
    BY <2>1, <2>2, <2>3, <2>4, <2>5, <2>6, <2>7 DEF ObserversNext
<1> QED
  BY <1>1, <1>2, PTL DEF ObserversSpec, Spec

\* The sensors of the devices are the known sensors, and no two devices share
\* one.
LEMMA SensorsApart ==
  ASSUME NEW c \in Config, UniqueSensors(c)
  PROVE  /\ \A d \in DeviceSet : SensorsOf(c, d) \subseteq KnownSensors(c)
         /\ \A s \in KnownSensors(c) : \E d \in DeviceSet : s \in SensorsOf(c, d)
         /\ \A d, e \in DeviceSet : SensorsOf(c, d) \cap SensorsOf(c, e) # {} => d = e
         /\ KnownSensors(c) \cap Ids(c.computed) = {}
         /\ KnownSensors(c) \subseteq Sensors /\ Ids(c.computed) \subseteq Sensors
         /\ c.computed \in Lists(Sensors)
<1>1. ASSUME NEW d \in DeviceSet
      PROVE  SensorsOf(c, d) = {c.regs[d][i].sensor : i \in DOMAIN c.regs[d]}
  BY DEF SensorsOf, ToSet
<1>2. \A d \in DeviceSet : \A i \in DOMAIN c.regs[d] :
        <<d, i>> \in Places(c) /\ At(c, <<d, i>>) = c.regs[d][i]
  BY DEF Places, At
<1>3. \A p \in Places(c) : \E d \in DeviceSet : \E i \in DOMAIN c.regs[d] :
        p = <<d, i>> /\ At(c, p) = c.regs[d][i]
  BY DEF Places, At
<1>4. ASSUME NEW d \in DeviceSet, NEW i \in DOMAIN c.regs[d]
      PROVE  c.regs[d][i].sensor \in KnownSensors(c)
  <2>1. <<d, i>> \in Places(c) /\ At(c, <<d, i>>).sensor = c.regs[d][i].sensor
    BY <1>2
  <2> QED
    BY <2>1, Zenon DEF KnownSensors
<1>5. \A s \in KnownSensors(c) : \E d \in DeviceSet : s \in SensorsOf(c, d)
  BY <1>1, <1>3 DEF KnownSensors
<1>6. ASSUME NEW d \in DeviceSet, NEW e \in DeviceSet,
             SensorsOf(c, d) \cap SensorsOf(c, e) # {}
      PROVE  d = e
  <2>1. PICK i \in DOMAIN c.regs[d], j \in DOMAIN c.regs[e] :
           c.regs[d][i].sensor = c.regs[e][j].sensor
    BY <1>1, <1>6
  <2>2. /\ <<d, i>> \in Places(c) /\ <<e, j>> \in Places(c)
        /\ At(c, <<d, i>>).sensor = At(c, <<e, j>>).sensor
    BY <1>2, <2>1
  <2>3. <<d, i>> = <<e, j>>
    BY <2>2, Zenon DEF UniqueSensors
  <2> QED
    BY <2>3
<1>7. KnownSensors(c) \subseteq Sensors
  <2>1. ASSUME NEW d \in DeviceSet, NEW i \in DOMAIN c.regs[d]
        PROVE  c.regs[d][i].sensor \in Sensors
    <3>1. c.regs[d] \in Seq(Register)
      BY DEF Config
    <3>2. c.regs[d][i] \in Register
      BY <3>1
    <3> QED
      BY <3>2 DEF Register
  <2> QED
    BY <1>3, <2>1 DEF KnownSensors
<1>8. c.computed \in Lists(Sensors)
  BY DEF Lists, Config, UniqueSensors
<1> QED
  BY <1>1, <1>4, <1>5, <1>6, <1>7, <1>8, ListedIds DEF UniqueSensors

-----------------------------------------------------------------------------
(* A round of evaluation *)

\* The solution of the recursion for the first m of some computed sensors.
Rounds(iter, m, st, sensors) ==
  iter = [T \in SUBSET (1..m) |->
            IF T = {} THEN st ELSE Evaluated(iter[T \ {Max(T)}], sensors[Max(T)])]

\* The stores that a round goes through.
Round(tr, st, sensors) ==
  /\ tr[0] = st
  /\ \A k \in 0..(Len(sensors) - 1) : tr[k + 1] = Evaluated(tr[k], sensors[k + 1])
  /\ tr[Len(sensors)] = RunComputed(st, sensors)

\* There are such stores: those of the fold over the first k sensors.
LEMMA RoundExists ==
  ASSUME NEW st, NEW X, NEW sensors \in Seq(X)
  PROVE  \E tr : Round(tr, st, sensors)
<1> DEFINE n == Len(sensors)
           iter == CHOOSE f : Rounds(f, n, st, sensors)
           Has == {m \in 0..n : \E f : Rounds(f, m, st, sensors)}
<1>1. DOMAIN sensors = 1..n /\ n \in Nat
  OBVIOUS
<1>2. RunComputed(st, sensors) = iter[1..n]
  BY <1>1, Zenon DEF RunComputed, FoldLeft, MapThenFoldSet, Rounds
<1>3. 0 \in Has
  <2> DEFINE f == [T \in SUBSET (1..0) |-> st]
  <2>1. \A T \in SUBSET (1..0) : T = {}
    OBVIOUS
  <2>2. Rounds(f, 0, st, sensors)
    BY <2>1 DEF Rounds
  <2> QED
    BY <1>1, <2>2
<1>4. ASSUME NEW m \in 0..(n - 1), m \in Has PROVE m + 1 \in Has
  <2>1. PICK g : Rounds(g, m, st, sensors)
    BY <1>4
  <2> DEFINE next == m + 1
             h == [T \in SUBSET (1..next) |->
                     IF next \in T THEN Evaluated(g[T \ {next}], sensors[next])
                     ELSE g[T]]
  <2>2. next \in 1..n /\ m \in Nat /\ next = m + 1 /\ next \in 0..n
    BY <1>1
  <2> HIDE DEF next
  <2>3. ASSUME NEW T \in SUBSET (1..next)
        PROVE  /\ T \ {next} \in SUBSET (1..m)
               /\ next \notin T => T \in SUBSET (1..m)
    BY <2>2
  <2>4. ASSUME NEW T \in SUBSET (1..next)
        PROVE  h[T] = IF T = {} THEN st
                      ELSE Evaluated(h[T \ {Max(T)}], sensors[Max(T)])
    <3>1. CASE next \in T
      <4>1. Max(T) = next
        <5>1. \A y \in T : y \in 1..next
          OBVIOUS
        <5>2. \A y \in T : next >= y
          BY <2>2, <5>1
        <5>3. ASSUME NEW x \in T, \A y \in T : x >= y PROVE x = next
          BY <2>2, <3>1, <5>1, <5>3
        <5> QED
          BY <3>1, <5>2, <5>3 DEF Max
      <4>2. h[T \ {next}] = g[T \ {next}]
        OBVIOUS
      <4> QED
        BY <3>1, <4>1, <4>2
    <3>2. CASE next \notin T
      <4>1. T \in SUBSET (1..m) /\ h[T] = g[T]
        BY <2>3, <3>2
      <4>2. h[T \ {Max(T)}] = g[T \ {Max(T)}]
        BY <3>2
      <4>3. g[T] = IF T = {} THEN st
                   ELSE Evaluated(g[T \ {Max(T)}], sensors[Max(T)])
        BY <2>1, <4>1 DEF Rounds
      <4> QED
        BY <4>1, <4>2, <4>3
    <3> QED
      BY <3>1, <3>2
  <2>5. h = [T \in SUBSET (1..next) |-> h[T]]
    OBVIOUS
  <2> HIDE DEF h
  <2>6. Rounds(h, next, st, sensors)
    BY <2>4, <2>5 DEF Rounds
  <2> QED
    BY <2>2, <2>6
<1>5. Rounds(iter, n, st, sensors)
  <2>1. n \in Has
    <3> HIDE DEF Has, n
    <3>1. 0..n \subseteq Has
      BY <1>1, <1>3, <1>4, IntervalInduction
    <3> QED
      BY <1>1, <3>1
  <2> QED
    BY <2>1
<1> HIDE DEF iter
<1> DEFINE tr == [k \in 0..n |-> iter[1..k]]
<1>6. tr[0] = st
  <2>1. 1..0 \in SUBSET (1..n) /\ 1..0 = {}
    BY <1>1
  <2> QED
    BY <1>1, <1>5, <2>1 DEF Rounds
<1>7. ASSUME NEW k \in 0..(n - 1)
      PROVE  tr[k + 1] = Evaluated(tr[k], sensors[k + 1])
  <2>1. /\ 1..(k + 1) \in SUBSET (1..n) /\ 1..(k + 1) # {}
        /\ (1..(k + 1)) \ {k + 1} = 1..k
        /\ Max(1..(k + 1)) = k + 1
    <3> HIDE DEF n
    <3> QED
      BY <1>1, FirstPositions
  <2>2. k \in 0..n /\ k + 1 \in 0..n
    BY <1>1
  <2>3. iter[1..(k + 1)] = Evaluated(iter[1..k], sensors[k + 1])
    BY <1>5, <2>1 DEF Rounds
  <2> QED
    BY <2>2, <2>3
<1>8. tr[n] = RunComputed(st, sensors)
  BY <1>1, <1>2
<1> QED
  BY <1>6, <1>7, <1>8 DEF Round

\* An entry of the store, whatever its metric.
IsEntry(e) == /\ e = [raw |-> e.raw, metric |-> e.metric, at |-> e.at]
              /\ e.raw \in Nat /\ e.at \in Nat

IsStore(st) == /\ st = [s \in Sensors |-> st[s]]
               /\ \A s \in Sensors : IsEntry(st[s])

\* The value of a computed sensor depends on its inputs alone.
LEMMA SameInputs ==
  ASSUME NEW a, NEW b, NEW c,
         \A i \in DOMAIN c.inputs : a[c.inputs[i]] = b[c.inputs[i]]
  PROVE  /\ Evaluable(a, c) <=> Evaluable(b, c)
         /\ Evaluate(a, c) = Evaluate(b, c)
<1>1. \A i \in DOMAIN c.inputs : ValueOf(a, c.inputs[i]) = ValueOf(b, c.inputs[i])
  BY DEF ValueOf
<1> QED
  BY <1>1 DEF Evaluable, Evaluate

\* An evaluation changes the entry of its sensor alone.
LEMMA EvaluatedStore ==
  ASSUME NEW st, IsStore(st), now \in Nat, NEW c, c.sensor \in Sensors
  PROVE  /\ IsStore(Evaluated(st, c))
         /\ \A s \in Sensors : s # c.sensor => Evaluated(st, c)[s] = st[s]
         /\ Evaluated(st, c)[c.sensor].raw \in {0, st[c.sensor].raw}
         /\ ~ Evaluable(st, c) => Evaluated(st, c) = st
         /\ Evaluable(st, c) =>
              Evaluated(st, c)[c.sensor].metric = Evaluate(st, c)
<1>1. CASE ~ Evaluable(st, c)
  BY <1>1 DEF Evaluated
<1>2. CASE Evaluable(st, c)
  <2> DEFINE e == [raw |-> 0, metric |-> Evaluate(st, c), at |-> now]
             res == [st EXCEPT ![c.sensor] = e]
  <2>1. Evaluated(st, c) = res
    BY <1>2 DEF Evaluated
  <2>2. IsEntry(e) /\ e.raw = 0 /\ e.metric = Evaluate(st, c)
    BY DEF IsEntry
  <2> HIDE DEF e
  <2>3. res = [s \in Sensors |-> IF s = c.sensor THEN e ELSE st[s]]
    BY DEF IsStore
  <2> HIDE DEF res
  <2>4. res[c.sensor] = e /\ \A s \in Sensors : s # c.sensor => res[s] = st[s]
    BY <2>3
  <2>5. IsStore(res)
    BY <2>2, <2>3, <2>4 DEF IsStore
  <2> QED
    BY <1>2, <2>1, <2>2, <2>4, <2>5
<1> QED
  BY <1>1, <1>2

\* After one round in the order of build, every computed sensor that can be
\* evaluated is its expression over the inputs as they are now.
LEMMA RoundComputes ==
  ASSUME NEW st, IsStore(st), now \in Nat,
         NEW q \in Lists(Sensors), Acyclic(q),
         NEW res, res = RunComputed(st, BuildOrder(q))
  PROVE  /\ IsStore(res)
         /\ \A s \in Sensors \ Ids(q) : res[s] = st[s]
         /\ \A s \in Sensors : res[s].raw \in {0, st[s].raw}
         /\ \A j \in DOMAIN q : Evaluable(res, q[j]) =>
              res[q[j].sensor].metric = Evaluate(res, q[j])
<1> DEFINE order == BuildOrder(q)
           n == Len(order)
<1>1. /\ order \in Lists(Sensors) /\ Elements(order) = Elements(q)
      /\ \A b \in DOMAIN order : \A i \in InputsOf(order[b]) \cap Ids(q) :
           \E a \in DOMAIN order : a < b /\ order[a].sensor = i
  BY BuildSorts
<1> HIDE DEF order
<1>2. /\ order \in Seq([sensor : Sensors, inputs : Seq(Sensors)])
      /\ DOMAIN order = 1..n /\ n \in Nat
      /\ \A a, b \in 1..n : order[a].sensor = order[b].sensor => a = b
  BY <1>1 DEF Lists
<1>3. ASSUME NEW b \in 1..n
      PROVE  /\ order[b].sensor \in Sensors /\ order[b].inputs \in Seq(Sensors)
             /\ order[b].sensor \in Ids(q)
  <2>1. order[b] \in Elements(q)
    BY <1>1, <1>2 DEF Elements
  <2>2. PICK j \in DOMAIN q : order[b] = q[j]
    BY <2>1 DEF Elements
  <2> QED
    BY <2>2, ListElement DEF Ids
<1>4. PICK tr : Round(tr, st, order)
  BY <1>2, RoundExists
<1> DEFINE Follows(s, b) == Evaluable(s, order[b]) =>
                              s[order[b].sensor].metric = Evaluate(s, order[b])
           Has == {k \in 0..n : /\ IsStore(tr[k])
                                /\ \A s \in Sensors \ Ids(q) : tr[k][s] = st[s]
                                /\ \A s \in Sensors : tr[k][s].raw \in {0, st[s].raw}
                                /\ \A b \in 1..k : Follows(tr[k], b)}
<1>5. 0 \in Has
  <2>1. tr[0] = st /\ 0 \in 0..n
    BY <1>2, <1>4 DEF Round
  <2>2. 1..0 = {}
    OBVIOUS
  <2> HIDE DEF Follows
  <2> QED
    BY <2>1, <2>2
<1>6. ASSUME NEW k \in 0..(n - 1), k \in Has PROVE k + 1 \in Has
  <2> DEFINE c == order[k + 1]
             old == tr[k]
             new == tr[k + 1]
  <2>1. k + 1 \in 1..n /\ k + 1 \in 0..n /\ \A b \in 1..k : b \in 1..n /\ b # k + 1
    BY <1>2
  <2>2. new = Evaluated(old, c)
    BY <1>4 DEF Round
  <2>3. c.sensor \in Sensors /\ c.sensor \in Ids(q)
    BY <1>3, <2>1
  <2>4. /\ IsStore(old) /\ \A s \in Sensors \ Ids(q) : old[s] = st[s]
        /\ \A s \in Sensors : old[s].raw \in {0, st[s].raw}
        /\ \A b \in 1..k : Follows(old, b)
    <3> HIDE DEF Follows
    <3> QED
      BY <1>6
  <2> HIDE DEF c, old, new
  <2>5. /\ IsStore(new)
        /\ \A s \in Sensors : s # c.sensor => new[s] = old[s]
        /\ new[c.sensor].raw \in {0, old[c.sensor].raw}
        /\ ~ Evaluable(old, c) => new = old
        /\ Evaluable(old, c) => new[c.sensor].metric = Evaluate(old, c)
    BY <2>2, <2>3, <2>4, EvaluatedStore
  <2>6. ASSUME NEW b \in 1..(k + 1)
        PROVE  \A i \in DOMAIN order[b].inputs :
                 new[order[b].inputs[i]] = old[order[b].inputs[i]]
    <3>1. ASSUME NEW i \in DOMAIN order[b].inputs, order[b].inputs[i] = c.sensor
          PROVE  FALSE
      <4>1. b \in DOMAIN order
        BY <1>2
      <4>2. c.sensor \in InputsOf(order[b]) \cap Ids(q)
        BY <2>3, <3>1 DEF InputsOf
      <4>3. PICK a \in DOMAIN order : a < b /\ order[a].sensor = c.sensor
        BY <1>1, <4>1, <4>2
      <4>4. a = k + 1
        BY <1>2, <2>1, <4>3 DEF c
      <4> QED
        BY <4>3, <4>4
    <3>2. \A i \in DOMAIN order[b].inputs : order[b].inputs[i] \in Sensors
      <4>1. order[b].inputs \in Seq(Sensors)
        BY <1>2, <1>3
      <4> QED
        BY <4>1
    <3> QED
      BY <2>5, <3>1, <3>2
  <2>7. ASSUME NEW b \in 1..(k + 1) PROVE Follows(new, b)
    <3>1. /\ Evaluable(new, order[b]) <=> Evaluable(old, order[b])
          /\ Evaluate(new, order[b]) = Evaluate(old, order[b])
      BY <2>6, SameInputs
    <3>2. CASE b = k + 1
      BY <2>5, <3>1, <3>2 DEF c
    <3>3. CASE b # k + 1
      <4>1. b \in 1..k
        BY <3>3
      <4>2. order[b].sensor # c.sensor /\ order[b].sensor \in Sensors
        BY <1>2, <1>3, <2>1, <4>1 DEF c
      <4>3. new[order[b].sensor] = old[order[b].sensor]
        BY <2>5, <4>2
      <4> QED
        BY <2>4, <3>1, <4>1, <4>3
    <3> QED
      BY <3>2, <3>3
  <2>8. /\ \A s \in Sensors \ Ids(q) : new[s] = st[s]
        /\ \A s \in Sensors : new[s].raw \in {0, st[s].raw}
    BY <2>3, <2>4, <2>5
  <2> HIDE DEF Follows
  <2> QED
    BY <2>1, <2>5, <2>7, <2>8 DEF new
<1>7. n \in Has
  <2> HIDE DEF Has, n
  <2>1. 0..n \subseteq Has
    BY <1>2, <1>5, <1>6, IntervalInduction
  <2> QED
    BY <1>2, <2>1
<1>8. tr[n] = res
  BY <1>4 DEF Round, order
<1>9. ASSUME NEW j \in DOMAIN q, Evaluable(res, q[j])
      PROVE  res[q[j].sensor].metric = Evaluate(res, q[j])
  <2>1. q[j] \in Elements(order)
    BY <1>1 DEF Elements
  <2>2. PICK b \in 1..n : q[j] = order[b]
    BY <1>2, <2>1 DEF Elements
  <2> QED
    BY <1>7, <1>8, <1>9, <2>2
<1> QED
  BY <1>7, <1>8, <1>9

-----------------------------------------------------------------------------
(* A window of samples *)

\* A window that ends with the sample at raw and lists all from its first on.
EndsWith(w, T, raw) ==
  /\ raw # 0
  /\ Latest(w, {t \in T : t <= raw})
  /\ w[Len(w)] = raw

\* A sample pushed into an empty window, or into one that ends with the sample
\* before it, ends a window again.
LEMMA PushKeepsLatest ==
  ASSUME NEW w \in Seq(Nat), NEW T \in SUBSET Nat, NEW raw \in Nat,
         NEW n \in T, n # 0,
         w # <<>> => /\ EndsWith(w, T, raw) /\ raw < n
                     /\ \A t \in T : raw < t => n <= t
  PROVE  Push(w, n) \in Seq(Nat) /\ Push(w, n) # <<>> /\ EndsWith(Push(w, n), T, n)
<1> DEFINE a == Append(w, n)
           m == Len(w)
           new == Push(w, n)
<1>1. /\ n \in Nat /\ n # 0 /\ m \in Nat /\ DOMAIN w = 1..m /\ Window \in Nat \ {0}
      /\ a \in Seq(Nat) /\ Len(a) = m + 1 /\ DOMAIN a = 1..(m + 1) /\ a[m + 1] = n
      /\ \A i \in 1..m : a[i] = w[i]
  BY BoundsAssumption
<1>2. ASSUME w # <<>>, NEW t \in T PROVE t <= n <=> t <= raw \/ t = n
  BY <1>1, <1>2
<1>3. /\ \A i, j \in 1..(m + 1) : i < j => a[i] < a[j]
      /\ \A i \in 1..(m + 1) : a[i] \in T /\ a[i] <= n
      /\ \A t \in T : a[1] <= t /\ t <= n => \E i \in 1..(m + 1) : a[i] = t
      /\ m <= Window
  <2>1. CASE w = <<>>
    <3>1. m = 0 /\ a[1] = n
      BY <1>1, <2>1
    <3>2. \A i \in 1..(m + 1) : i = 1
      BY <3>1
    <3>3. \A t \in T : n <= t /\ t <= n => a[1] = t
      BY <1>1, <3>1
    <3> QED
      BY <1>1, <3>1, <3>2, <3>3
  <2>2. CASE w # <<>>
    <3> DEFINE times == {t \in T : t <= raw}
    <3>1. /\ m \in 1..Window
          /\ \A i, j \in 1..m : i < j => w[i] < w[j]
          /\ ToSet(w) = {t \in times : t >= w[1]}
          /\ w[m] = raw
      BY <1>1, <2>2 DEF EndsWith, Latest
    <3>2. ToSet(w) = {w[i] : i \in 1..m}
      BY <1>1 DEF ToSet
    <3>3. \A i \in 1..m : w[i] \in T /\ w[i] <= raw /\ w[i] < n
      BY <1>1, <2>2, <3>1, <3>2
    <3>4. \A i \in 1..(m + 1) : i \in 1..m \/ i = m + 1
      BY <1>1
    <3>5. ASSUME NEW i \in 1..(m + 1), NEW j \in 1..(m + 1), i < j
          PROVE  a[i] < a[j]
      BY <1>1, <3>1, <3>3, <3>4, <3>5
    <3>6. ASSUME NEW t \in T, a[1] <= t, t <= n
          PROVE  \E i \in 1..(m + 1) : a[i] = t
      <4>1. CASE t = n
        BY <1>1, <4>1
      <4>2. CASE t # n
        <5>1. t <= raw /\ 1 \in 1..m /\ a[1] = w[1]
          BY <1>1, <1>2, <2>2, <3>1, <3>6, <4>2
        <5>2. t \in ToSet(w)
          BY <3>1, <3>6, <5>1
        <5>3. PICK i \in 1..m : w[i] = t
          BY <3>2, <5>2
        <5> QED
          BY <1>1, <5>3
      <4> QED
        BY <4>1, <4>2
    <3> QED
      BY <1>1, <3>1, <3>3, <3>4, <3>5, <3>6
  <2> QED
    BY <2>1, <2>2
<1>4. CASE ~ (m + 1 > Window)
  <2>1. new = a
    BY <1>1, <1>4 DEF Push
  <2>2. Latest(a, {t \in T : t <= n})
    <3>1. Len(a) \in 1..Window
      BY <1>1, <1>4
    <3>2. ToSet(a) = {t \in {t \in T : t <= n} : t >= a[1]}
      <4>1. \A i \in 1..(m + 1) : a[1] <= a[i] /\ a[i] \in Nat
        BY <1>1, <1>3
      <4>2. ToSet(a) = {a[i] : i \in 1..(m + 1)}
        BY <1>1 DEF ToSet
      <4>3. ASSUME NEW t \in T, t <= n, t >= a[1]
            PROVE  \E i \in 1..(m + 1) : a[i] = t
        <5>1. a[1] <= t
          BY <1>1, <4>3
        <5> QED
          BY <1>3, <4>3, <5>1
      <4>4. \A i \in 1..(m + 1) : a[i] \in T /\ a[i] <= n /\ a[i] >= a[1]
        BY <1>3, <4>1
      <4> HIDE DEF a
      <4> QED
        BY <4>2, <4>3, <4>4
    <3> HIDE DEF a
    <3> QED
      BY <1>1, <1>3, <3>1, <3>2 DEF Latest
  <2> QED
    BY <1>1, <2>1, <2>2 DEF EndsWith
<1>5. CASE m + 1 > Window
  <2> DEFINE b == Tail(a)
  <2>1. new = b
    BY <1>1, <1>5 DEF Push
  <2>2. /\ m = Window /\ b \in Seq(Nat) /\ Len(b) = m /\ DOMAIN b = 1..m
        /\ \A i \in 1..m : b[i] = a[i + 1] /\ i + 1 \in 1..(m + 1)
    <3> HIDE DEF a
    <3>1. m = Window /\ a # <<>>
      <4>1. m + 1 # 0
        BY <1>1
      <4>2. a # <<>>
        BY <1>1, <4>1
      <4>3. m \in Nat /\ Window \in Nat /\ m <= Window /\ m + 1 > Window
        BY <1>1, <1>3, <1>5
      <4>4. m = Window
        BY <4>3
      <4> QED
        BY <4>2, <4>4
    <3>2. b \in Seq(Nat) /\ Len(b) = m
      BY <1>1, <3>1
    <3>3. DOMAIN b = 1..m
      BY <3>2
    <3>4. \A i \in 1..m : b[i] = a[i + 1] /\ i + 1 \in 1..(m + 1)
      BY <1>1, <3>1
    <3> QED
      BY <3>1, <3>2, <3>3, <3>4
  <2> HIDE DEF a, b
  <2>3. b[m] = n
    BY <1>1, <2>2
  <2>4. \A i, j \in 1..m : i < j => b[i] < b[j]
    BY <1>1, <1>3, <2>2
  <2>5. ToSet(b) = {t \in {t \in T : t <= n} : t >= b[1]}
    <3>1. ToSet(b) = {b[i] : i \in 1..m}
      BY <2>2 DEF ToSet
    <3>2. \A i \in 1..m : b[1] <= b[i] /\ b[i] \in T /\ b[i] <= n
      <4>1. 1 \in 1..m /\ \A i \in 1..m : b[i] \in Nat
        BY <1>1, <2>2
      <4>2. \A i \in 1..m : b[i] \in T /\ b[i] <= n
        BY <1>3, <2>2
      <4>3. \A i \in 1..m : i = 1 \/ 1 < i
        OBVIOUS
      <4>4. \A i \in 1..m : b[1] <= b[i]
        BY <2>4, <4>1, <4>3
      <4> QED
        BY <4>2, <4>4
    <3>3. ASSUME NEW t \in T, t <= n, t >= b[1]
          PROVE  \E i \in 1..m : b[i] = t
      <4>1. /\ 1 \in 1..m /\ b[1] = a[2] /\ 1 \in 1..(m + 1) /\ 2 \in 1..(m + 1)
            /\ a[1] < a[2] /\ a[1] \in Nat /\ a[2] \in Nat /\ t \in Nat
        BY <1>1, <1>3, <2>2
      <4>2. PICK i \in 1..(m + 1) : a[i] = t
        <5>1. a[1] <= t
          BY <3>3, <4>1
        <5> QED
          BY <1>3, <3>3, <5>1
      <4>3. i # 1
        BY <3>3, <4>1, <4>2
      <4>4. i - 1 \in 1..m /\ (i - 1) + 1 = i
        BY <1>1, <4>3
      <4> QED
        BY <2>2, <4>2, <4>4
    <3> QED
      BY <3>1, <3>2, <3>3
  <2>6. Latest(b, {t \in T : t <= n})
    BY <1>1, <2>2, <2>4, <2>5 DEF Latest
  <2>7. b # <<>>
    BY <1>1, <2>2
  <2> QED
    BY <1>1, <2>1, <2>2, <2>3, <2>6, <2>7 DEF EndsWith
<1> QED
  BY <1>1, <1>4, <1>5

-----------------------------------------------------------------------------
(* One sensor with a register.  T are the polls its device has answered, ch *)
(* the batches on their way, e its entry in the store, w its window and     *)
(* working whether it has a pipeline that does not fail.                    *)

Batch == [n : Nat \ {0}, sensors : SUBSET Sensors]

\* Every poll after time n has a batch on its way with a sample of s.
Sent(s, T, ch, n) ==
  \A t \in T : n < t => \E i \in DOMAIN ch : ch[i].n = t /\ s \in ch[i].sensors

SampleInv(s, T, ch, e) ==
  /\ e.raw \in T \cup {0}
  /\ e.raw = 0 => e.at = 0
  /\ e.raw # 0 => Sent(s, T, ch, e.raw)
  /\ \A i \in DOMAIN ch : s \in ch[i].sensors => /\ e.raw < ch[i].n
                                                 /\ Sent(s, T, ch, ch[i].n)

MetricInv(s, T, e, w, working) ==
  /\ w \in Seq(Nat)
  /\ w # <<>> => EndsWith(w, T, e.raw)
  /\ e.metric = NoMetric <=> ~ working \/ e.raw = 0
  /\ e.metric # NoMetric => /\ e.metric = <<s, e.metric[2]>>
                            /\ e.metric[2] \in Seq(Nat)
                            /\ EndsWith(e.metric[2], T, e.raw)

\* A batch was sent: one with the sensor, of a later poll, or of another device.
LEMMA SampleSent ==
  ASSUME NEW s, NEW T \in SUBSET Nat, NEW ch \in Seq(Batch), NEW e,
         SampleInv(s, T, ch, e), NEW b \in Batch, NEW U,
         \/ /\ s \in b.sensors /\ U = T \cup {b.n}
            /\ \A t \in T : t < b.n
         \/ s \notin b.sensors /\ U = T
  PROVE  SampleInv(s, U, Append(ch, b), e)
<1> DEFINE k == Len(ch)
           new == Append(ch, b)
<1>1. /\ k \in Nat /\ DOMAIN ch = 1..k /\ DOMAIN new = 1..(k + 1)
      /\ new[k + 1] = b /\ \A i \in 1..k : new[i] = ch[i] /\ i \in 1..(k + 1)
      /\ \A i \in 1..(k + 1) : i \in 1..k \/ i = k + 1
  OBVIOUS
<1>2. b.n \in Nat \ {0} /\ T \subseteq U /\ \A t \in U : t \in T \/ t = b.n
  BY DEF Batch
<1>3. e.raw \in T \cup {0} /\ e.raw \in Nat
  BY DEF SampleInv
<1> HIDE DEF new, k
<1>4. ASSUME NEW n, Sent(s, T, ch, n) PROVE Sent(s, U, new, n)
  <2> SUFFICES ASSUME NEW t \in U, n < t
               PROVE  \E i \in DOMAIN new : new[i].n = t /\ s \in new[i].sensors
    BY DEF Sent
  <2>1. CASE t \in T
    <3>1. PICK i \in DOMAIN ch : ch[i].n = t /\ s \in ch[i].sensors
      BY <1>4, <2>1 DEF Sent
    <3> QED
      BY <1>1, <3>1
  <2>2. CASE t \notin T
    <3>1. t = b.n /\ s \in b.sensors
      BY <1>2, <2>2
    <3>2. k + 1 \in DOMAIN new
      BY <1>1
    <3> QED
      BY <1>1, <3>1, <3>2
  <2> QED
    BY <2>1, <2>2
<1>5. ASSUME s \in b.sensors PROVE e.raw < b.n /\ Sent(s, U, new, b.n)
  <2>1. U = T \cup {b.n} /\ \A t \in T : t < b.n
    BY <1>5
  <2>2. e.raw < b.n
    BY <1>2, <1>3, <2>1
  <2>3. \A t \in U : ~ (b.n < t)
    BY <1>2, <2>1
  <2> QED
    BY <2>2, <2>3 DEF Sent
<1>6. ASSUME NEW i \in DOMAIN new, s \in new[i].sensors
      PROVE  e.raw < new[i].n /\ Sent(s, U, new, new[i].n)
  <2>1. CASE i \in 1..k
    <3>1. e.raw < ch[i].n /\ Sent(s, T, ch, ch[i].n)
      BY <1>1, <1>6, <2>1 DEF SampleInv
    <3> QED
      BY <1>1, <1>4, <2>1, <3>1
  <2>2. CASE i = k + 1
    BY <1>1, <1>5, <1>6, <2>2
  <2> QED
    BY <1>1, <2>1, <2>2
<1>7. e.raw # 0 => Sent(s, U, new, e.raw)
  BY <1>4 DEF SampleInv
<1>8. /\ e.raw \in U \cup {0}
      /\ e.raw = 0 => e.at = 0
  BY <1>2, <1>3 DEF SampleInv
<1> QED
  BY <1>6, <1>7, <1>8 DEF SampleInv, new

\* The window of a sensor stays as it is when its device answers a later poll.
LEMMA MetricSent ==
  ASSUME NEW s, NEW T \in SUBSET Nat, NEW e, e.raw \in T \cup {0}, NEW w, NEW working,
         MetricInv(s, T, e, w, working), NEW n \in Nat, \A t \in T : t < n
  PROVE  MetricInv(s, T \cup {n}, e, w, working)
<1>1. ASSUME e.raw # 0
      PROVE  {t \in T \cup {n} : t <= e.raw} = {t \in T : t <= e.raw}
  <2>1. e.raw \in Nat /\ e.raw < n
    BY <1>1
  <2> QED
    BY <2>1
<1>2. \A v : EndsWith(v, T, e.raw) => EndsWith(v, T \cup {n}, e.raw)
  BY <1>1 DEF EndsWith
<1> QED
  BY <1>2 DEF MetricInv

\* The first batch is taken and has no sample of the sensor.
LEMMA SamplePassedBy ==
  ASSUME NEW s, NEW T \in SUBSET Nat, NEW ch \in Seq(Batch), ch # <<>>, NEW e,
         SampleInv(s, T, ch, e), s \notin Head(ch).sensors
  PROVE  SampleInv(s, T, Tail(ch), e)
<1> DEFINE k == Len(ch)
           rest == Tail(ch)
<1>1. /\ k \in Nat \ {0} /\ DOMAIN ch = 1..k /\ DOMAIN rest = 1..(k - 1)
      /\ Head(ch) = ch[1]
      /\ \A i \in 1..(k - 1) : rest[i] = ch[i + 1] /\ i + 1 \in 1..k
  OBVIOUS
<1> HIDE DEF k, rest
<1>2. ASSUME NEW i \in DOMAIN ch, s \in ch[i].sensors
      PROVE  \E j \in DOMAIN rest : rest[j] = ch[i]
  <2>1. i # 1
    BY <1>1, <1>2
  <2>2. i - 1 \in 1..(k - 1) /\ (i - 1) + 1 = i
    BY <1>1, <2>1
  <2> QED
    BY <1>1, <2>2
<1>3. ASSUME NEW n, Sent(s, T, ch, n) PROVE Sent(s, T, rest, n)
  <2> SUFFICES ASSUME NEW t \in T, n < t
               PROVE  \E j \in DOMAIN rest : rest[j].n = t /\ s \in rest[j].sensors
    BY DEF Sent
  <2>1. PICK i \in DOMAIN ch : ch[i].n = t /\ s \in ch[i].sensors
    BY <1>3 DEF Sent
  <2> QED
    BY <1>2, <2>1
<1>4. ASSUME NEW i \in DOMAIN rest, s \in rest[i].sensors
      PROVE  e.raw < rest[i].n /\ Sent(s, T, rest, rest[i].n)
  <2>1. i + 1 \in DOMAIN ch /\ rest[i] = ch[i + 1]
    BY <1>1
  <2>2. e.raw < ch[i + 1].n /\ Sent(s, T, ch, ch[i + 1].n)
    BY <1>4, <2>1 DEF SampleInv
  <2> QED
    BY <1>3, <2>1, <2>2
<1> QED
  BY <1>3, <1>4 DEF SampleInv, rest

\* It is taken and has one.
LEMMA SampleTaken ==
  ASSUME NEW s, NEW T \in SUBSET Nat, NEW ch \in Seq(Batch), ch # <<>>, NEW e,
         SampleInv(s, T, ch, e), s \in Head(ch).sensors, Head(ch).n \in T,
         \A i \in DOMAIN ch : 1 < i /\ s \in ch[i].sensors => ch[1].n < ch[i].n,
         NEW f, f.raw = Head(ch).n
  PROVE  /\ SampleInv(s, T, Tail(ch), f)
         /\ e.raw < Head(ch).n
         /\ \A t \in T : e.raw # 0 /\ e.raw < t => Head(ch).n <= t
<1> DEFINE k == Len(ch)
           rest == Tail(ch)
<1>1. /\ k \in Nat \ {0} /\ DOMAIN ch = 1..k /\ DOMAIN rest = 1..(k - 1)
      /\ Head(ch) = ch[1] /\ 1 \in DOMAIN ch
      /\ \A i \in 1..(k - 1) : rest[i] = ch[i + 1] /\ i + 1 \in 1..k /\ 1 < i + 1
  OBVIOUS
<1>2. \A i \in DOMAIN ch : ch[i].n \in Nat \ {0}
  <2>1. \A i \in DOMAIN ch : ch[i] \in Batch
    OBVIOUS
  <2> QED
    BY <2>1 DEF Batch
<1> HIDE DEF k, rest
<1>3. ASSUME NEW n \in Nat, Sent(s, T, ch, n), ch[1].n <= n
      PROVE  Sent(s, T, rest, n)
  <2> SUFFICES ASSUME NEW t \in T, n < t
               PROVE  \E j \in DOMAIN rest : rest[j].n = t /\ s \in rest[j].sensors
    BY DEF Sent
  <2>1. PICK i \in DOMAIN ch : ch[i].n = t /\ s \in ch[i].sensors
    BY <1>3 DEF Sent
  <2>2. i # 1
    BY <1>1, <1>2, <1>3, <2>1
  <2>3. i - 1 \in 1..(k - 1) /\ (i - 1) + 1 = i
    BY <1>1, <2>2
  <2> QED
    BY <1>1, <2>1, <2>3
<1>4. ASSUME NEW i \in DOMAIN rest, s \in rest[i].sensors
      PROVE  f.raw < rest[i].n /\ Sent(s, T, rest, rest[i].n)
  <2>1. i + 1 \in DOMAIN ch /\ rest[i] = ch[i + 1] /\ 1 < i + 1
    BY <1>1
  <2>2. ch[1].n < ch[i + 1].n /\ Sent(s, T, ch, ch[i + 1].n)
    BY <1>4, <2>1 DEF SampleInv
  <2>3. ch[i + 1].n \in Nat /\ ch[1].n <= ch[i + 1].n
    BY <1>1, <1>2, <2>1, <2>2
  <2> QED
    BY <1>1, <1>3, <2>1, <2>2, <2>3
<1>5. e.raw < ch[1].n /\ Sent(s, T, ch, ch[1].n)
  BY <1>1 DEF SampleInv
<1>6. Sent(s, T, rest, f.raw)
  <2>1. ch[1].n \in Nat /\ ch[1].n <= ch[1].n
    BY <1>1, <1>2
  <2> QED
    BY <1>1, <1>3, <1>5, <2>1
<1>7. ASSUME NEW t \in T, e.raw # 0, e.raw < t PROVE ch[1].n <= t
  <2>1. PICK i \in DOMAIN ch : ch[i].n = t /\ s \in ch[i].sensors
    BY <1>7 DEF SampleInv, Sent
  <2>2. i = 1 \/ 1 < i
    BY <1>1
  <2>3. CASE i = 1
    BY <1>2, <2>1, <2>3
  <2>4. CASE 1 < i
    BY <1>1, <1>2, <2>1, <2>4
  <2> QED
    BY <2>2, <2>3, <2>4
<1>8. f.raw \in T /\ f.raw # 0
  BY <1>1, <1>2
<1> QED
  BY <1>1, <1>4, <1>5, <1>6, <1>7, <1>8 DEF SampleInv, rest

-----------------------------------------------------------------------------
(* The inductive invariant *)

TypesInv == /\ now \in Nat \ {0}
            /\ polled \in [DeviceSet -> SUBSET (1..now)]
            /\ chan \in Seq(Batch)
            /\ IsStore(store)

\* A cache with the revision of the configuration is built from it; the order
\* of evaluation never changes, because updates leave computed sensors alone.
CacheInv ==
  /\ pipelines = [revision |-> pipelines.revision, content |-> pipelines.content]
  /\ pipelines.revision \in 0..revision
  /\ pipelines.content = [s \in DOMAIN pipelines.content |-> pipelines.content[s]]
  /\ DOMAIN pipelines.content \subseteq config.pipes
  /\ pipelines.revision = revision => DOMAIN pipelines.content = config.pipes
  /\ engine.content = Sorted(config.computed)

\* Batches are those of polls; of two with a sensor in common the later one is
\* of a later poll.
ChanInv ==
  /\ \A i \in DOMAIN chan : \E d \in DeviceSet :
       chan[i].n \in polled[d] /\ chan[i].sensors \subseteq SensorsOf(config, d)
  /\ \A i, j \in DOMAIN chan :
       i < j /\ chan[i].sensors \cap chan[j].sensors # {} => chan[i].n < chan[j].n

WindowOf(content, s) == IF s \in DOMAIN content THEN content[s] ELSE <<>>

SensorsInv ==
  \A d \in DeviceSet : \A s \in SensorsOf(config, d) :
    /\ SampleInv(s, polled[d], chan, store[s])
    /\ MetricInv(s, polled[d], store[s], WindowOf(pipelines.content, s),
                 s \in config.pipes \ Failing)

\* A sensor without a register has no raw sample, nor anything else unless it
\* is computed.
OthersInv ==
  \A s \in Sensors \ KnownSensors(config) :
    /\ store[s].raw = 0
    /\ s \notin Ids(config.computed) => store[s].metric = NoMetric /\ store[s].at = 0

DownInv == ~ up => /\ chan = <<>>
                   /\ store = EmptyStore
                   /\ polled = [d \in DeviceSet |-> {}]

ConsumerInv == /\ TypesInv
               /\ CacheInv
               /\ ChanInv
               /\ SensorsInv
               /\ OthersInv
               /\ DownInv
               /\ ComputedFollowsInputs

\* What a valid configuration is to these proofs.
LEMMA ValidConfig ==
  ASSUME NEW c \in Config, Valid(c)
  PROVE  /\ UniqueSensors(c) /\ Acyclic(c.computed)
         /\ c.pipes \subseteq KnownSensors(c)
         /\ \A j \in DOMAIN c.computed : c.computed[j].inputs # <<>>
  BY DEF Valid, ComputedValid

\* A store without samples, for any configuration.
LEMMA NothingStored ==
  ASSUME NEW c \in Config, Valid(c)
  PROVE  /\ IsStore(EmptyStore)
         /\ \A s \in Sensors : EmptyStore[s].raw = 0 /\ EmptyStore[s].metric = NoMetric
                               /\ EmptyStore[s].at = 0
         /\ \A j \in DOMAIN c.computed : ~ Evaluable(EmptyStore, c.computed[j])
<1>1. \A s \in Sensors : /\ EmptyStore[s] = [raw |-> 0, metric |-> NoMetric, at |-> 0]
                         /\ EmptyStore[s].raw = 0 /\ EmptyStore[s].metric = NoMetric
                         /\ EmptyStore[s].at = 0
  BY DEF EmptyStore
<1>2. IsStore(EmptyStore)
  <2>1. \A s \in Sensors : IsEntry(EmptyStore[s])
    BY <1>1 DEF IsEntry
  <2>2. EmptyStore = [s \in Sensors |-> EmptyStore[s]]
    BY DEF EmptyStore
  <2> QED
    BY <2>1, <2>2 DEF IsStore
<1>3. ASSUME NEW j \in DOMAIN c.computed PROVE ~ Evaluable(EmptyStore, c.computed[j])
  <2>1. c.computed[j].inputs # <<>> /\ c.computed[j].inputs \in Seq(Sensors)
    BY ValidConfig, SensorsApart, ListElement
  <2>2. 1 \in DOMAIN c.computed[j].inputs /\ c.computed[j].inputs[1] \in Sensors
    BY <2>1
  <2>3. ValueOf(EmptyStore, c.computed[j].inputs[1]) = <<>>
    BY <1>1, <2>2 DEF ValueOf
  <2> QED
    BY <2>2, <2>3 DEF Evaluable
<1> QED
  BY <1>1, <1>2, <1>3

\* A gateway that starts, or has stopped.
Empty == /\ config \in Config /\ Valid(config) /\ now \in Nat \ {0} /\ revision \in Nat
         /\ chan = <<>> /\ store = EmptyStore /\ polled = [d \in DeviceSet |-> {}]
         /\ pipelines = NewPipelines(config) /\ engine = NewEngine(config)

\* There is nothing to go wrong in it.
LEMMA NothingYet ==
  ASSUME Empty
  PROVE  ConsumerInv
<1> USE DEF Empty
<1>1. TypesInv
  BY NothingStored DEF TypesInv
<1>2. CacheInv
  BY DEF CacheInv, NewPipelines, NewEngine, BuildPipelines
<1>3. ChanInv
  BY DEF ChanInv
<1>4. ASSUME NEW d \in DeviceSet, NEW s \in SensorsOf(config, d)
      PROVE  /\ SampleInv(s, polled[d], chan, store[s])
             /\ MetricInv(s, polled[d], store[s], WindowOf(pipelines.content, s),
                          s \in config.pipes \ Failing)
  <2>1. s \in Sensors
    BY ValidConfig, SensorsApart
  <2>2. store[s].raw = 0 /\ store[s].metric = NoMetric /\ store[s].at = 0
    BY <2>1, NothingStored
  <2>3. WindowOf(pipelines.content, s) = <<>>
    BY DEF WindowOf, NewPipelines, BuildPipelines
  <2>4. DOMAIN chan = {}
    OBVIOUS
  <2> QED
    BY <2>2, <2>3, <2>4 DEF SampleInv, MetricInv
<1>5. OthersInv
  BY NothingStored DEF OthersInv
<1>6. ComputedFollowsInputs
  BY NothingStored DEF ComputedFollowsInputs
<1> QED
  BY <1>1, <1>2, <1>3, <1>4, <1>5, <1>6 DEF ConsumerInv, SensorsInv, DownInv

\* The same after a step that leaves the gateway so.
LEMMA NothingYetNext == Empty' => ConsumerInv'
<1>1. Empty => ConsumerInv
  BY NothingYet
<1> QED
  BY <1>1, PTL

-----------------------------------------------------------------------------
(* Steps *)

\* ComputedFollowsInputs of some computed sensors and some store.
Followed(computed, st) ==
  \A j \in DOMAIN computed :
    Evaluable(st, computed[j]) =>
      st[computed[j].sensor].metric = Evaluate(st, computed[j])

\* It says the same of the state after a step.
LEMMA FollowsPrimed ==
  /\ ComputedFollowsInputs <=> Followed(config.computed, store)
  /\ ComputedFollowsInputs' <=> Followed(config'.computed, store')
BY DEF ComputedFollowsInputs, Followed, Evaluable, Evaluate, ValueOf

\* A poll puts a later sample of every sensor of its device on its way.
LEMMA PollKeeps ==
  ASSUME ConfigInv, ConsumerInv, NEW d \in DeviceSet, Poll(d)
  PROVE  ConsumerInv'
<1> DEFINE b == [n |-> now, sensors |-> SensorsOf(config, d)]
<1>1. /\ up /\ now \notin polled[d] /\ UNCHANGED <<configVars, now, pipelines, engine, store>>
      /\ polled' = [polled EXCEPT ![d] = @ \cup {now}]
      /\ chan' = Append(chan, b)
  BY DEF Poll
<1>2. /\ now \in Nat \ {0} /\ polled \in [DeviceSet -> SUBSET (1..now)]
      /\ chan \in Seq(Batch) /\ IsStore(store)
  BY DEF ConsumerInv, TypesInv
<1>3. /\ UNCHANGED <<config, revision, file, up>>
  BY <1>1 DEF configVars
<1>4. config \in Config /\ Valid(config) /\ UniqueSensors(config)
  BY ValidConfig DEF ConfigInv
<1>5. b \in Batch /\ b.n = now /\ b.sensors = SensorsOf(config, d)
  <2>1. SensorsOf(config, d) \in SUBSET Sensors
    BY <1>4, SensorsApart
  <2> QED
    BY <1>2, <2>1 DEF Batch
<1>6. /\ polled'[d] = polled[d] \cup {now}
      /\ \A e \in DeviceSet : e # d => polled'[e] = polled[e]
      /\ \A e \in DeviceSet : polled[e] \subseteq polled'[e] /\ polled[e] \in SUBSET Nat
      /\ \A t \in polled[d] : t < now
  <2>1. \A t \in polled[d] : t \in 1..now /\ t # now
    BY <1>1, <1>2
  <2> QED
    BY <1>1, <1>2, <2>1
<1> HIDE DEF b
<1>7. TypesInv'
  <2>1. polled' \in [DeviceSet -> SUBSET (1..now)]
    <3>1. polled[d] \cup {now} \in SUBSET (1..now)
      BY <1>2
    <3> QED
      BY <1>1, <1>2, <3>1
  <2>2. chan' \in Seq(Batch)
    BY <1>1, <1>2, <1>5
  <2> QED
    BY <1>1, <1>2, <2>1, <2>2 DEF TypesInv, IsStore, IsEntry
<1>8. CacheInv'
  BY <1>1, <1>3 DEF ConsumerInv, CacheInv
<1>9. ChanInv'
  <2> DEFINE k == Len(chan)
  <2>1. /\ k \in Nat /\ DOMAIN chan = 1..k /\ DOMAIN chan' = 1..(k + 1)
        /\ chan'[k + 1] = b /\ \A i \in 1..k : chan'[i] = chan[i]
        /\ \A i \in 1..(k + 1) : i \in 1..k \/ i = k + 1
    BY <1>1, <1>2
  <2> HIDE DEF k
  <2>2. \A i \in 1..k : \E e \in DeviceSet :
           chan[i].n \in polled[e] /\ chan[i].sensors \subseteq SensorsOf(config, e)
    BY <2>1 DEF ConsumerInv, ChanInv
  <2>3. ASSUME NEW i \in 1..(k + 1)
        PROVE  \E e \in DeviceSet : /\ chan'[i].n \in polled'[e]
                                    /\ chan'[i].sensors \subseteq SensorsOf(config', e)
    BY <1>3, <1>5, <1>6, <2>1, <2>2
  <2>4. ASSUME NEW i \in 1..(k + 1), NEW j \in 1..(k + 1), i < j,
               chan'[i].sensors \cap chan'[j].sensors # {}
        PROVE  chan'[i].n < chan'[j].n
    <3>1. i \in 1..k
      BY <2>1, <2>4
    <3>2. CASE j \in 1..k
      <4>1. chan[i].n < chan[j].n
        BY <2>1, <2>4, <3>1, <3>2 DEF ConsumerInv, ChanInv
      <4> QED
        BY <2>1, <3>1, <3>2, <4>1
    <3>3. CASE j = k + 1
      <4>1. PICK e \in DeviceSet :
               chan[i].n \in polled[e] /\ chan[i].sensors \subseteq SensorsOf(config, e)
        BY <2>2, <3>1
      <4>2. SensorsOf(config, e) \cap SensorsOf(config, d) # {}
        BY <1>5, <2>1, <2>4, <3>1, <3>3, <4>1
      <4>3. e = d
        BY <1>4, <4>2, SensorsApart
      <4> QED
        BY <1>5, <1>6, <2>1, <3>1, <3>3, <4>1, <4>3
    <3> QED
      BY <2>1, <3>2, <3>3
  <2> QED
    BY <2>1, <2>3, <2>4 DEF ChanInv
<1>10. SensorsInv'
  <2> SUFFICES ASSUME NEW e \in DeviceSet, NEW s \in SensorsOf(config, e)
               PROVE  /\ SampleInv(s, polled'[e], chan', store[s])
                      /\ MetricInv(s, polled'[e], store[s],
                                   WindowOf(pipelines.content, s),
                                   s \in config.pipes \ Failing)
    BY <1>1, <1>3 DEF SensorsInv
  <2>1. /\ SampleInv(s, polled[e], chan, store[s])
        /\ MetricInv(s, polled[e], store[s], WindowOf(pipelines.content, s),
                     s \in config.pipes \ Failing)
    BY DEF ConsumerInv, SensorsInv
  <2>2. polled[e] \in SUBSET Nat
    BY <1>6
  <2>3. CASE e = d
    <3>1. SampleInv(s, polled'[e], chan', store[s])
      BY <1>1, <1>2, <1>5, <1>6, <2>1, <2>2, <2>3, SampleSent
    <3>2. store[s].raw \in polled[e] \cup {0}
      BY <2>1 DEF SampleInv
    <3>3. MetricInv(s, polled[e] \cup {now}, store[s], WindowOf(pipelines.content, s),
                    s \in config.pipes \ Failing)
      BY <1>2, <1>6, <2>1, <2>2, <2>3, <3>2, MetricSent
    <3> QED
      BY <1>6, <2>3, <3>1, <3>3
  <2>4. CASE e # d
    <3>1. s \notin b.sensors
      BY <1>4, <1>5, <2>4, SensorsApart
    <3>2. SampleInv(s, polled'[e], chan', store[s])
      BY <1>1, <1>2, <1>5, <1>6, <2>1, <2>2, <2>4, <3>1, SampleSent
    <3> QED
      BY <1>6, <2>1, <2>4, <3>2
  <2> QED
    BY <2>3, <2>4
<1>11. OthersInv' /\ ComputedFollowsInputs'
  BY <1>1, <1>3 DEF ConsumerInv, OthersInv, ComputedFollowsInputs, Evaluable,
                    Evaluate, ValueOf
<1>12. DownInv'
  BY <1>1, <1>3 DEF DownInv
<1> QED
  BY <1>7, <1>8, <1>9, <1>10, <1>11, <1>12 DEF ConsumerInv

\* What leaves configuration, samples and caches alone.
LEMMA SamePlaces ==
  ASSUME ConsumerInv,
         UNCHANGED <<config, revision, up, polled, chan, pipelines, engine, store>>,
         now' \in Nat, now <= now'
  PROVE  ConsumerInv'
<1>1. TypesInv'
  <2>1. now \in Nat \ {0} /\ polled \in [DeviceSet -> SUBSET (1..now)]
        /\ chan \in Seq(Batch) /\ IsStore(store)
    BY DEF ConsumerInv, TypesInv
  <2>2. now' \in Nat \ {0} /\ 1..now \subseteq 1..now'
    BY <2>1
  <2>3. polled' \in [DeviceSet -> SUBSET (1..now')]
    BY <2>1, <2>2
  <2> QED
    BY <2>1, <2>2, <2>3 DEF TypesInv, IsStore, IsEntry
<1>2. CacheInv' /\ ChanInv' /\ OthersInv' /\ DownInv' /\ ComputedFollowsInputs'
  BY DEF ConsumerInv, CacheInv, ChanInv, OthersInv, DownInv, ComputedFollowsInputs,
         Evaluable, Evaluate, ValueOf
<1>3. SensorsInv'
  BY DEF ConsumerInv, SensorsInv
<1> QED
  BY <1>1, <1>2, <1>3 DEF ConsumerInv

\* The sensors of a configuration with another register.
LEMMA AddedSensors ==
  ASSUME NEW c \in Config, NEW q \in Additions, Addable(c, q),
         NEW n, n = WithRegister(c, q)
  PROVE  /\ n.computed = c.computed
         /\ n.pipes = c.pipes \cup q.pipe /\ q.pipe \subseteq {q.register.sensor}
         /\ q.device \in DeviceSet
         /\ \A d \in DeviceSet : SensorsOf(n, d) =
              SensorsOf(c, d) \cup (IF d = q.device THEN {q.register.sensor} ELSE {})
<1>1. /\ c.regs \in [DeviceSet -> Seq(Register)] /\ q.device \in DeviceSet
      /\ q.pipe \subseteq {q.register.sensor}
  BY DEF Config, Addable
<1>2. /\ n.regs = [c.regs EXCEPT ![q.device] = Append(@, q.register)]
      /\ n.computed = c.computed /\ n.pipes = c.pipes \cup q.pipe
  BY DEF WithRegister, Config
<1>3. ASSUME NEW d \in DeviceSet, d # q.device
      PROVE  SensorsOf(n, d) = SensorsOf(c, d)
  <2>1. n.regs[d] = c.regs[d]
    BY <1>1, <1>2, <1>3
  <2> QED
    BY <2>1 DEF SensorsOf
<1>4. SensorsOf(n, q.device) = SensorsOf(c, q.device) \cup {q.register.sensor}
  <2> DEFINE old == c.regs[q.device]
             k == Len(old)
             new == n.regs[q.device]
  <2>1. old \in Seq(Register) /\ new = Append(old, q.register)
    BY <1>1, <1>2
  <2> HIDE DEF new, old
  <2>2. /\ DOMAIN old = 1..k /\ DOMAIN new = 1..(k + 1) /\ k \in Nat
        /\ new[k + 1] = q.register /\ k + 1 \in 1..(k + 1)
        /\ \A i \in 1..k : new[i] = old[i] /\ i \in 1..(k + 1)
        /\ \A i \in 1..(k + 1) : i \in 1..k \/ i = k + 1
    BY <2>1
  <2> HIDE DEF k
  <2>3. /\ SensorsOf(n, q.device) = {new[i].sensor : i \in 1..(k + 1)}
        /\ SensorsOf(c, q.device) = {old[i].sensor : i \in 1..k}
    BY <2>2 DEF SensorsOf, ToSet, new, old
  <2> QED
    BY <2>2, <2>3
<1> QED
  BY <1>1, <1>2, <1>3, <1>4

\* A hot update adds a sensor without samples, and makes the caches out of date.
LEMMA AddKeeps ==
  ASSUME ConfigInv, ConfigInv', ConsumerInv, NEW q \in Additions, HotAdd(q),
         UNCHANGED consumerVars
  PROVE  ConsumerInv'
<1> DEFINE x == q.register.sensor
<1>1. /\ config' = WithRegister(config, q) /\ Addable(config, q)
      /\ revision' = revision + 1 /\ up /\ UNCHANGED up
      /\ UNCHANGED <<now, polled, chan, pipelines, engine, store>>
  BY DEF HotAdd, Accepted, consumerVars
<1>2. /\ config \in Config /\ Valid(config) /\ UniqueSensors(config)
      /\ config' \in Config /\ Valid(config') /\ UniqueSensors(config')
      /\ revision \in Nat
  BY ValidConfig DEF ConfigInv
<1>3. /\ config'.computed = config.computed
      /\ config'.pipes = config.pipes \cup q.pipe /\ q.pipe \subseteq {x}
      /\ q.device \in DeviceSet
      /\ \A d \in DeviceSet : SensorsOf(config', d) =
           SensorsOf(config, d) \cup (IF d = q.device THEN {x} ELSE {})
  BY <1>1, <1>2, AddedSensors
<1>4. /\ x \notin KnownSensors(config) /\ x \in Sensors
      /\ x \in KnownSensors(config') /\ x \notin Ids(config.computed)
      /\ KnownSensors(config) \subseteq KnownSensors(config')
  <2>1. x \in SensorsOf(config', q.device)
    BY <1>3
  <2>2. x \in KnownSensors(config') /\ KnownSensors(config') \subseteq Sensors
        /\ KnownSensors(config') \cap Ids(config'.computed) = {}
    BY <1>2, <1>3, <2>1, SensorsApart
  <2>3. ASSUME NEW s \in KnownSensors(config) PROVE s \in KnownSensors(config')
    <3>1. PICK d \in DeviceSet : s \in SensorsOf(config, d)
      BY <1>2, SensorsApart
    <3>2. s \in SensorsOf(config', d)
      BY <1>3, <3>1
    <3> QED
      BY <1>2, <3>2, SensorsApart
  <2> QED
    BY <1>1, <1>3, <2>2, <2>3 DEF Addable
<1>5. config.pipes \subseteq KnownSensors(config)
  BY <1>2, ValidConfig
<1> HIDE DEF x
<1>6. TypesInv'
  BY <1>1 DEF ConsumerInv, TypesInv, IsStore, IsEntry
<1>7. CacheInv'
  <2>1. pipelines.revision \in 0..revision' /\ pipelines.revision # revision'
    BY <1>1, <1>2 DEF ConsumerInv, CacheInv
  <2> QED
    BY <1>1, <1>3, <2>1 DEF ConsumerInv, CacheInv
<1>8. ChanInv'
  BY <1>1, <1>3 DEF ConsumerInv, ChanInv
<1>9. OthersInv' /\ ComputedFollowsInputs' /\ DownInv'
  <2>1. OthersInv'
    BY <1>1, <1>3, <1>4 DEF ConsumerInv, OthersInv
  <2>2. ComputedFollowsInputs'
    BY <1>1, <1>3, FollowsPrimed DEF ConsumerInv
  <2> QED
    BY <1>1, <2>1, <2>2 DEF DownInv
<1>10. SensorsInv'
  <2> SUFFICES ASSUME NEW d \in DeviceSet, NEW s \in SensorsOf(config', d)
               PROVE  /\ SampleInv(s, polled[d], chan, store[s])
                      /\ MetricInv(s, polled[d], store[s],
                                   WindowOf(pipelines.content, s),
                                   s \in config'.pipes \ Failing)
    BY <1>1 DEF SensorsInv
  <2>1. CASE s \in SensorsOf(config, d)
    <3>1. s # x
      BY <1>2, <1>4, <2>1, SensorsApart
    <3>2. s \in config'.pipes \ Failing <=> s \in config.pipes \ Failing
      BY <1>3, <3>1
    <3>3. /\ SampleInv(s, polled[d], chan, store[s])
          /\ MetricInv(s, polled[d], store[s], WindowOf(pipelines.content, s),
                       s \in config.pipes \ Failing)
      BY <2>1 DEF ConsumerInv, SensorsInv
    <3> QED
      BY <3>2, <3>3 DEF MetricInv
  <2>2. CASE s \notin SensorsOf(config, d)
    <3>1. s = x
      BY <1>3, <2>2
    <3>2. store[s].raw = 0 /\ store[s].metric = NoMetric /\ store[s].at = 0
      BY <1>4, <3>1 DEF ConsumerInv, OthersInv
    <3>3. WindowOf(pipelines.content, s) = <<>>
      BY <1>4, <1>5, <3>1 DEF ConsumerInv, CacheInv, WindowOf
    <3>4. \A i \in DOMAIN chan : s \notin chan[i].sensors
      BY <1>2, <1>4, <3>1, SensorsApart DEF ConsumerInv, ChanInv
    <3> QED
      BY <3>2, <3>3, <3>4 DEF SampleInv, MetricInv
  <2> QED
    BY <2>1, <2>2
<1> QED
  BY <1>6, <1>7, <1>8, <1>9, <1>10 DEF ConsumerInv

\* The batch in hand: the caches and the store before the computed sensors run.
Cached == Refresh(pipelines, BuildPipelines(config)).content

Filtered(b) == Filter(Cached, b)

Stored(b) == StoreMetrics(StoreRaw(store, b), Filtered(b), b)

\* The windows of the refreshed cache: those it had, or new ones.
LEMMA CachedWindows ==
  ASSUME ConsumerInv
  PROVE  /\ Refresh(pipelines, BuildPipelines(config)) =
              [revision |-> revision, content |-> Cached]
         /\ Cached = [s \in config.pipes |-> Cached[s]]
         /\ \A s \in config.pipes :
              Cached[s] \in {<<>>, WindowOf(pipelines.content, s)}
<1>1. CASE pipelines.revision = revision
  <2>1. Refresh(pipelines, BuildPipelines(config)) = pipelines
    BY <1>1 DEF Refresh
  <2> QED
    BY <1>1, <2>1 DEF Cached, ConsumerInv, CacheInv, WindowOf
<1>2. CASE pipelines.revision # revision
  <2>1. Refresh(pipelines, BuildPipelines(config)) =
           [revision |-> revision, content |-> BuildPipelines(config)]
    BY <1>2 DEF Refresh
  <2> QED
    BY <2>1 DEF Cached, BuildPipelines
<1> QED
  BY <1>1, <1>2

\* The windows after the batch.
LEMMA FilteredWindows ==
  ASSUME ConsumerInv, NEW b
  PROVE  /\ Filtered(b) = [s \in config.pipes |-> Filtered(b)[s]]
         /\ \A s \in config.pipes :
              Filtered(b)[s] = IF s \in b.sensors THEN Push(Cached[s], b.n)
                               ELSE Cached[s]
<1>1. DOMAIN Cached = config.pipes
  BY CachedWindows
<1> QED
  BY <1>1 DEF Filtered, Filter

\* The store after the samples and metrics of the batch.
LEMMA StoredBatch ==
  ASSUME ConsumerInv, NEW b \in Batch
  PROVE  /\ IsStore(Stored(b))
         /\ \A s \in Sensors \ b.sensors : Stored(b)[s] = store[s]
         /\ \A s \in Sensors \cap b.sensors :
              /\ Stored(b)[s].raw = b.n
              /\ s \in config.pipes \ Failing =>
                   Stored(b)[s].metric = <<s, Filtered(b)[s]>>
              /\ s \notin config.pipes \ Failing =>
                   Stored(b)[s].metric = store[s].metric
<1> DEFINE fresh == StoreRaw(store, b)
           new == Stored(b)
           working == (b.sensors \cap config.pipes) \ Failing
<1>1. IsStore(store) /\ b.n \in Nat
  BY DEF ConsumerInv, TypesInv, Batch
<1>2. fresh = [s \in Sensors |-> fresh[s]]
  BY DEF StoreRaw
<1>3. ASSUME NEW s \in Sensors \cap b.sensors
      PROVE  fresh[s].raw = b.n /\ fresh[s].metric = store[s].metric /\ IsEntry(fresh[s])
  <2>1. store[s] = [raw |-> store[s].raw, metric |-> store[s].metric, at |-> store[s].at]
        /\ store[s].at \in Nat
    BY <1>1 DEF IsStore, IsEntry
  <2>2. fresh[s] = [store[s] EXCEPT !.raw = b.n]
    BY DEF StoreRaw
  <2>3. fresh[s] = [raw |-> b.n, metric |-> store[s].metric, at |-> store[s].at]
    BY <2>1, <2>2
  <2> QED
    BY <1>1, <2>1, <2>3 DEF IsEntry
<1>4. ASSUME NEW s \in Sensors \ b.sensors
      PROVE  fresh[s] = store[s] /\ IsEntry(fresh[s])
  BY <1>1 DEF StoreRaw, IsStore
<1> HIDE DEF fresh
<1>5. new = [s \in Sensors |->
               IF s \in working
               THEN [raw |-> b.n, metric |-> <<s, Filtered(b)[s]>>, at |-> b.n]
               ELSE fresh[s]]
  <2>1. DOMAIN Filtered(b) = config.pipes
    BY FilteredWindows
  <2> QED
    BY <2>1 DEF Stored, StoreMetrics, fresh
<1> HIDE DEF new, working
<1>6. ASSUME NEW s \in Sensors, s \in working
      PROVE  /\ new[s].raw = b.n /\ new[s].metric = <<s, Filtered(b)[s]>>
             /\ IsEntry(new[s])
  <2> DEFINE e == [raw |-> b.n, metric |-> <<s, Filtered(b)[s]>>, at |-> b.n]
  <2>1. IsEntry(e) /\ e.raw = b.n /\ e.metric = <<s, Filtered(b)[s]>>
    BY <1>1 DEF IsEntry
  <2>2. new[s] = e
    BY <1>5, <1>6
  <2> HIDE DEF e
  <2> QED
    BY <2>1, <2>2
<1>7. ASSUME NEW s \in Sensors, s \notin working
      PROVE  new[s] = fresh[s]
  BY <1>5, <1>7
<1>8. \A s \in Sensors : IsEntry(new[s])
  BY <1>3, <1>4, <1>6, <1>7
<1>9. new = [s \in Sensors |-> new[s]]
  BY <1>5
<1>10. IsStore(new)
  BY <1>8, <1>9 DEF IsStore
<1>11. \A s \in Sensors \ b.sensors : new[s] = store[s]
  BY <1>4, <1>7 DEF working
<1>12. \A s \in Sensors \cap b.sensors :
         /\ new[s].raw = b.n
         /\ s \in config.pipes \ Failing => new[s].metric = <<s, Filtered(b)[s]>>
         /\ s \notin config.pipes \ Failing => new[s].metric = store[s].metric
  BY <1>3, <1>6, <1>7 DEF working
<1> QED
  BY <1>10, <1>11, <1>12 DEF new

\* What a batch does to the store: a sensor with a register gets its sample and
\* its metric, and the computed sensors follow.
LEMMA ConsumeStores ==
  ASSUME ConfigInv, ConsumerInv, Consume
  PROVE  /\ chan # <<>> /\ Head(chan) \in Batch /\ chan' = Tail(chan) /\ up
         /\ UNCHANGED <<config, revision, file, up, now, polled>>
         /\ pipelines' = [revision |-> revision, content |-> Filtered(Head(chan))]
         /\ engine'.content = Sorted(config.computed)
         /\ IsStore(store')
         /\ \A s \in Sensors \ Ids(config.computed) : store'[s] = Stored(Head(chan))[s]
         /\ \A s \in Sensors : store'[s].raw \in {0, Stored(Head(chan))[s].raw}
         /\ Followed(config.computed, store')
<1> DEFINE b == Head(chan)
<1>1. /\ up /\ chan # <<>> /\ chan' = Tail(chan) /\ UNCHANGED <<configVars, now, polled>>
      /\ engine' = Refresh(engine, Sorted(config.computed))
      /\ store' = RunComputed(Stored(b), engine'.content)
      /\ pipelines' = [Refresh(pipelines, BuildPipelines(config)) EXCEPT
                         !.content = Filtered(b)]
  BY DEF Consume, HandleBatch, Stored, Filtered, Cached
<1>2. b \in Batch /\ now \in Nat
  BY <1>1 DEF ConsumerInv, TypesInv
<1> HIDE DEF b
<1>3. UNCHANGED <<config, revision, file, up>>
  BY <1>1 DEF configVars
<1>4. engine'.content = Sorted(config.computed)
  BY <1>1 DEF Refresh, ConsumerInv, CacheInv
<1>5. pipelines' = [revision |-> revision, content |-> Filtered(b)]
  <2>1. Refresh(pipelines, BuildPipelines(config)) =
          [revision |-> revision, content |-> Cached]
    BY CachedWindows
  <2> QED
    BY <1>1, <2>1
<1>6. /\ config.computed \in Lists(Sensors) /\ Acyclic(config.computed)
      /\ IsStore(Stored(b))
  BY <1>2, ValidConfig, SensorsApart, StoredBatch DEF ConfigInv
<1>7. store' = RunComputed(Stored(b), BuildOrder(config.computed))
  BY <1>1, <1>4 DEF Sorted
<1>8. /\ IsStore(store')
      /\ \A s \in Sensors \ Ids(config.computed) : store'[s] = Stored(b)[s]
      /\ \A s \in Sensors : store'[s].raw \in {0, Stored(b)[s].raw}
      /\ \A j \in DOMAIN config.computed : Evaluable(store', config.computed[j]) =>
           store'[config.computed[j].sensor].metric =
             Evaluate(store', config.computed[j])
  BY <1>2, <1>6, <1>7, RoundComputes
<1>9. Followed(config.computed, store')
  BY <1>8 DEF Followed
<1> QED
  BY <1>1, <1>2, <1>3, <1>4, <1>5, <1>8, <1>9 DEF b

\* A batch keeps the invariant, and makes no raw sample older.
LEMMA ConsumeKeeps ==
  ASSUME ConfigInv, ConsumerInv, Consume
  PROVE  /\ ConsumerInv'
         /\ \A s \in Sensors : store'[s].raw >= store[s].raw
<1> DEFINE b == Head(chan)
<1>1. /\ chan # <<>> /\ b \in Batch /\ chan' = Tail(chan) /\ up
      /\ UNCHANGED <<config, revision, file, up, now, polled>>
      /\ pipelines' = [revision |-> revision, content |-> Filtered(b)]
      /\ engine'.content = Sorted(config.computed)
      /\ IsStore(store')
      /\ \A s \in Sensors \ Ids(config.computed) : store'[s] = Stored(b)[s]
      /\ \A s \in Sensors : store'[s].raw \in {0, Stored(b)[s].raw}
      /\ Followed(config.computed, store')
  BY ConsumeStores
<1>2. /\ config \in Config /\ Valid(config) /\ UniqueSensors(config)
      /\ revision \in Nat
  BY ValidConfig DEF ConfigInv
<1>3. /\ now \in Nat \ {0} /\ polled \in [DeviceSet -> SUBSET (1..now)]
      /\ chan \in Seq(Batch) /\ IsStore(store)
  BY DEF ConsumerInv, TypesInv
<1>4. /\ Len(chan) \in Nat \ {0} /\ DOMAIN chan = 1..Len(chan)
      /\ DOMAIN chan' = 1..(Len(chan) - 1) /\ b = chan[1] /\ 1 \in DOMAIN chan
      /\ \A i \in DOMAIN chan' : chan'[i] = chan[i + 1] /\ i + 1 \in DOMAIN chan
      /\ \A i \in DOMAIN chan' : i \in Nat
  BY <1>1, <1>3
<1> HIDE DEF b
<1>5. PICK origin \in DeviceSet :
        b.n \in polled[origin] /\ b.sensors \subseteq SensorsOf(config, origin)
  BY <1>4 DEF ConsumerInv, ChanInv
<1>6. /\ b.sensors \subseteq KnownSensors(config) /\ KnownSensors(config) \subseteq Sensors
      /\ KnownSensors(config) \cap Ids(config.computed) = {}
  BY <1>2, <1>5, SensorsApart
<1>7. /\ \A s \in KnownSensors(config) : store'[s] = Stored(b)[s]
      /\ \A s \in Sensors \ b.sensors : Stored(b)[s] = store[s]
      /\ \A s \in Sensors \cap b.sensors :
              /\ Stored(b)[s].raw = b.n
              /\ s \in config.pipes \ Failing =>
                   Stored(b)[s].metric = <<s, Filtered(b)[s]>>
              /\ s \notin config.pipes \ Failing =>
                   Stored(b)[s].metric = store[s].metric
  BY <1>1, <1>6, StoredBatch
<1>8. TypesInv'
  <2>1. chan' \in Seq(Batch)
    BY <1>1, <1>3
  <2> QED
    BY <1>1, <1>3, <2>1 DEF TypesInv, IsStore, IsEntry
<1>9. Filtered(b) = [s \in config.pipes |-> Filtered(b)[s]]
      /\ \A s \in config.pipes :
           Filtered(b)[s] = IF s \in b.sensors THEN Push(Cached[s], b.n) ELSE Cached[s]
  BY FilteredWindows
<1>10. CacheInv'
  <2>1. /\ pipelines' = [revision |-> pipelines'.revision, content |-> pipelines'.content]
        /\ pipelines'.revision = revision' /\ pipelines'.content = Filtered(b)
    BY <1>1
  <2>2. DOMAIN Filtered(b) = config'.pipes
    BY <1>1, <1>9
  <2>3. revision' \in 0..revision'
    BY <1>1, <1>2
  <2>4. Filtered(b) = [s \in DOMAIN Filtered(b) |-> Filtered(b)[s]]
    BY <1>9
  <2> QED
    BY <1>1, <2>1, <2>2, <2>3, <2>4 DEF CacheInv
<1>11. ChanInv'
  <2>1. ASSUME NEW i \in DOMAIN chan'
        PROVE  \E d \in DeviceSet : /\ chan'[i].n \in polled'[d]
                                    /\ chan'[i].sensors \subseteq SensorsOf(config', d)
    BY <1>1, <1>4 DEF ConsumerInv, ChanInv
  <2>2. ASSUME NEW i \in DOMAIN chan', NEW j \in DOMAIN chan', i < j,
               chan'[i].sensors \cap chan'[j].sensors # {}
        PROVE  chan'[i].n < chan'[j].n
    <3>1. /\ i + 1 \in DOMAIN chan /\ j + 1 \in DOMAIN chan /\ i + 1 < j + 1
          /\ chan'[i] = chan[i + 1] /\ chan'[j] = chan[j + 1]
      BY <1>4, <2>2
    <3> QED
      BY <2>2, <3>1 DEF ConsumerInv, ChanInv
  <2> QED
    BY <2>1, <2>2 DEF ChanInv
<1>12. ASSUME NEW d \in DeviceSet, NEW s \in SensorsOf(config, d)
       PROVE  /\ SampleInv(s, polled[d], chan', store'[s])
              /\ MetricInv(s, polled[d], store'[s], WindowOf(Filtered(b), s),
                           s \in config.pipes \ Failing)
              /\ store'[s].raw >= store[s].raw
  <2> DEFINE T == polled[d]
             old == store[s]
             new == store'[s]
             w == WindowOf(pipelines.content, s)
             v == WindowOf(Filtered(b), s)
             working == s \in config.pipes \ Failing
  <2>1. /\ SampleInv(s, T, chan, old) /\ MetricInv(s, T, old, w, working)
        /\ T \in SUBSET Nat
    BY <1>3 DEF ConsumerInv, SensorsInv
  <2>2. s \in KnownSensors(config) /\ s \in Sensors /\ new = Stored(b)[s]
    BY <1>2, <1>6, <1>7, SensorsApart
  <2>3. old.raw \in Nat
    BY <1>3, <2>2 DEF IsStore, IsEntry
  <2>4. s \in config.pipes => Cached[s] \in {<<>>, w}
    BY CachedWindows
  <2>5. s \notin config.pipes => v = <<>>
    BY <1>9 DEF WindowOf
  <2>6. s \in config.pipes => v = Filtered(b)[s]
    BY <1>9 DEF WindowOf
  <2> HIDE DEF w, v, old, new, T
  <2>7. CASE s \notin b.sensors
    <3>1. new = old
      BY <1>7, <2>2, <2>7 DEF old
    <3>2. SampleInv(s, T, chan', new)
      BY <1>1, <1>3, <2>1, <2>7, <3>1, SamplePassedBy DEF b
    <3>3. v \in {<<>>, w}
      BY <1>9, <2>4, <2>5, <2>6, <2>7
    <3>4. <<>> \in Seq(Nat)
      OBVIOUS
    <3>5. MetricInv(s, T, new, v, working)
      BY <2>1, <3>1, <3>3, <3>4 DEF MetricInv
    <3> QED
      BY <2>3, <3>1, <3>2, <3>5 DEF T, old, new, v
  <2>8. CASE s \in b.sensors
    <3>1. d = origin /\ b.n \in T
      <4>1. SensorsOf(config, d) \cap SensorsOf(config, origin) # {}
        BY <1>5, <2>8
      <4>2. d = origin
        BY <1>2, <4>1, SensorsApart
      <4> QED
        BY <1>5, <4>2 DEF T
    <3>2. new.raw = b.n /\ b.n \in Nat \ {0}
      BY <1>1, <1>7, <2>2, <2>8 DEF Batch
    <3>3. \A i \in DOMAIN chan : 1 < i /\ s \in chan[i].sensors => chan[1].n < chan[i].n
      BY <1>4, <2>8 DEF ConsumerInv, ChanInv
    <3>4. /\ SampleInv(s, T, chan', new)
          /\ old.raw < b.n
          /\ \A t \in T : old.raw # 0 /\ old.raw < t => b.n <= t
      <4>1. /\ chan # <<>> /\ s \in Head(chan).sensors /\ Head(chan).n \in T
            /\ new.raw = Head(chan).n /\ Head(chan) = b /\ chan' = Tail(chan)
        BY <1>1, <2>8, <3>1, <3>2 DEF b
      <4> HIDE DEF working
      <4>2. /\ SampleInv(s, T, Tail(chan), new)
            /\ old.raw < Head(chan).n
            /\ \A t \in T : old.raw # 0 /\ old.raw < t => Head(chan).n <= t
        BY <1>3, <2>1, <3>3, <4>1, SampleTaken
      <4> QED
        BY <4>1, <4>2
    <3>5. \A u \in {<<>>, w} : Push(u, b.n) \in Seq(Nat) /\ Push(u, b.n) # <<>>
                               /\ EndsWith(Push(u, b.n), T, b.n)
      <4>1. ASSUME NEW u \in {<<>>, w}
            PROVE  /\ u \in Seq(Nat)
                   /\ u # <<>> => /\ EndsWith(u, T, old.raw) /\ old.raw < b.n
                                  /\ \A t \in T : old.raw < t => b.n <= t
        <5>1. CASE u = <<>>
          BY <5>1
        <5>2. CASE u # <<>>
          BY <2>1, <3>4, <4>1, <5>2 DEF MetricInv, EndsWith
        <5> QED
          BY <5>1, <5>2
      <4> QED
        BY <2>1, <2>3, <3>1, <3>2, <4>1, PushKeepsLatest
    <3>6. MetricInv(s, T, new, v, working)
      <4>1. CASE s \notin config.pipes
        <5>1. new.metric = old.metric /\ v = <<>> /\ old.metric = NoMetric
          BY <1>7, <2>1, <2>2, <2>5, <2>8, <4>1 DEF MetricInv, old
        <5> QED
          BY <4>1, <5>1 DEF MetricInv
      <4>2. CASE s \in config.pipes
        <5>1. v = Filtered(b)[s] /\ v = Push(Cached[s], b.n)
          BY <1>9, <2>6, <2>8, <4>2
        <5>2. v \in Seq(Nat) /\ v # <<>> /\ EndsWith(v, T, new.raw)
          BY <2>4, <3>2, <3>5, <4>2, <5>1
        <5>3. CASE s \in Failing
          <6>1. new.metric = old.metric /\ old.metric = NoMetric
            BY <1>7, <2>1, <2>2, <2>8, <5>3 DEF MetricInv, old
          <6> QED
            BY <5>2, <5>3, <6>1 DEF MetricInv
        <5>4. CASE s \notin Failing
          <6>1. new.metric = <<s, v>>
            BY <1>7, <2>2, <2>8, <4>2, <5>1, <5>4
          <6>2. new.metric # NoMetric /\ new.metric[2] = v
            BY <6>1 DEF NoMetric
          <6> QED
            BY <3>2, <4>2, <5>2, <5>4, <6>1, <6>2 DEF MetricInv
        <5> QED
          BY <5>3, <5>4
      <4> QED
        BY <4>1, <4>2
    <3>7. new.raw >= old.raw
      BY <2>3, <3>2, <3>4
    <3> QED
      BY <3>4, <3>6, <3>7 DEF T, old, new, v
  <2> QED
    BY <2>7, <2>8
<1>13. SensorsInv'
  BY <1>1, <1>12 DEF SensorsInv
<1>14. ASSUME NEW s \in Sensors \ KnownSensors(config)
       PROVE  /\ store'[s].raw = 0 /\ store[s].raw = 0
              /\ s \notin Ids(config.computed) => store'[s].metric = NoMetric
                                                  /\ store'[s].at = 0
  BY <1>1, <1>6, <1>7 DEF ConsumerInv, OthersInv
<1>15. OthersInv' /\ DownInv' /\ ComputedFollowsInputs'
  BY <1>1, <1>14, FollowsPrimed DEF OthersInv, DownInv
<1>16. ASSUME NEW s \in Sensors PROVE store'[s].raw >= store[s].raw
  <2>1. CASE s \in KnownSensors(config)
    BY <1>2, <1>12, <2>1, SensorsApart
  <2>2. CASE s \notin KnownSensors(config)
    BY <1>14, <2>2
  <2> QED
    BY <2>1, <2>2
<1> QED
  BY <1>8, <1>10, <1>11, <1>13, <1>15, <1>16 DEF ConsumerInv

\* The clock keeps the invariant.
LEMMA TickKeeps ==
  ASSUME ConsumerInv, Tick
  PROVE  ConsumerInv'
<1>1. UNCHANGED <<config, revision, up, polled, chan, pipelines, engine, store>>
  BY DEF Tick, configVars
<1>2. now' \in Nat /\ now <= now'
  BY DEF Tick, ConsumerInv, TypesInv
<1> QED
  BY <1>1, <1>2, SamePlaces

\* A stop leaves nothing behind.
LEMMA HaltKeeps ==
  ASSUME ConfigInv, ConsumerInv, Halt
  PROVE  ConsumerInv'
<1>1. /\ UNCHANGED <<config, revision, now>> /\ chan' = <<>> /\ store' = EmptyStore
      /\ polled' = [d \in DeviceSet |-> {}]
      /\ pipelines' = NewPipelines(config) /\ engine' = NewEngine(config)
  BY DEF Halt, Stop
<1>2. config \in Config /\ Valid(config) /\ now \in Nat \ {0} /\ revision \in Nat
  BY DEF ConfigInv, ConsumerInv, TypesInv
<1>3. /\ config' \in Config /\ Valid(config') /\ now' \in Nat \ {0} /\ revision' \in Nat
      /\ pipelines' = NewPipelines(config') /\ engine' = NewEngine(config')
  BY <1>1, <1>2
<1> QED
  BY <1>1, <1>3, NothingYetNext DEF Empty

\* The samples were gone already.
LEMMA StartKeeps ==
  ASSUME ConfigInv', ConsumerInv, Start
  PROVE  ConsumerInv'
<1>1. /\ ~ up /\ revision' = 0 /\ UNCHANGED <<now, polled, chan, store>>
      /\ pipelines' = NewPipelines(config') /\ engine' = NewEngine(config')
  BY DEF Start, Load
<1>2. /\ chan' = <<>> /\ store' = EmptyStore /\ polled' = [d \in DeviceSet |-> {}]
      /\ now' \in Nat \ {0}
  BY <1>1 DEF ConsumerInv, DownInv, TypesInv
<1>3. config' \in Config /\ Valid(config') /\ revision' \in Nat
  BY DEF ConfigInv
<1> QED
  BY <1>1, <1>2, <1>3, NothingYetNext DEF Empty

\* Every step keeps the invariant, and no step of a running gateway makes the
\* raw sample of a sensor older.
LEMMA StepKeeps ==
  ASSUME ConfigInv, ConfigInv', ConsumerInv, [Next]_vars
  PROVE  /\ ConsumerInv'
         /\ up /\ up' => \A s \in Sensors : store'[s].raw >= store[s].raw
<1>1. \A s \in Sensors : store[s].raw \in Nat
  BY DEF ConsumerInv, TypesInv, IsStore, IsEntry
<1>2. ASSUME store' = store PROVE \A s \in Sensors : store'[s].raw >= store[s].raw
  BY <1>1, <1>2
<1>3. ASSUME NEW d \in DeviceSet, Poll(d)
      PROVE  ConsumerInv' /\ store' = store
  BY <1>3, PollKeeps DEF Poll
<1>4. CASE Consume
  BY <1>4, ConsumeKeeps
<1>5. CASE Tick
  BY <1>2, <1>5, TickKeeps DEF Tick
<1>6. ASSUME NEW q \in Additions, HotAdd(q), UNCHANGED consumerVars
      PROVE  ConsumerInv' /\ store' = store
  BY <1>6, AddKeeps DEF consumerVars
<1>7. CASE Halt
  BY <1>7, HaltKeeps DEF Halt, Stop
<1>8. CASE Start
  BY <1>8, StartKeeps DEF Start, Load
<1>9. CASE UNCHANGED vars
  <2>1. /\ UNCHANGED <<config, revision, up, polled, chan, pipelines, engine, store, now>>
    BY <1>9 DEF vars, configVars, consumerVars
  <2>2. now' \in Nat /\ now <= now'
    BY <2>1 DEF ConsumerInv, TypesInv
  <2> QED
    BY <1>2, <2>1, <2>2, SamePlaces
<1> QED
  BY <1>2, <1>3, <1>4, <1>5, <1>6, <1>7, <1>8, <1>9 DEF Next

-----------------------------------------------------------------------------
(* Theorems about the store *)

\* The invariant holds in every state of the gateway.
THEOREM ConsumerInvariant == Spec => []ConsumerInv
<1>1. Init /\ ConfigInv => ConsumerInv
  <2> SUFFICES ASSUME Init, ConfigInv PROVE ConsumerInv
    OBVIOUS
  <2>1. config \in Config /\ Valid(config) /\ revision \in Nat
    BY DEF ConfigInv
  <2> QED
    BY <2>1, NothingYet DEF Init, Empty
<1>2. ConfigInv /\ ConfigInv' /\ ConsumerInv /\ [Next]_vars => ConsumerInv'
  BY StepKeeps
<1>3. Spec => []ConfigInv
  BY ConsumerRunsConfig, ConfigInvariant, PTL
<1> QED
  BY <1>1, <1>2, <1>3, PTL DEF Spec

\* After every batch one round of evaluation is enough: a computed sensor that
\* can be evaluated is its expression over the stored values of its inputs
\* (build, run of ComputedEngine).
THEOREM ComputedStayFresh == Spec => []ComputedFollowsInputs
<1>1. ConsumerInv => ComputedFollowsInputs
  BY DEF ConsumerInv
<1> QED
  BY <1>1, ConsumerInvariant, PTL

\* The metric of a sensor is the filter over its latest samples, none left out
\* and the stored raw sample last, across updates of the configuration
\* (PipelinesCache, handle_batch).
THEOREM MetricsAreLatest == Spec => []MetricIsOfLatest
<1>1. ConfigInv /\ ConsumerInv => MetricIsOfLatest
  <2> SUFFICES ASSUME ConfigInv, ConsumerInv, NEW d \in DeviceSet,
                      NEW s \in SensorsOf(config, d)
               PROVE  LET metric == store[s].metric
                          times  == {t \in polled[d] : t <= store[s].raw}
                      IN  IF s \in config.pipes \ Failing /\ store[s].raw # 0
                          THEN /\ metric # NoMetric
                               /\ metric = <<s, metric[2]>>
                               /\ Latest(metric[2], times)
                               /\ store[s].raw \in ToSet(metric[2])
                          ELSE metric = NoMetric
    BY DEF MetricIsOfLatest
  <2> DEFINE metric == store[s].metric
             raw == store[s].raw
             w == metric[2]
  <2>1. MetricInv(s, polled[d], store[s], WindowOf(pipelines.content, s),
                  s \in config.pipes \ Failing)
    BY DEF ConsumerInv, SensorsInv
  <2>2. CASE s \in config.pipes \ Failing /\ raw # 0
    <3>1. metric # NoMetric /\ metric = <<s, w>> /\ EndsWith(w, polled[d], raw)
      BY <2>1, <2>2 DEF MetricInv
    <3>2. Latest(w, {t \in polled[d] : t <= raw}) /\ w[Len(w)] = raw
      BY <3>1 DEF EndsWith
    <3>3. raw \in ToSet(w)
      <4>1. Len(w) \in 1..Window /\ Window \in Nat
        BY <3>2, BoundsAssumption DEF Latest
      <4>2. ToSet(w) = {w[i] : i \in DOMAIN w}
        BY DEF ToSet
      <4>3. Len(w) \in DOMAIN w
        <5>1. w \in Seq(Nat)
          BY <2>1, <3>1 DEF MetricInv
        <5>2. DOMAIN w = 1..Len(w) /\ Len(w) \in Nat
          BY <5>1
        <5> HIDE DEF w
        <5> QED
          BY <4>1, <5>2
      <4> QED
        BY <3>2, <4>2, <4>3
    <3> QED
      BY <2>2, <3>1, <3>2, <3>3
  <2>3. CASE ~ (s \in config.pipes \ Failing /\ raw # 0)
    BY <2>1, <2>3 DEF MetricInv
  <2> QED
    BY <2>2, <2>3
<1>2. Spec => []ConfigInv
  BY ConsumerRunsConfig, ConfigInvariant, PTL
<1> QED
  BY <1>1, <1>2, ConsumerInvariant, PTL

\* A running gateway never loses the raw sample of a register nor goes back to
\* an older one (update_batch_raw, update_metric, evaluation).
THEOREM RawSamplesStay == Spec => RawNeverLost
<1>1. ConfigInv /\ ConfigInv' /\ ConsumerInv /\ [Next]_vars =>
        [up /\ up' => \A s \in KnownSensors(config) :
                        store'[s].raw >= store[s].raw]_vars
  <2> SUFFICES ASSUME ConfigInv, ConfigInv', ConsumerInv, [Next]_vars, up, up',
                      NEW s \in KnownSensors(config)
               PROVE  store'[s].raw >= store[s].raw
    OBVIOUS
  <2>1. s \in Sensors
    BY ValidConfig, SensorsApart DEF ConfigInv
  <2> QED
    BY <2>1, StepKeeps
<1>2. Spec => []ConfigInv
  BY ConsumerRunsConfig, ConfigInvariant, PTL
<1> QED
  BY <1>1, <1>2, ConsumerInvariant, PTL DEF Spec, RawNeverLost

-----------------------------------------------------------------------------
(* Theorems about the observers *)

\* What a sensor with a register says of its device: nothing, or the time of a
\* poll that the device answered.
LEMMA TimesOfPolls ==
  ASSUME ConfigInv, ConsumerInv, NEW d \in DeviceSet, NEW s \in SensorsOf(config, d)
  PROVE  /\ TimeOf(store, s) \in 0..now
         /\ TimeOf(store, s) # 0 => TimeOf(store, s) \in polled[d]
<1>1. /\ store[s].raw \in polled[d] \cup {0}
      /\ store[s].raw = 0 => store[s].at = 0
      /\ polled[d] \in SUBSET (1..now) /\ now \in Nat
  BY DEF ConsumerInv, SensorsInv, SampleInv, TypesInv
<1>2. TimeOf(store, s) = store[s].raw
  BY <1>1 DEF TimeOf
<1> QED
  BY <1>1, <1>2

\* A device without an answer for two intervals is connected for neither, and
\* health endpoint and dashboard agree on every device, although one looks for
\* any recent sample and the other for the newest (readyz, build_snapshot).
THEOREM ConnectedAreAlive == ObserversSpec => []ConnectedMeansAlive
<1>1. ConfigInv /\ ConsumerInv => ConnectedMeansAlive
  <2> SUFFICES ASSUME ConfigInv, ConsumerInv, NEW d \in DeviceSet
               PROVE  /\ Connected(d) <=> Healthy(d)
                      /\ up /\ Healthy(d) =>
                           \E t \in polled[d] : now - t <= 2 * Interval[d]
    BY DEF ConnectedMeansAlive
  <2> DEFINE times == {TimeOf(store, s) : s \in SensorsOf(config, d)} \cup {0}
             newest == Max(times)
             limit == 2 * Interval[d]
  <2>1. now \in Nat /\ limit \in Nat
    BY ObserversAssumption DEF ConsumerInv, TypesInv
  <2>2. \A s \in SensorsOf(config, d) :
          /\ TimeOf(store, s) \in 0..now /\ TimeOf(store, s) \in times
          /\ TimeOf(store, s) # 0 => TimeOf(store, s) \in polled[d]
    BY TimesOfPolls
  <2>3. newest \in times /\ \A t \in times : t <= newest
    <3>1. times \in SUBSET (0..now) /\ times # {}
      BY <2>1, <2>2
    <3> HIDE DEF times
    <3> QED
      BY <2>1, <3>1, MaxOfNumbers
  <2>4. /\ Healthy(d) <=> \E s \in SensorsOf(config, d) :
                            TimeOf(store, s) # 0 /\ now - TimeOf(store, s) <= limit
        /\ Connected(d) <=> newest # 0 /\ now - newest <= limit
    BY DEF Healthy, Connected, Counted, Recent, Newest
  <2>5. \A t \in times : t = 0 \/ \E s \in SensorsOf(config, d) : t = TimeOf(store, s)
    OBVIOUS
  <2> HIDE DEF times, newest, limit
  <2>6. ASSUME Connected(d) PROVE Healthy(d)
    <3>1. newest # 0 /\ now - newest <= limit
      BY <2>4, <2>6
    <3>2. PICK s \in SensorsOf(config, d) : newest = TimeOf(store, s)
      BY <2>3, <2>5, <3>1
    <3> QED
      BY <2>4, <3>1, <3>2
  <2>7. ASSUME Healthy(d)
        PROVE  Connected(d) /\ \E t \in polled[d] : now - t <= limit
    <3>1. PICK s \in SensorsOf(config, d) :
            TimeOf(store, s) # 0 /\ now - TimeOf(store, s) <= limit
      BY <2>4, <2>7
    <3> DEFINE t == TimeOf(store, s)
    <3>2. t \in 0..now /\ t \in times /\ t \in polled[d]
      BY <2>2, <3>1
    <3>3. newest \in Nat
      <4>1. newest = 0 \/ \E x \in SensorsOf(config, d) : newest = TimeOf(store, x)
        BY <2>3, <2>5
      <4>2. CASE newest = 0
        BY <4>2
      <4>3. ASSUME NEW x \in SensorsOf(config, d), newest = TimeOf(store, x)
            PROVE  newest \in Nat
        <5>1. newest \in 0..now
          BY <2>2, <4>3
        <5> QED
          BY <2>1, <5>1
      <4> QED
        BY <4>1, <4>2, <4>3
    <3>4. t # 0 /\ now - t <= limit /\ t <= newest
      BY <2>3, <3>1, <3>2
    <3> HIDE DEF t
    <3>5. newest # 0 /\ now - newest <= limit
      BY <2>1, <3>2, <3>3, <3>4
    <3> QED
      BY <2>4, <3>2, <3>4, <3>5
  <2> QED
    BY <2>6, <2>7 DEF limit
<1>2. ObserversSpec => []ConfigInv
  BY ObserversOnlyLook, ConsumerRunsConfig, ConfigInvariant, PTL
<1> QED
  BY <1>1, <1>2, ObserversOnlyLook, ConsumerInvariant, PTL

-----------------------------------------------------------------------------
(* Updates *)

\* An update is not newer than another.
Rises(a, b) == \A s \in Watched : a[s] <= b[s]

Updates == [Watched -> Nat]

\* The updates of the channel rise up to the store; what a client has received
\* of them is not newer than what it shows, and what it has to receive is not
\* older.
RingInv == /\ ring \in Seq(Updates) /\ Len(ring) <= RingCap
           /\ \A i, j \in DOMAIN ring : i <= j => Rises(ring[i], ring[j])
           /\ \A i \in DOMAIN ring : Rises(ring[i], Update)
           /\ ~ up => ring = <<>>

Shows(e, updates) ==
  /\ e = [on |-> TRUE, shown |-> e.shown, unread |-> e.unread]
  /\ e.shown \in Updates
  /\ e.unread \in Nat
  /\ e.unread <= RingCap => e.unread <= Len(updates)
  /\ \A i \in DOMAIN updates : IF i <= Len(updates) - e.unread
                               THEN Rises(updates[i], e.shown)
                               ELSE Rises(e.shown, updates[i])

ClientInv ==
  /\ client = [c \in Clients |-> client[c]]
  /\ \A c \in Clients :
       \/ client[c] = Off
       \/ up /\ Shows(client[c], ring) /\ Rises(client[c].shown, Update)

ObserversInv == RingInv /\ ClientInv

\* An update has the raw samples of the watched sensors.
LEMMA UpdateTyped ==
  ASSUME ConsumerInv
  PROVE  /\ Update \in Updates
         /\ \A s \in Watched : s \in Sensors /\ Update[s] = store[s].raw
<1>1. \A s \in Sensors : store[s].raw \in Nat
  BY DEF ConsumerInv, TypesInv, IsStore, IsEntry
<1> QED
  BY <1>1, ObserversAssumption DEF Update, Updates

\* What is not newer than the store stays so when the store gets newer.
LEMMA UpdateRises ==
  ASSUME ConsumerInv, \A s \in Sensors : store'[s].raw >= store[s].raw,
         \A s \in Sensors : store'[s].raw \in Nat
  PROVE  \A u \in Updates : Rises(u, Update) => Rises(u, Update')
<1>1. \A s \in Watched : /\ s \in Sensors /\ Update[s] = store[s].raw
                         /\ store[s].raw \in Nat
  BY UpdateTyped DEF ConsumerInv, TypesInv, IsStore, IsEntry
<1>2. \A s \in Watched : Update'[s] = store'[s].raw
  BY DEF Update
<1>3. ASSUME NEW u \in Updates, Rises(u, Update), NEW s \in Watched
      PROVE  u[s] <= Update'[s]
  <2>1. u[s] \in Nat /\ u[s] <= store[s].raw
    BY <1>1, <1>3 DEF Updates, Rises
  <2>2. store'[s].raw >= store[s].raw /\ store'[s].raw \in Nat
    BY <1>1
  <2> QED
    BY <1>1, <1>2, <2>1, <2>2
<1> QED
  BY <1>3 DEF Rises

\* The channel after one more update.
Sending(updates, u) ==
  LET all == Append(updates, u) IN IF Len(all) > RingCap THEN Tail(all) ELSE all

\* The sent update is the last, and the one that falls out is the first of a
\* channel that was full.
LEMMA SentUpdate ==
  ASSUME NEW r \in Seq(Updates), Len(r) <= RingCap, NEW u \in Updates
  PROVE  /\ Sending(r, u) \in Seq(Updates)
         /\ Len(Sending(r, u)) \in 1..RingCap
         /\ Sending(r, u)[Len(Sending(r, u))] = u
         /\ \E drop \in {0, 1} :
              /\ drop = 1 <=> Len(r) = RingCap
              /\ Len(Sending(r, u)) = Len(r) + 1 - drop
              /\ \A i \in 1..(Len(Sending(r, u)) - 1) :
                   i + drop \in DOMAIN r /\ Sending(r, u)[i] = r[i + drop]
<1> DEFINE all == Append(r, u)
           new == Sending(r, u)
           k == Len(r)
<1>1. /\ k \in Nat /\ k <= RingCap /\ RingCap \in Nat \ {0} /\ DOMAIN r = 1..k
      /\ all \in Seq(Updates) /\ Len(all) = k + 1 /\ all[k + 1] = u
      /\ \A i \in 1..k : all[i] = r[i]
  BY ObserversAssumption
<1>2. CASE k < RingCap
  <2>1. new = all
    <3>1. ~ (k + 1 > RingCap)
      BY <1>1, <1>2
    <3> QED
      BY <1>1, <3>1 DEF Sending
  <2> HIDE DEF all, new, k
  <2>2. /\ Len(new) = k + 1 - 0 /\ Len(new) \in 1..RingCap /\ (0 = 1 <=> k = RingCap)
    BY <1>1, <1>2, <2>1
  <2>3. \A i \in 1..(Len(new) - 1) : i + 0 \in 1..k /\ new[i] = r[i + 0]
    BY <1>1, <2>1, <2>2
  <2> QED
    BY <1>1, <2>1, <2>2, <2>3 DEF new, k
<1>3. CASE k = RingCap
  <2>1. new = Tail(all)
    BY <1>1, <1>3 DEF Sending
  <2> HIDE DEF all, new
  <2>2. /\ new \in Seq(Updates) /\ Len(new) = k
        /\ \A i \in 1..k : new[i] = all[i + 1]
    <3>1. all # <<>>
      BY <1>1
    <3> QED
      BY <1>1, <2>1, <3>1
  <2> HIDE DEF k
  <2>3. Len(new) = k + 1 - 1 /\ Len(new) \in 1..RingCap /\ new[Len(new)] = u
    BY <1>1, <1>3, <2>2
  <2>4. \A i \in 1..(Len(new) - 1) : i + 1 \in 1..k /\ new[i] = r[i + 1]
    BY <1>1, <2>2, <2>3
  <2> QED
    BY <1>1, <1>3, <2>2, <2>3, <2>4 DEF new, k
<1>4. k < RingCap \/ k = RingCap
  <2> HIDE DEF k
  <2> QED
    BY <1>1
<1> HIDE DEF new, k
<1> QED
  BY <1>2, <1>3, <1>4 DEF new, k

\* A client has one more update to receive, unless it had lagged already.
LEMMA SentToClient ==
  ASSUME NEW r \in Seq(Updates), Len(r) <= RingCap, NEW u \in Updates,
         NEW e, Shows(e, r), Rises(e.shown, u),
         NEW f, f = IF e.on /\ e.unread <= RingCap THEN [e EXCEPT !.unread = @ + 1] ELSE e
  PROVE  Shows(f, Sending(r, u)) /\ f.shown = e.shown
<1> DEFINE new == Sending(r, u)
           k == Len(r)
           m == Len(new)
           n == e.unread
<1>1. /\ new \in Seq(Updates) /\ m \in 1..RingCap /\ new[m] = u /\ RingCap \in Nat
      /\ \E drop \in {0, 1} :
           /\ drop = 1 <=> Len(r) = RingCap
           /\ m = Len(r) + 1 - drop
           /\ \A i \in 1..(m - 1) : i + drop \in DOMAIN r /\ new[i] = r[i + drop]
  BY SentUpdate, ObserversAssumption
<1>2. PICK drop \in {0, 1} :
           /\ drop = 1 <=> Len(r) = RingCap
           /\ m = k + 1 - drop
           /\ \A i \in 1..(m - 1) : i + drop \in DOMAIN r /\ new[i] = r[i + drop]
  BY <1>1
<1>3. DOMAIN new = 1..m /\ k \in Nat /\ DOMAIN r = 1..k
  BY <1>1
<1>4. /\ e = [on |-> TRUE, shown |-> e.shown, unread |-> n] /\ e.on
      /\ e.shown \in Updates /\ n \in Nat
      /\ n <= RingCap => n <= k
      /\ \A i \in 1..k : IF i <= k - n THEN Rises(r[i], e.shown) ELSE Rises(e.shown, r[i])
  <2>1. e = [on |-> TRUE, shown |-> e.shown, unread |-> e.unread]
    BY DEF Shows
  <2>2. e.on
    BY <2>1
  <2> QED
    BY <1>3, <2>1, <2>2 DEF Shows
<1> DEFINE p == f.unread
<1>5. /\ f = [on |-> TRUE, shown |-> e.shown, unread |-> p]
      /\ p = IF n <= RingCap THEN n + 1 ELSE n
  BY <1>4
<1>6. f.shown = e.shown
  BY <1>5
<1> HIDE DEF new, k, m, n, p
<1>7. p \in Nat /\ (p <= RingCap => p <= m) /\ p >= 1
  BY <1>1, <1>2, <1>3, <1>4, <1>5
<1>8. ASSUME NEW i \in 1..m
      PROVE  IF i <= m - p THEN Rises(new[i], f.shown) ELSE Rises(f.shown, new[i])
  <2>1. CASE i = m
    <3>1. ~ (i <= m - p)
      BY <1>1, <1>7, <2>1
    <3> QED
      BY <1>1, <1>6, <2>1, <3>1
  <2>2. CASE i # m
    <3>1. i \in 1..(m - 1) /\ i \in Nat
      BY <1>1, <2>2
    <3>2. i + drop \in 1..k /\ new[i] = r[i + drop]
      BY <1>2, <1>3, <3>1
    <3>3. i <= m - p <=> i + drop <= k - n
      BY <1>1, <1>2, <1>3, <1>4, <1>5, <3>1, <3>2
    <3> QED
      BY <1>4, <1>6, <3>2, <3>3
  <2> QED
    BY <2>1, <2>2
<1>9. f = [on |-> TRUE, shown |-> f.shown, unread |-> f.unread] /\ f.shown \in Updates
  BY <1>4, <1>5, <1>6 DEF p
<1> QED
  BY <1>3, <1>6, <1>7, <1>8, <1>9 DEF Shows, new, m, p

\* An update is not newer than itself.
LEMMA RisesSelf ==
  ASSUME NEW a \in Updates
  PROVE  Rises(a, a)
BY DEF Updates, Rises

\* A broadcast changes what clients have to receive, not what they show.
LEMMA BroadcastKeeps ==
  ASSUME ConsumerInv, ObserversInv, Broadcast
  PROVE  /\ ObserversInv'
         /\ \A c \in Clients : client'[c].on => client'[c].shown = client[c].shown
<1>1. /\ up /\ UNCHANGED vars /\ ring' = Sending(ring, Update)
      /\ client' = [c \in Clients |->
                  IF client[c].on /\ client[c].unread <= RingCap
                  THEN [client[c] EXCEPT !.unread = @ + 1] ELSE client[c]]
  BY DEF Broadcast, Sending
<1>2. up' = up /\ store' = store
  BY <1>1 DEF vars, configVars, consumerVars
<1>3. Update' = Update
  BY <1>2 DEF Update
<1>4. Update \in Updates /\ Rises(Update, Update)
  BY UpdateTyped, RisesSelf
<1>5. /\ ring \in Seq(Updates) /\ Len(ring) <= RingCap
      /\ \A i, j \in DOMAIN ring : i <= j => Rises(ring[i], ring[j])
      /\ \A i \in DOMAIN ring : Rises(ring[i], Update)
  BY DEF ObserversInv, RingInv
<1>6. RingInv'
  <2> DEFINE new == ring'
             m == Len(new)
  <2>1. /\ new \in Seq(Updates) /\ m \in 1..RingCap /\ new[m] = Update /\ RingCap \in Nat
        /\ \E drop \in {0, 1} :
             \A i \in 1..(m - 1) : i + drop \in DOMAIN ring /\ new[i] = ring[i + drop]
    <3> DEFINE sent == Sending(ring, Update)
    <3>1. /\ sent \in Seq(Updates) /\ Len(sent) \in 1..RingCap /\ sent[Len(sent)] = Update
          /\ \E drop \in {0, 1} :
               /\ drop = 1 <=> Len(ring) = RingCap
               /\ Len(sent) = Len(ring) + 1 - drop
               /\ \A i \in 1..(Len(sent) - 1) :
                    i + drop \in DOMAIN ring /\ sent[i] = ring[i + drop]
      BY <1>4, <1>5, SentUpdate
    <3>2. new = sent
      BY <1>1
    <3> HIDE DEF sent, new
    <3> QED
      BY <3>1, <3>2, ObserversAssumption
  <2>2. PICK drop \in {0, 1} :
           \A i \in 1..(m - 1) : i + drop \in DOMAIN ring /\ new[i] = ring[i + drop]
    BY <2>1
  <2>3. DOMAIN new = 1..m
    BY <2>1
  <2> HIDE DEF new, m
  <2>4. \A i \in 1..m : i = m \/ i \in 1..(m - 1)
    BY <2>1
  <2>5. \A i \in 1..m : Rises(new[i], Update)
    BY <1>4, <1>5, <2>1, <2>2, <2>4
  <2>6. ASSUME NEW i \in 1..m, NEW j \in 1..m, i <= j PROVE Rises(new[i], new[j])
    <3>1. CASE j = m
      BY <2>1, <2>5, <3>1
    <3>2. CASE j # m
      <4>1. j \in 1..(m - 1) /\ i \in 1..(m - 1) /\ i + drop <= j + drop
        BY <2>1, <2>6, <3>2
      <4> QED
        BY <1>5, <2>2, <4>1
    <3> QED
      BY <3>1, <3>2
  <2>7. m <= RingCap
    BY <2>1
  <2> QED
    BY <1>1, <1>2, <1>3, <2>1, <2>3, <2>5, <2>6, <2>7 DEF RingInv, new, m
<1>7. ASSUME NEW c \in Clients
      PROVE  /\ client'[c] = Off \/
                  (up' /\ Shows(client'[c], ring') /\ Rises(client'[c].shown, Update'))
             /\ client'[c].on => client'[c].shown = client[c].shown
  <2>1. client'[c] = IF client[c].on /\ client[c].unread <= RingCap
                     THEN [client[c] EXCEPT !.unread = @ + 1] ELSE client[c]
    BY <1>1
  <2>2. CASE client[c] = Off
    BY <2>1, <2>2 DEF Off
  <2>3. CASE client[c] # Off
    <3>1. up /\ Shows(client[c], ring) /\ Rises(client[c].shown, Update)
      BY <2>3 DEF ObserversInv, ClientInv
    <3>2. Shows(client'[c], Sending(ring, Update)) /\ client'[c].shown = client[c].shown
      BY <1>4, <1>5, <2>1, <3>1, SentToClient
    <3> QED
      BY <1>1, <1>2, <1>3, <3>1, <3>2
  <2> QED
    BY <2>2, <2>3
<1>8. ClientInv'
  BY <1>1, <1>7 DEF ClientInv
<1> QED
  BY <1>6, <1>7, <1>8 DEF ObserversInv

\* A client that connects has received all that was sent.
LEMMA ConnectKeeps ==
  ASSUME ConsumerInv, ObserversInv, NEW c \in Clients, Connect(c)
  PROVE  /\ ObserversInv'
         /\ \A o \in Clients : client[o].on => client'[o] = client[o]
<1> DEFINE e == [on |-> TRUE, shown |-> Update, unread |-> FirstUnread]
<1>1. /\ up /\ ~ client[c].on /\ UNCHANGED vars /\ ring' = ring
      /\ client' = [client EXCEPT ![c] = e]
  BY DEF Connect
<1>2. up' = up /\ store' = store
  BY <1>1 DEF vars, configVars, consumerVars
<1>3. Update' = Update
  BY <1>2 DEF Update
<1>4. Update \in Updates /\ Rises(Update, Update)
  BY UpdateTyped, RisesSelf
<1>5. RingInv'
  BY <1>1, <1>2, <1>3 DEF ObserversInv, RingInv
<1>6. Shows(e, ring) /\ Rises(e.shown, Update)
  <2>1. /\ e.shown = Update /\ e.unread = 0 /\ e.unread \in Nat
        /\ e = [on |-> TRUE, shown |-> e.shown, unread |-> e.unread]
    BY DEF FirstUnread
  <2> HIDE DEF e
  <2>2. Len(ring) \in Nat /\ DOMAIN ring = 1..Len(ring)
        /\ \A i \in DOMAIN ring : Rises(ring[i], Update)
    BY DEF ObserversInv, RingInv
  <2>3. e.unread <= RingCap => e.unread <= Len(ring)
    BY <2>1, <2>2
  <2>4. \A i \in DOMAIN ring : i <= Len(ring) - e.unread
    BY <2>1, <2>2
  <2> QED
    BY <1>4, <2>1, <2>2, <2>3, <2>4 DEF Shows
<1> HIDE DEF e
<1>7. /\ client'[c] = e
      /\ \A o \in Clients : o # c => client'[o] = client[o]
      /\ client' = [o \in Clients |-> client'[o]]
  BY <1>1 DEF ObserversInv, ClientInv
<1>8. ClientInv'
  BY <1>1, <1>2, <1>3, <1>6, <1>7 DEF ObserversInv, ClientInv
<1> QED
  BY <1>1, <1>5, <1>7, <1>8 DEF ObserversInv

\* A client that receives shows the oldest update it has to receive, or is gone.
LEMMA ReceiveKeeps ==
  ASSUME ConsumerInv, ObserversInv, NEW c \in Clients, Receive(c)
  PROVE  /\ ObserversInv'
         /\ \A o \in Clients : client'[o].on => Rises(client[o].shown, client'[o].shown)
<1> DEFINE old == client[c]
           k == Len(ring)
           n == old.unread
           new == client'[c]
<1>1. /\ up /\ old.on /\ n > 0 /\ UNCHANGED vars /\ ring' = ring
      /\ client' = [client EXCEPT ![c] = IF n > RingCap THEN Off ELSE Shown(c)]
  BY DEF Receive, Overtaken
<1>2. up' = up /\ store' = store
  BY <1>1 DEF vars, configVars, consumerVars
<1>3. Update' = Update
  BY <1>2 DEF Update
<1>4. RingInv'
  BY <1>1, <1>2, <1>3 DEF ObserversInv, RingInv
<1>5. /\ client = [o \in Clients |-> client[o]]
      /\ old # Off => Shows(old, ring) /\ Rises(old.shown, Update)
      /\ \A o \in Clients \ {c} : client'[o] = client[o]
      /\ client' = [o \in Clients |-> client'[o]]
      /\ new = IF n > RingCap THEN Off
               ELSE [on |-> TRUE, shown |-> ring[k - n + 1], unread |-> n - 1]
  <2> DEFINE e == IF n > RingCap THEN Off ELSE Shown(c)
  <2>1. client = [o \in Clients |-> client[o]]
    BY DEF ObserversInv, ClientInv
  <2>2. client' = [client EXCEPT ![c] = e]
    BY <1>1
  <2> HIDE DEF e
  <2>3. /\ client'[c] = e
        /\ \A o \in Clients \ {c} : client'[o] = client[o]
        /\ client' = [o \in Clients |-> client'[o]]
    BY <2>1, <2>2
  <2>4. old # Off => Shows(old, ring) /\ Rises(old.shown, Update)
    BY DEF ObserversInv, ClientInv
  <2> QED
    BY <2>1, <2>3, <2>4 DEF e, Shown
<1>6. Shows(old, ring)
  BY <1>1, <1>5 DEF Off
<1>7. /\ old = [on |-> TRUE, shown |-> old.shown, unread |-> n]
      /\ old.shown \in Updates /\ n \in Nat
      /\ n <= RingCap => n <= k
      /\ \A i \in DOMAIN ring : IF i <= k - n THEN Rises(ring[i], old.shown)
                                ELSE Rises(old.shown, ring[i])
  BY <1>6 DEF Shows
<1>8. /\ ring \in Seq(Updates) /\ k \in Nat /\ DOMAIN ring = 1..k
      /\ \A i, j \in DOMAIN ring : i <= j => Rises(ring[i], ring[j])
      /\ \A i \in DOMAIN ring : Rises(ring[i], Update) /\ ring[i] \in Updates
  BY DEF ObserversInv, RingInv
<1>9. ASSUME n <= RingCap
      PROVE  Shows(new, ring) /\ Rises(new.shown, Update) /\ Rises(old.shown, new.shown)
  <2> DEFINE first == k - n + 1
             m == n - 1
  <2>1. new = [on |-> TRUE, shown |-> ring[first], unread |-> m]
    <3>1. ~ (n > RingCap)
      BY <1>7, <1>9, ObserversAssumption
    <3> QED
      BY <1>5, <3>1
  <2>2. first \in 1..k /\ m \in Nat /\ k - m = first /\ m <= k /\ ~ (first <= k - n)
    <3> HIDE DEF old, k, n
    <3> QED
      BY <1>1, <1>7, <1>8, <1>9
  <2> HIDE DEF first, m, old, k, n, new
  <2>3. \A i \in 1..k : IF i <= k - m THEN Rises(ring[i], ring[first])
                        ELSE Rises(ring[first], ring[i])
    <3> SUFFICES ASSUME NEW i \in 1..k
                 PROVE  IF i <= first THEN Rises(ring[i], ring[first])
                        ELSE Rises(ring[first], ring[i])
      BY <2>2
    <3>1. i <= first \/ first <= i
      BY <1>8, <2>2
    <3> QED
      BY <1>8, <2>2, <3>1
  <2>4. Rises(old.shown, ring[first])
    BY <1>7, <1>8, <2>2
  <2>5. new.shown = ring[first] /\ new.unread = m
        /\ new = [on |-> TRUE, shown |-> new.shown, unread |-> new.unread]
    BY <2>1
  <2>6. Shows(new, ring)
    BY <1>8, <2>2, <2>3, <2>5 DEF Shows, k
  <2> QED
    BY <1>8, <2>2, <2>4, <2>5, <2>6
<1>10. n <= RingCap \/ (n > RingCap /\ new = Off)
  BY <1>5, <1>7, ObserversAssumption
<1>11. \A o \in Clients : client'[o].on => Rises(client[o].shown, client'[o].shown)
  <2>1. ASSUME NEW o \in Clients \ {c}, client'[o].on
        PROVE  Rises(client[o].shown, client'[o].shown)
    <3>1. client'[o] = client[o] /\ client[o] # Off
      BY <1>5, <2>1 DEF Off
    <3>2. client[o].shown \in Updates
      BY <3>1 DEF ObserversInv, ClientInv, Shows
    <3> QED
      BY <3>1, <3>2, RisesSelf
  <2>2. ASSUME client'[c].on PROVE Rises(client[c].shown, client'[c].shown)
    BY <1>9, <1>10, <2>2 DEF Off
  <2> QED
    BY <2>1, <2>2
<1>12. ClientInv'
  <2>1. ASSUME NEW o \in Clients
        PROVE  client'[o] = Off \/
                 (up' /\ Shows(client'[o], ring') /\ Rises(client'[o].shown, Update'))
    <3>1. CASE o = c
      BY <1>1, <1>2, <1>3, <1>9, <1>10, <3>1
    <3>2. CASE o # c
      BY <1>1, <1>2, <1>3, <1>5, <3>2 DEF ObserversInv, ClientInv
    <3> QED
      BY <3>1, <3>2
  <2> QED
    BY <1>5, <2>1 DEF ClientInv
<1> QED
  BY <1>4, <1>11, <1>12 DEF ObserversInv

\* A client that goes has nothing to keep.
LEMMA DisconnectKeeps ==
  ASSUME ObserversInv, NEW c \in Clients, Disconnect(c)
  PROVE  /\ ObserversInv'
         /\ \A o \in Clients : client'[o].on => client'[o] = client[o]
<1>1. UNCHANGED vars /\ ring' = ring /\ client' = [client EXCEPT ![c] = Off]
  BY DEF Disconnect
<1>2. up' = up /\ store' = store
  BY <1>1 DEF vars, configVars, consumerVars
<1>3. Update' = Update
  BY <1>2 DEF Update
<1>4. RingInv'
  BY <1>1, <1>2, <1>3 DEF ObserversInv, RingInv
<1>5. /\ client'[c] = Off
      /\ \A o \in Clients : o # c => client'[o] = client[o]
      /\ client' = [o \in Clients |-> client'[o]]
  BY <1>1 DEF ObserversInv, ClientInv
<1>6. ClientInv'
  BY <1>1, <1>2, <1>3, <1>5 DEF ObserversInv, ClientInv
<1>7. \A o \in Clients : client'[o].on => client'[o] = client[o]
  BY <1>5 DEF Off
<1> QED
  BY <1>4, <1>6, <1>7 DEF ObserversInv

\* The sockets and the channel end with the process.
LEMMA StopAllKeeps ==
  ASSUME StopAll
  PROVE  ObserversInv' /\ \A o \in Clients : ~ client'[o].on
<1>1. ring' = <<>> /\ client' = [c \in Clients |-> Off]
  BY DEF StopAll
<1>2. RingInv'
  <2>1. DOMAIN ring' = {} /\ ring' \in Seq(Updates) /\ Len(ring') = 0
    BY <1>1
  <2> QED
    BY <1>1, <2>1, ObserversAssumption DEF RingInv
<1>3. ClientInv' /\ \A o \in Clients : ~ client'[o].on
  BY <1>1 DEF ClientInv, Off
<1> QED
  BY <1>2, <1>3 DEF ObserversInv

\* The store gets newer under channel and clients.
LEMMA NewerStoreKeeps ==
  ASSUME ConsumerInv, ConsumerInv', ObserversInv, UNCHANGED observerVars,
         up => up' /\ \A s \in Sensors : store'[s].raw >= store[s].raw
  PROVE  ObserversInv'
<1>1. ring' = ring /\ client' = client
  BY DEF observerVars
<1>2. ASSUME up PROVE \A u \in Updates : Rises(u, Update) => Rises(u, Update')
  <2>1. \A s \in Sensors : store'[s].raw \in Nat
    BY DEF ConsumerInv, TypesInv, IsStore, IsEntry
  <2> QED
    BY <1>2, <2>1, UpdateRises
<1>3. ring \in Seq(Updates) /\ \A i \in DOMAIN ring : ring[i] \in Updates
  BY DEF ObserversInv, RingInv
<1>4. RingInv'
  <2>1. CASE up
    BY <1>1, <1>2, <1>3, <2>1 DEF ObserversInv, RingInv
  <2>2. CASE ~ up
    <3>1. ring = <<>> /\ DOMAIN ring = {}
      BY <2>2 DEF ObserversInv, RingInv
    <3> QED
      BY <1>1, <3>1 DEF ObserversInv, RingInv
  <2> QED
    BY <2>1, <2>2
<1>5. ClientInv'
  <2>1. ASSUME NEW c \in Clients, client[c] # Off
        PROVE  up' /\ Shows(client[c], ring) /\ Rises(client[c].shown, Update')
    <3>1. up /\ Shows(client[c], ring) /\ Rises(client[c].shown, Update)
      BY <2>1 DEF ObserversInv, ClientInv
    <3>2. client[c].shown \in Updates
      BY <3>1 DEF Shows
    <3> QED
      BY <1>2, <3>1, <3>2
  <2> QED
    BY <1>1, <2>1 DEF ObserversInv, ClientInv
<1> QED
  BY <1>4, <1>5 DEF ObserversInv

\* What a client shows never gets older.
NeverBack == \A c \in Clients : client[c].on /\ client'[c].on =>
               Rises(client[c].shown, client'[c].shown)

\* Every step keeps channel and clients in order.
LEMMA ObserversStep ==
  ASSUME ConfigInv, ConfigInv', ConsumerInv, ObserversInv, [ObserversNext]_allVars,
         [Next]_vars
  PROVE  ObserversInv' /\ NeverBack
<1>1. ConsumerInv'
  BY StepKeeps
<1>2. /\ up /\ up' => \A s \in Sensors : store'[s].raw >= store[s].raw
      /\ \A s \in Sensors : store[s].raw \in Nat
  BY StepKeeps DEF ConsumerInv, TypesInv, IsStore, IsEntry
<1>3. ASSUME NEW c \in Clients, client[c].on PROVE Rises(client[c].shown, client[c].shown)
  <2>1. client[c].shown \in Updates
    BY <1>3 DEF ObserversInv, ClientInv, Shows, Off
  <2> QED
    BY <2>1, RisesSelf
<1>4. ASSUME UNCHANGED observerVars, up => up' PROVE ObserversInv' /\ NeverBack
  <2>1. ObserversInv'
    BY <1>1, <1>2, <1>4, NewerStoreKeeps
  <2>2. client' = client
    BY <1>4 DEF observerVars
  <2> QED
    BY <1>3, <2>1, <2>2 DEF NeverBack
<1>5. CASE \E d \in DeviceSet : Poll(d) /\ UNCHANGED observerVars
  BY <1>4, <1>5 DEF Poll, configVars
<1>6. CASE (Consume \/ Tick \/ Start) /\ UNCHANGED observerVars
  BY <1>4, <1>6 DEF Consume, Tick, Start, Load, configVars
<1>7. CASE \E q \in Additions : HotAdd(q) /\ UNCHANGED <<consumerVars, observerVars>>
  BY <1>4, <1>7 DEF HotAdd
<1>8. CASE StopAll
  BY <1>8, StopAllKeeps DEF NeverBack
<1>9. CASE Broadcast
  BY <1>3, <1>9, BroadcastKeeps DEF NeverBack
<1>10. ASSUME NEW c \in Clients, Connect(c) \/ Disconnect(c)
       PROVE  ObserversInv' /\ NeverBack
  BY <1>3, <1>10, ConnectKeeps, DisconnectKeeps DEF NeverBack
<1>11. ASSUME NEW c \in Clients, Receive(c)
       PROVE  ObserversInv' /\ NeverBack
  BY <1>11, ReceiveKeeps DEF NeverBack
<1>12. CASE UNCHANGED allVars
  <2>1. UNCHANGED observerVars /\ (up => up')
    BY <1>12 DEF allVars, vars, configVars
  <2> QED
    BY <1>4, <2>1
<1> QED
  BY <1>5, <1>6, <1>7, <1>8, <1>9, <1>10, <1>11, <1>12 DEF ObserversNext

\* Channel and clients are in order whatever the gateway does beside them.
THEOREM ObserversInvariant == ObserversSpec => []ObserversInv
<1>1. ObserversInit => ObserversInv
  <2> SUFFICES ASSUME ObserversInit PROVE ObserversInv
    OBVIOUS
  <2>1. ring = <<>> /\ client = [c \in Clients |-> Off]
    BY DEF ObserversInit
  <2>2. DOMAIN ring = {} /\ ring \in Seq(Updates) /\ Len(ring) = 0
    BY <2>1
  <2> QED
    BY <2>1, <2>2, ObserversAssumption DEF ObserversInv, RingInv, ClientInv
<1>2. ConfigInv /\ ConfigInv' /\ ConsumerInv /\ ObserversInv
        /\ [ObserversNext]_allVars /\ [Next]_vars => ObserversInv'
  BY ObserversStep
<1>3. ObserversSpec => []ConfigInv /\ []ConsumerInv /\ [][Next]_vars
  BY ObserversOnlyLook, ConsumerRunsConfig, ConfigInvariant, ConsumerInvariant, PTL
     DEF Spec
<1> QED
  BY <1>1, <1>2, <1>3, PTL DEF ObserversSpec

\* A connected client that has nothing to receive shows the last broadcast or
\* newer, however often it was late (handle_ws).
THEOREM LastBroadcastShown == ObserversSpec => []ShowsLastBroadcast
<1>1. ObserversInv => ShowsLastBroadcast
  <2> SUFFICES ASSUME ObserversInv, NEW c \in Clients,
                      client[c].on, ring # <<>>, client[c].unread = 0,
                      NEW s \in Watched
               PROVE  client[c].shown[s] >= ring[Len(ring)][s]
    BY DEF ShowsLastBroadcast
  <2> DEFINE k == Len(ring)
  <2>1. Shows(client[c], ring)
    BY DEF ObserversInv, ClientInv, Off
  <2>2. k \in DOMAIN ring /\ k \in Nat /\ ring[k] \in Updates
    BY DEF ObserversInv, RingInv
  <2>3. k <= k - client[c].unread
    BY <2>2
  <2>4. Rises(ring[k], client[c].shown) /\ client[c].shown \in Updates
    BY <2>1, <2>2, <2>3 DEF Shows
  <2>5. ring[k][s] \in Nat /\ client[c].shown[s] \in Nat
        /\ ring[k][s] <= client[c].shown[s]
    BY <2>2, <2>4 DEF Rises, Updates
  <2> QED
    BY <2>5
<1> QED
  BY <1>1, ObserversInvariant, PTL

\* While it is connected a client never goes back to an older sample, from the
\* first update on and over however many broadcasts (handle_ws, broadcast_loop).
THEOREM ClientsNeverGoBack == ObserversSpec => NeverOlder
<1>1. ConfigInv /\ ConfigInv' /\ ConsumerInv /\ ObserversInv /\ ObserversInv'
        /\ [ObserversNext]_allVars /\ [Next]_vars
      => [\A c \in Clients : client[c].on /\ client'[c].on =>
            \A s \in Watched : client'[c].shown[s] >= client[c].shown[s]]_allVars
  <2> SUFFICES ASSUME ConfigInv, ConfigInv', ConsumerInv, ObserversInv, ObserversInv',
                      [ObserversNext]_allVars, [Next]_vars,
                      NEW c \in Clients, client[c].on, client'[c].on, NEW s \in Watched
               PROVE  client'[c].shown[s] >= client[c].shown[s]
    OBVIOUS
  <2>1. Rises(client[c].shown, client'[c].shown)
    BY ObserversStep DEF NeverBack
  <2>2. client[c].shown \in Updates /\ client'[c].shown \in Updates
    BY DEF ObserversInv, ClientInv, Shows, Off
  <2>3. /\ client[c].shown[s] \in Nat /\ client'[c].shown[s] \in Nat
        /\ client[c].shown[s] <= client'[c].shown[s]
    BY <2>1, <2>2 DEF Rises, Updates
  <2> QED
    BY <2>3
<1>2. ObserversSpec => []ConfigInv /\ []ConsumerInv /\ [][Next]_vars
  BY ObserversOnlyLook, ConsumerRunsConfig, ConfigInvariant, ConsumerInvariant, PTL
     DEF Spec
<1> QED
  BY <1>1, <1>2, ObserversInvariant, PTL DEF ObserversSpec, NeverOlder

=============================================================================
