------------------------------ MODULE SimModel ------------------------------
(***************************************************************************)
(* The model behind the device simulator: controls and sensors, whose      *)
(* formulas refer to controls, to the time and to each other; their        *)
(* validation, and the evaluation that follows references depth first.     *)
(*                                                                         *)
(* Only the references of a formula are kept: its value is a constant plus *)
(* the values it refers to, and it is not a number beyond Largest.  Time   *)
(* passes between evaluations, not within one.                             *)
(*                                                                         *)
(* RememberAll and StrictOverlap are faulty variants of the definitions    *)
(* below them; nothing uses one.                                           *)
(***************************************************************************)
EXTENDS Codec, SequencesExt

CONSTANTS Largest,       \* the largest finite number
          AddressSpace,  \* number of addresses (2^16 in the code)
          NoAddress      \* an address that is not given

Names(q) == {q[i].name : i \in DOMAIN q}

\* f with the value v for all of T.
Put(f, T, v) == [x \in T \cup DOMAIN f |-> IF x \in T THEN v ELSE f[x]]

\* iter_sensors: primary side, secondary side, the rest; a side that is not
\* configured has no sensors.
Sensors(sim) ==
  LET OfSide(side) == side.input \o side.output \o side.auxiliary
  IN  OfSide(sim.pri) \o OfSide(sim.sec) \o sim.sensors

\* The one with a name.
Named(q, name) == q[CHOOSE i \in DOMAIN q : q[i].name = name]

\* The first whose last part of the name is a given one.
FirstShort(q, short) == q[CHOOSE i \in DOMAIN q :
                            /\ q[i].short = short
                            /\ \A j \in 1..(i - 1) : q[j].short # short]

SensorNamed(sim, name) == Named(Sensors(sim), name)

-----------------------------------------------------------------------------
(* Items: what has an address, controls before sensors *)

StorageWidth(s) == IF s.storage = "f32" THEN 2 ELSE 1

ControlItem(c) ==
  [area |-> "holding", address |-> c.address, width |-> 1,
   slot |-> [kind |-> "control", name |-> c.name, writable |-> c.writable]]

SensorItem(s) ==
  [area |-> s.area, address |-> s.address, width |-> StorageWidth(s),
   slot |-> [kind |-> "sensor", name |-> s.name, storage |-> s.storage,
             encode |-> s.encode]]

Items(sim) ==
  [i \in DOMAIN sim.controls |-> ControlItem(sim.controls[i])]
  \o [i \in DOMAIN Sensors(sim) |-> SensorItem(Sensors(sim)[i])]

-----------------------------------------------------------------------------
(* validate *)

\* Spans that share their end are not taken to overlap.
StrictOverlap(a, b) == a[1] < b[2] /\ a[2] > b[1]

SpanOverlap(a, b) == a[1] <= b[2] /\ a[2] >= b[1]

\* First and last address of an item.  For sensors it is computed with a sum that
\* saturates: one that takes the last address is thought to end before it.
Span(item) ==
  LET end == item.address + item.width
      last == AddressSpace - 1
  IN  <<item.address,
        IF item.slot.kind = "control" THEN item.address
        ELSE (IF end > last THEN last ELSE end) - 1>>

Validate(sim) ==
  LET all == Sensors(sim)
      items == Items(sim)
  IN  /\ \A i, j \in DOMAIN sim.controls :
           i # j => sim.controls[i].name # sim.controls[j].name
      /\ \A i, j \in DOMAIN all : i # j => all[i].name # all[j].name
      /\ \A j \in DOMAIN items : \A i \in 1..(j - 1) :
           /\ items[i].area = items[j].area
           /\ items[i].address # NoAddress /\ items[j].address # NoAddress
           => ~ SpanOverlap(Span(items[j]), Span(items[i]))
      /\ \A s \in ToSet(all) : \A v \in DOMAIN s.inputs :
           s.inputs[v] \in Names(sim.controls) \cup Names(all)

-----------------------------------------------------------------------------
(* Names in formulas *)

Control(name) == [kind |-> "control", name |-> name]
Sensor(name) == [kind |-> "sensor", name |-> name]
Clock == [kind |-> "time"]

\* value_of: the target of an inputs mapping.
TargetOf(sim, target) ==
  IF target \in Names(sim.controls) THEN Control(target)
  ELSE IF target = "t" THEN Clock
  ELSE IF target \in Names(Sensors(sim)) THEN Sensor(target)
  ELSE [kind |-> "unknown"]

\* A name in the formula of s: an input, a control, the time, or the last part
\* of the name of a sensor, which may be s itself.
Resolve(sim, s, name) ==
  IF name \in DOMAIN s.inputs THEN TargetOf(sim, s.inputs[name])
  ELSE IF name \in Names(sim.controls) THEN Control(name)
  ELSE IF name = "t" THEN Clock
  ELSE IF \E x \in ToSet(Sensors(sim)) : x.short = name
       THEN Sensor(FirstShort(Sensors(sim), name).name)
  ELSE [kind |-> "unbound"]

-----------------------------------------------------------------------------
(* Evaluation.  A world w has the configuration, the values of the controls *)
(* and the time; st the memo and the stack of sensors being visited.        *)

FormulaValue(s, env) == FoldLeft(LAMBDA n, name : n + env[name], s.constant, s.refs)

Finite(n) == -Largest <= n /\ n <= Largest

\* Values that are not finite are remembered as well.
RememberAll(st, name, v) ==
  [st EXCEPT !.memo[name] = v, !.ok = Finite(v), !.value = v]

Remember(st, name, v) ==
  IF Finite(v) THEN [st EXCEPT !.memo[name] = v, !.value = v]
  ELSE [st EXCEPT !.ok = FALSE]

\* The first value of a name in a formula counts.
With(env, ref, v) == IF ref \in DOMAIN env THEN env ELSE Put(env, {ref}, v)

Bound(acc, ref, v) == [acc EXCEPT !.env = With(@, ref, v)]

\* Back from the sensor that a name refers to.
Back(acc, ref, below) ==
  [st |-> below, env |-> IF below.ok THEN With(acc.env, ref, below.value) ELSE acc.env]

Bind(w, evals, acc, ref, target) ==
  IF ~ acc.st.ok THEN acc
  ELSE CASE target.kind = "control" -> Bound(acc, ref, w.controls[target.name])
         [] target.kind = "time"    -> Bound(acc, ref, w.now)
         [] target.kind = "unbound" -> acc
         [] target.kind = "unknown" -> [acc EXCEPT !.st.ok = FALSE]
         [] target.kind = "sensor"  -> Back(acc, ref, evals[target.name][acc.st])

\* All names that resolve are bound, and the stack is popped; a sensor that
\* fails before leaves itself, and those above it, on the stack.
Complete(s, acc) ==
  IF ~ acc.st.ok THEN acc.st
  ELSE LET popped == [acc.st EXCEPT !.visiting = Front(@)]
       IN  IF ToSet(s.refs) \subseteq DOMAIN acc.env
           THEN Remember(popped, s.name, FormulaValue(s, acc.env))
           ELSE [popped EXCEPT !.ok = FALSE]

\* The names in the formula, one after the other.
BindRefs(w, evals, start, s) ==
  FoldLeft(LAMBDA acc, ref : Bind(w, evals, acc, ref, Resolve(w.sim, s, ref)),
           start, s.refs)

EvalSensor(w, evals, st, s) ==
  LET pushed == [st EXCEPT !.ok = TRUE, !.visiting = Append(@, s.name)]
  IN  Complete(s, BindRefs(w, evals, [st |-> pushed, env |-> <<>>], s))

EvalOne(w, evals, st, name) ==
  IF st.memo[name] # NaN THEN [st EXCEPT !.ok = TRUE, !.value = st.memo[name]]
  ELSE IF name \in ToSet(st.visiting) THEN [st EXCEPT !.ok = FALSE]
  ELSE EvalSensor(w, evals, st, SensorNamed(w.sim, name))

\* Nothing is remembered where the memo has NaN.
EvalStates(sim) ==
  LET ids == Names(Sensors(sim))
  IN  [memo : [ids -> Int \cup {NaN}], visiting : Seq(ids), ok : BOOLEAN, value : Int]

\* The evaluations of the sensors, as functions from the state before to the
\* state after, from those that sensors below them have.
Level(w, evals) ==
  [name \in Names(Sensors(w.sim)) |->
     [st \in EvalStates(w.sim) |-> EvalOne(w, evals, st, name)]]

\* There is one level for each sensor: every level has another sensor on the
\* stack, so none is cut off.
Eval(w) ==
  FoldLeft(LAMBDA evals, s : Level(w, evals),
           [name \in Names(Sensors(w.sim)) |->
              [st \in EvalStates(w.sim) |-> [st EXCEPT !.ok = FALSE]]],
           Sensors(w.sim))

KeepValue(acc, s, st) ==
  [st |-> st, values |-> IF st.ok THEN Put(acc.values, {s.name}, st.value)
                         ELSE acc.values]

\* eval_all: the values of the sensors that have one.
EvalAll(w) ==
  FoldLeft(LAMBDA acc, s : KeepValue(acc, s, Eval(w)[s.name][acc.st]),
           [st |-> [memo |-> [name \in Names(Sensors(w.sim)) |-> NaN],
                    visiting |-> <<>>, ok |-> TRUE, value |-> 0],
            values |-> <<>>], Sensors(w.sim)).values
=============================================================================
