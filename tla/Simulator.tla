----------------------------- MODULE Simulator -----------------------------
(***************************************************************************)
(* The device simulator at work: a Modbus slave and a web page over one    *)
(* model.  A request is handled in one step, but time goes on while its    *)
(* words, or those of a page, are evaluated one after the other.           *)
(*                                                                         *)
(* KeepsGoing is a faulty variant of the definition below it; no action    *)
(* uses it.                                                                *)
(***************************************************************************)
EXTENDS SimRegisters, FiniteSets

CONSTANTS SimConfigs,    \* configuration files that parse
          DutyMax,       \* upper end of the range of controls (100)
          Settings,      \* values the web page sets
          Payload,       \* words that masters write
          MaxWords,      \* bound on the words of a request
          MaxTime        \* bound on the time

ASSUME SimAssumption == /\ AddressSpace \in Nat \ {0}
                        /\ DutyMax \in 0..(Base - 1)
                        /\ Payload \subseteq WordSet
                        /\ MaxTime \in Nat
                        /\ MaxWords \in Nat
                        /\ Settings \subseteq Int

\* What a file can say, apart from the formulas.
ASSUME SimConfigsAssumption ==
  /\ NoAddress \notin Nat
  /\ \A c \in SimConfigs :
       /\ c.controls \in Seq(ToSet(c.controls))
       /\ \A k \in ToSet(c.controls) :
            k.initial \in Int /\ k.address \in Nat \cup {NoAddress}
       /\ Sensors(c) \in Seq(ToSet(Sensors(c)))
       /\ \A s \in ToSet(Sensors(c)) :
            /\ s.refs \in Seq(ToSet(s.refs)) /\ s.constant \in Int
            /\ s.area \in SimAreas /\ s.storage \in {"f32", "u16"}
            /\ s.encode \in Int /\ s.address \in Nat \cup {NoAddress}

ASSUME LargestAssumption == Largest \in Nat

VARIABLES
  sim,       \* the configuration, fixed at the start
  map,       \* the register map, fixed at the start
  controls,  \* value of each control
  now,       \* time since the start
  reply      \* the answer that is on its way to a master or the web page

vars == <<sim, map, controls, now, reply>>

NoReply == [op |-> "none"]

World(t) == [sim |-> sim, controls |-> controls, now |-> t]

-----------------------------------------------------------------------------
(* Reads *)

\* The times at which evaluations that follow each other can happen; since has the
\* first of them at each time from the next one on.
Times(count) ==
  {[i \in 1..count |-> now + Cardinality({k \in DOMAIN since : since[k] <= i})] :
     since \in [1..(MaxTime - now) -> 1..(count + 1)]}

\* ReadHoldingRegisters, ReadInputRegisters, ReadCoils: no address is refused.
Read(area, addr, count) ==
  \E times \in Times(count) :
    /\ reply' = [op |-> "read", area |-> area, addr |-> addr, times |-> times,
                 words |-> [i \in 1..count |->
                   LET w == World(times[i])
                       a == addr + i - 1
                   IN  IF area = "coils" THEN ReadCoil(w, map[area], a)
                       ELSE ReadWord(w, map[area], a)]]
    /\ now' = times[count]
    /\ UNCHANGED <<sim, map, controls>>

-----------------------------------------------------------------------------
(* Writes *)

\* set_control of the engine: any value, but only of a writable control.
SetControl(name) == \E c \in ToSet(sim.controls) : c.name = name /\ c.writable

ControlValue(word) == 2 * Clamp(word, 0, DutyMax)

\* write_control, of one word; a code other than "Ok" ends the request.
WriteControl(acc, addr, word) ==
  IF addr \notin DOMAIN map["holding"] THEN [acc EXCEPT !.code = "IllegalDataAddress"]
  ELSE LET slot == map["holding"][addr] IN
       IF slot.kind # "control" THEN [acc EXCEPT !.code = "IllegalFunction"]
       ELSE IF ~ slot.writable THEN [acc EXCEPT !.code = "IllegalFunction"]
       ELSE IF ~ SetControl(slot.name) THEN [acc EXCEPT !.code = "IllegalDataValue"]
       ELSE [acc EXCEPT !.controls[slot.name] = ControlValue(word)]

\* Words after one that is refused are still written.
KeepsGoing(acc, addr, word) == WriteControl(acc, addr, word)

\* The loop over the words leaves at the first error.
WriteNext(acc, addr, word) ==
  IF acc.code # "Ok" THEN acc ELSE WriteControl(acc, addr, word)

\* Addresses wrap around.
WriteAll(start, addr, words) ==
  FoldLeft(LAMBDA acc, i : WriteNext(acc, (addr + i - 1) % AddressSpace, words[i]),
           start, [i \in DOMAIN words |-> i])

\* WriteSingleRegister, WriteMultipleRegisters
Write(addr, words) ==
  LET done == WriteAll([controls |-> controls, code |-> "Ok"], addr, words)
  IN  /\ controls' = done.controls
      /\ reply' = [op |-> "write", addr |-> addr, words |-> words, code |-> done.code]
      /\ UNCHANGED <<sim, map, now>>

\* Coils and discrete inputs are not written nor read.
Refuse == /\ reply' = [op |-> "refused", code |-> "IllegalFunction"]
          /\ UNCHANGED <<sim, map, controls, now>>

\* POST /api/control
WebSet(name, value) ==
  /\ IF SetControl(name)
     THEN /\ controls' = [controls EXCEPT ![name] = value]
          /\ reply' = [op |-> "web", name |-> name, value |-> value, status |-> 200]
     ELSE /\ reply' = [op |-> "web", name |-> name, value |-> value, status |-> 400]
          /\ UNCHANGED controls
  /\ UNCHANGED <<sim, map, now>>

\* GET /api/state, and what is pushed to websockets: the controls do not change
\* while it is built.
WebState ==
  \E times \in Times(Moments(map)) :
    /\ reply' = [op |-> "state", times |-> times,
                 json |-> StateJson([i \in DOMAIN times |-> World(times[i])], map)]
    /\ now' = times[Len(times)]
    /\ UNCHANGED <<sim, map, controls>>

-----------------------------------------------------------------------------
\* SimConfig::load, SimSlaveState::new
Init == /\ sim \in {c \in SimConfigs : Validate(c)}
        /\ map = Build(sim)
        /\ controls = [n \in Names(sim.controls) |->
                         Named(sim.controls, n).initial]
        /\ now = 0
        /\ reply = NoReply

Master == \/ \E area \in SimAreas, addr \in 0..(AddressSpace - 1),
                count \in 1..MaxWords : Read(area, addr, count)
          \/ \E addr \in 0..(AddressSpace - 1), n \in 1..MaxWords :
               \E words \in [1..n -> Payload] : Write(addr, words)
          \/ Refuse

Web == \/ \E name \in Names(sim.controls) \cup {"nobody"}, value \in Settings :
            WebSet(name, value)
       \/ WebState

Deliver == /\ reply' = NoReply
           /\ UNCHANGED <<sim, map, controls, now>>

\* One answer is on its way at a time: the next exchange sees nothing of it.
Next == \/ reply = NoReply /\ (Master \/ Web)
        \/ reply # NoReply /\ Deliver

Spec == Init /\ [][Next]_vars

-----------------------------------------------------------------------------
(* Properties *)

\* The values a target can have, when those of some sensors are known.
ValuesOf(w, known, target) ==
  CASE target.kind = "control" -> {w.controls[target.name]}
    [] target.kind = "time" -> {w.now}
    [] target.kind = "sensor" -> {known[n] : n \in {target.name} \cap DOMAIN known}
    [] OTHER -> {}

Ready(w, known, s) ==
  \A r \in ToSet(s.refs) : ValuesOf(w, known, Resolve(w.sim, s, r)) # {}

\* What the formula of a sensor gives then.
NextValue(w, known, s) ==
  FormulaValue(s, [r \in ToSet(s.refs) |->
                     CHOOSE v \in ValuesOf(w, known, Resolve(w.sim, s, r)) : TRUE])

Follows(w, known, s) == Ready(w, known, s) /\ Finite(NextValue(w, known, s))

FollowFrom(w, known) ==
  [n \in {s.name : s \in {x \in ToSet(Sensors(w.sim)) : Follows(w, known, x)}} |->
     NextValue(w, known, SensorNamed(w.sim, n))]

\* The values that follow from the formulas, found from the bottom up: after
\* each round also those that only refer to sensors with a value.
BottomUp(w) ==
  FoldLeft(LAMBDA known, s : FollowFrom(w, known), <<>>, Sensors(w.sim))

\* A sensor has a value exactly if its formula can be followed down to controls
\* and the time, without a cycle, an unknown name or a value that is not
\* finite; one that fails never takes down another that does not need it,
\* although the stack of the search is left dirty (eval, eval_all).
EvalExact == EvalAll(World(now)) = BottomUp(World(now))

\* The items of an area.
In(area) == {i \in DOMAIN Items(sim) : Items(sim)[i].area = area}

\* Addresses are given for all items of the area or for none of them, and no
\* sensor is put at the last address, where spans are not what they seem.
Uniform(area) ==
  \/ \A i \in In(area) : Items(sim)[i].address = NoAddress
  \/ \A i \in In(area) : LET item == Items(sim)[i] IN
       /\ item.address # NoAddress
       /\ item.slot.kind = "sensor" => item.address + item.width < AddressSpace

\* What an area has at an address is all that was put there: each item of a
\* configuration that passed validation keeps all of its addresses, which
\* follow each other.  (An area that mixes explicit addresses with implicit
\* ones has no such guarantee: the next implicit item is put behind the last
\* item whatever stands there.)
SlotsKept ==
  \A area \in SimAreas : Uniform(area) =>
    LET slots == map[area] IN
    /\ \A i \in In(area) : LET item == Items(sim)[i] IN
         \E a \in DOMAIN slots :
           {b \in DOMAIN slots : slots[b] = item.slot} = a..(a + Taken(item) - 1)
    /\ \A a \in DOMAIN slots : \E i \in In(area) : slots[a] = Items(sim)[i].slot

\* What a step does to the controls.
Lands ==
  LET At(i) == (reply'.addr + i - 1) % AddressSpace
      Open(i) == /\ At(i) \in DOMAIN map["holding"]
                 /\ map["holding"][At(i)].kind = "control"
                 /\ map["holding"][At(i)].writable
      Done(i) == i \in DOMAIN reply'.words /\ \A j \in 1..i : Open(j)
      Hits(n) == {i \in 1..MaxWords : Done(i) /\ map["holding"][At(i)].name = n}
      Low(v) == IF v < 2 * DutyMax THEN v ELSE 2 * DutyMax
  IN  CASE reply'.op = "write" ->
             /\ reply'.code = "Ok" <=> \A i \in DOMAIN reply'.words : Open(i)
             /\ \A n \in DOMAIN controls :
                  controls'[n] =
                    IF Hits(n) = {} THEN controls[n]
                    ELSE LET last == CHOOSE i \in Hits(n) : \A j \in Hits(n) : j <= i
                         IN  Low(2 * reply'.words[last])
        [] reply'.op = "web" /\ reply'.status = 200 ->
             \A n \in DOMAIN controls :
               controls'[n] = IF n = reply'.name THEN reply'.value ELSE controls[n]
        [] OTHER -> controls' = controls

\* A write changes the controls at its addresses, up to the first address that
\* has no writable control, and no others, to values within their range; it is
\* acknowledged if there is no such address (handle, write_control).  A refused
\* request is thus not undone.  Reads change no control and the web page only
\* the one it names.
WritesLand == [][Lands]_vars

\* Two words that hold a 32-bit sensor were read at times between which it did
\* not change: together they are its value, high word first if it stands at an
\* even address and low word first if not (read_sensor).  Of a sensor that did
\* change the halves may belong to two values.
TwoWordsOneValue ==
  reply.op = "read" /\ reply.area # "coils" =>
    LET slots == map[reply.area]
        ValueAt(n, i) == ValueFrom(EvalAll(World(reply.times[i])), n, NaN)
    IN  \A i \in 1..(Len(reply.words) - 1) :
          LET a == reply.addr + i - 1 IN
          (/\ {a, a + 1} \subseteq DOMAIN slots
           /\ slots[a] = slots[a + 1]
           /\ slots[a].kind = "sensor"
           /\ slots[a].storage = "f32"
           /\ ValueAt(slots[a].name, i) = ValueAt(slots[a].name, i + 1))
          => Combine(SubSeq(reply.words, i, i + 1),
                     IF a % 2 = 0 THEN "big" ELSE "little")
               = FloatBits[Narrow(ValueAt(slots[a].name, i))]

\* The web page lists each sensor of the input area once.  The number it decodes
\* for one at an even address has the halves of values that the sensor had while
\* the page was built, the high one not after the low one; if the sensor did not
\* change meanwhile, it is the value that the page shows for it.  (Every word is
\* evaluated for itself, after the values: of a formula in the time the halves may
\* belong to two values, and neither needs to be the one shown.)  See
\* build_state_json.
WebAgrees ==
  reply.op = "state" /\ Uniform("input") =>
    LET json == reply.json
        span == reply.times[1]..now
        BitsAt(name, t) == FloatBits[Narrow(ValueFrom(EvalAll(World(t)), name, NaN))]
        Shown(name) == FloatBits[Narrow(ValueFrom(json.sensors, name, NaN))]
    IN  /\ \A s \in ToSet(Sensors(sim)) :
             s.area = "input" <=>
               Cardinality({i \in DOMAIN json.inputs : json.inputs[i].name = s.name}) = 1
        /\ \A e \in ToSet(json.inputs) : e.storage = "f32" /\ e.addr % 2 = 0 =>
             /\ \E t \in span : \E u \in t..now :
                  e.bits = (BitsAt(e.name, t) \div Base) * Base + (BitsAt(e.name, u) % Base)
             /\ (\A t \in span : BitsAt(e.name, t) = Shown(e.name))
                  => e.bits = Shown(e.name)
=============================================================================
