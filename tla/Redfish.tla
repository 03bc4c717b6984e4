------------------------------ MODULE Redfish ------------------------------
(***************************************************************************)
(* The Redfish service beside the Modbus server: resources built for each  *)
(* request from the configuration and the store, and PATCH, which turns a  *)
(* physical value back into a raw one and writes it to the device of the   *)
(* URL.  Both services share the write path of ModbusServer.  A poll and   *)
(* the main loop's work on its batch are one step here: Acquisition and    *)
(* Consumer have what lies between.                                        *)
(*                                                                         *)
(* A pipeline is a scale (raw * Factor + Offset), which stands first or,   *)
(* for the sensors in Late, after another stage.  Physical values, factors *)
(* and offsets are counted in parts, Unit of which are 1; any sign is      *)
(* legal, and 0.  They are numbers of few digits, and what is shown is     *)
(* exact; the rounding of 64-bit floats matters in one place: a quotient   *)
(* that is whole may fall short of it, as that of 0.29 and 0.01 does, and  *)
(* so it does for the readings in Short.  The value of a computed sensor   *)
(* is left out: it has one or not.                                         *)
(*                                                                         *)
(* ScaleThenOffset and Owner are faulty variants of the definitions below  *)
(* them; no action uses one.                                               *)
(***************************************************************************)
EXTENDS ModbusServer, ComputedOrder

CONSTANTS Top,             \* largest value of a word (65535 in the code)
          Unit,            \* parts of the physical value 1
          Factor, Offset,  \* the scale of the pipeline of each sensor, in parts
          Short,           \* sensors and readings whose quotient falls short
          Late,            \* sensors whose pipeline has the scale later
          Readings,        \* physical values that PATCH requests carry
          KindOf           \* what the unit of a sensor says: classify

ASSUME ScaleAssumption ==
  /\ Top \in Nat /\ Unit \in Nat \ {0}
  /\ Factor \in [Sensors -> Int] /\ Offset \in [Sensors -> Int]
  /\ Short \subseteq Sensors \X Readings
  /\ Late \subseteq Sensors
  /\ Readings \subseteq Int
  /\ KindOf \in [Sensors -> {"Temperature", "Fan", "Voltage", "Current", "Other"}]

VARIABLE store  \* raw value of each sensor: <<>> if none

redfishVars == <<config, revision, file, up, request, image, store>>

EmptyStore == [s \in Sensors |-> <<>>]

-----------------------------------------------------------------------------
(* build_views *)

\* The physical value of a raw one.
Physical(c, s, n) == IF s \in c.pipes THEN n * Factor[s] + Offset[s] ELSE n * Unit

\* value_of: the metric if there is a pipeline, the raw value otherwise.
Reading(c, st, s) ==
  IF st[s] = <<>> THEN <<>> ELSE <<Physical(c, s, st[s][1])>>

View(c, st, device, s, computed, area, access) ==
  [sensor |-> s, device |-> device, computed |-> computed, area |-> area,
   access |-> access, reading |-> Reading(c, st, s),
   health |-> IF s \in c.pipes \/ computed THEN "OK" ELSE "Unknown"]

\* Registers in the order of the file, then the computed sensors.
Views(c, st) ==
  FlattenSeq([i \in DOMAIN Devices |->
    LET d == Devices[i] IN
    [k \in DOMAIN c.regs[d] |->
       View(c, st, d, c.regs[d][k].sensor, FALSE, c.regs[d][k].area,
            c.regs[d][k].access)]])
  \o [j \in DOMAIN c.computed |->
        View(c, st, "", c.computed[j].sensor, TRUE, "input", "read")]

\* A chassis shows the registers of its device and every computed sensor.
ChassisViews(views, device) ==
  FlattenSeq([i \in DOMAIN views |->
                IF views[i].device = device \/ views[i].computed
                THEN <<views[i]>> ELSE <<>>])

\* The first view with the identifier, if there is one.
Find(views, s) == {views[i] : i \in {j \in DOMAIN views :
                     /\ views[j].sensor = s
                     /\ \A k \in 1..(j - 1) : views[k].sensor # s}}

-----------------------------------------------------------------------------
(* GET: resources, made from the views, link to each other by device and    *)
(* sensor                                                                   *)

ChassisCollection == Devices

\* sensor_collection: the links of its members.
SensorCollection(views, device) ==
  LET shown == ChassisViews(views, device)
  IN  [i \in DOMAIN shown |-> <<device, shown[i].sensor>>]

\* sensor: {} is 404.
Sensor(views, device, s) == Find(ChassisViews(views, device), s)

OfKind(views, device, kind) ==
  LET shown == ChassisViews(views, device)
  IN  FlattenSeq([i \in DOMAIN shown |->
                    IF KindOf[shown[i].sensor] = kind THEN <<shown[i]>> ELSE <<>>])

\* thermal has temperatures and fans, power the voltages.
Thermal(views, device) == [temps |-> OfKind(views, device, "Temperature"),
                           fans |-> OfKind(views, device, "Fan")]
Power(views, device) == OfKind(views, device, "Voltage")

\* status_json: a view without a value is disabled.
State(v) == IF v.reading = <<>> THEN <<"Disabled", "NA">>
            ELSE <<"Enabled", v.health>>

\* chassis: enabled when any of its views has a value.
ChassisState(views, device) ==
  IF \E v \in ToSet(ChassisViews(views, device)) : v.reading # <<>>
  THEN <<"Enabled", "OK">> ELSE <<"Disabled", "NA">>

-----------------------------------------------------------------------------
(* PATCH *)

Quotient(num, den, short) ==
  IF den > 0 THEN [num |-> num, den |-> den, short |-> short]
  ELSE [num |-> -num, den |-> -den, short |-> short]

\* The inverse that REDFISH.md gives: physical / scale - offset.
ScaleThenOffset(c, s, reading) ==
  IF s \in c.pipes \ Late /\ Factor[s] # 0
  THEN Quotient(reading * Unit - Offset[s] * Factor[s], Factor[s] * Unit,
                <<s, reading>> \in Short)
  ELSE Quotient(reading, Unit, FALSE)

\* reverse_scale looks at the first stage only.
ReverseScale(c, s, reading) ==
  IF s \in c.pipes \ Late /\ Factor[s] # 0
  THEN Quotient(reading - Offset[s], Factor[s], <<s, reading>> \in Short)
  ELSE Quotient(reading, Unit, FALSE)

\* The whole part of a quotient above 0.
Truncated(raw) == (IF raw.short THEN raw.num - 1 ELSE raw.num) \div raw.den

\* WriteValue: the cast to u16 truncates and saturates; a coil is on unless
\* the raw value is zero.
RawWord(area, raw) ==
  IF area = "coil" THEN IF raw.num = 0 THEN 0 ELSE 1
  ELSE IF raw.num <= 0 THEN 0
  ELSE IF Truncated(raw) > Top THEN Top ELSE Truncated(raw)

\* The write goes to the device that has the sensor.
Owner(device, s) ==
  CHOOSE d \in DeviceSet : \E i \in DOMAIN config.regs[d] :
                             config.regs[d][i].sensor = s

\* WriteBroker routes by the device of the URL.
Routed(device, s) == device

\* A PATCH that waits in the queue of a device.
PendingPatch(url, reading, fc, word, device, s) ==
  [st |-> "pending", by |-> "redfish", url |-> url, reading |-> reading,
   fc |-> fc, addr |-> 0, words |-> <<word>>, device |-> device, sensor |-> s,
   target |-> <<>>, executed |-> FALSE]

Refusal(code) == [st |-> "refused", code |-> code]

\* update_sensor: <<>> is a body without a reading.  The sensor is looked for
\* on every device, the write goes to the queue of the device in the URL.
Patch(w, device, s, reading) ==
  /\ up
  /\ request[w] = Idle
  /\ \/ /\ reading = <<>>
        /\ request' = [request EXCEPT ![w] = Refusal("400")]
     \/ /\ reading # <<>>
        /\ Find(Views(config, store), s) = {}
        /\ request' = [request EXCEPT ![w] = Refusal("404")]
     \/ /\ reading # <<>>
        /\ \E v \in Find(Views(config, store), s) :
             request' = [request EXCEPT ![w] =
               IF v.computed \/ v.access # "read_write" \/ v.area \notin {"holding", "coil"}
               THEN Refusal("405")
               ELSE PendingPatch(device, reading[1],
                      IF v.area = "coil" THEN "coil" ELSE "word",
                      RawWord(v.area, ReverseScale(config, s, reading[1])),
                      Routed(device, s), s)]
  /\ UNCHANGED <<configVars, image, store>>

-----------------------------------------------------------------------------
(* Polls *)

\* A 32-bit register has its high word first.
Polled(d, r) ==
  LET word(k) == image[<<d, r.area, r.addr + k>>]
  IN  IF r.words = 1 THEN word(0) ELSE word(0) * (Top + 1) + word(1)

RunComputed(st, sensors) ==
  FoldLeft(LAMBDA acc, c :
             IF \A i \in DOMAIN c.inputs : acc[c.inputs[i]] # <<>>
             THEN [acc EXCEPT ![c.sensor] = <<0>>] ELSE acc,
           st, sensors)

Poll(d) ==
  /\ up
  /\ store' = RunComputed(
       FoldLeft(LAMBDA acc, r : [acc EXCEPT ![r.sensor] = <<Polled(d, r)>>],
                store, config.regs[d]),
       BuildOrder(config.computed))
  /\ UNCHANGED <<configVars, request, image>>

-----------------------------------------------------------------------------
RedfishInit == Init /\ store = EmptyStore

RedfishNext ==
  \/ \E q \in Additions : HotAdd(q) /\ UNCHANGED <<request, image, store>>
  \/ StopServer /\ store' = EmptyStore
  \/ Load /\ UNCHANGED <<request, image, store>>
  \/ \E w \in Writes : /\ Master(w) \/ Forward(w) \/ Execute(w)
                          \/ Acknowledge(w) \/ Failed(w)
                       /\ UNCHANGED store
  \/ \E w \in Writes, d \in DeviceSet, s \in Sensors,
        v \in {<<>>} \cup {<<x>> : x \in Readings} : Patch(w, d, s, v)
  \/ \E d \in DeviceSet : Poll(d)

RedfishSpec == RedfishInit /\ [][RedfishNext]_redfishVars

-----------------------------------------------------------------------------
(* Properties *)

\* Whatever was added, every sensor of the gateway can be reached from the root
\* along the links of the resources, under the chassis of its own device (under
\* every chassis if computed) and as itself: the first view with its identifier is its own.  A view in Thermal or
\* Power is that of a sensor of the same chassis (chassis_collection,
\* sensor_collection, sensor, thermal, power).
EverySensorReachable ==
  LET views == Views(config, store) IN
  /\ \A v \in ToSet(views) :
       \A d \in {e \in ToSet(ChassisCollection) : v.computed \/ v.device = e} :
         /\ <<d, v.sensor>> \in ToSet(SensorCollection(views, d))
         /\ Sensor(views, d, v.sensor) = {v}
  /\ \A d \in DeviceSet :
       \A v \in ToSet(Thermal(views, d).temps \o Thermal(views, d).fans \o Power(views, d)) :
         /\ Sensor(views, d, v.sensor) = {v}
         /\ State(v)[1] = "Enabled" => ChassisState(views, d)[1] = "Enabled"

\* The handler of a successful PATCH finds the sensor among the views of the
\* chassis again, which it takes for granted (unwrap in update_sensor): no
\* write succeeds for a sensor the device in the URL does not have, and no
\* sensor goes away while a write waits.
PatchedSensorListed ==
  [][\A w \in Writes :
       request[w].st = "sent" /\ request'[w].st = "acknowledged" /\ request[w].by = "redfish"
       => Sensor(Views(config', store'), request[w].url,
                 request[w].sensor) # {}]_redfishVars

\* What a sensor shows for a raw value of one word.
Shown(s, n) == Physical(config, s, n)

Between(a, x, b) == (a <= x /\ x <= b) \/ (b <= x /\ x <= a)

\* What the poll after a PATCH shows is the reading that was asked for, rounded
\* toward that of the raw value 0 to a reading of the register, and no further
\* away than the register goes; one that the register has, but whose quotient
\* falls short, is missed by one step.  A coil is off exactly if its off reading
\* was asked for, unless all readings are the same.  This holds for a scale of
\* either sign if the register is one word wide, if its pipeline, if any, starts
\* with the scale, and if no other write got between (reverse_scale, the cast to
\* u16, the way to the device and back through the pipeline).
ReadsBack ==
  [][\A w \in Writes, d \in DeviceSet :
       /\ request[w].st \in {"sent", "acknowledged", "failed"}
       /\ request[w].executed /\ request[w].by = "redfish"
       /\ \A x \in Writes \ {w} : request[x].st = "idle"
       /\ Poll(d)
       => \A r \in ToSet(config.regs[d]) :
            LET s     == r.sensor
                asked == request[w].reading
                zero  == Shown(s, 0)
                shown == Reading(config, store', s)[1]
                Shows == {Shown(s, n) : n \in 0..Top}
                Missed(x) == x = asked /\ s \in config.pipes /\ <<s, asked>> \in Short
            IN  request[w].device = d /\ request[w].sensor = s
                /\ r.words = 1 /\ s \notin Late =>
                  IF r.area = "coil"
                  THEN \/ shown = zero <=> asked = zero
                       \/ Shown(s, 1) = zero
                  ELSE /\ shown \in Shows
                       /\ Between(zero, shown, asked) \/ shown = zero
                       /\ \A x \in Shows : Between(zero, x, asked) /\ ~ Missed(x)
                                             => Between(zero, x, shown)]_redfishVars
=============================================================================
