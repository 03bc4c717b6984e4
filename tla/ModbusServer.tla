---------------------------- MODULE ModbusServer ----------------------------
(***************************************************************************)
(* The Modbus-TCP server over the configuration of HotConfig.  Its address *)
(* table is rebuilt from the configuration for every request; a write is   *)
(* resolved to a sensor in the step that receives it, and goes through     *)
(* WriteBroker to the device, which executes it later or not at all (the   *)
(* module Acquisition has the way in between; here it is one step).        *)
(*                                                                         *)
(* ComputedFirst and SameAddress are faulty variants of the definitions    *)
(* below them; no action uses one.                                         *)
(***************************************************************************)
EXTENDS HotConfig, SequencesExt

CONSTANTS Writes,    \* the write requests masters make in a behaviour
          Words      \* the values they write; initially all words are 0

ASSUME WordsAssumption == 0 \notin Words

VARIABLES
  request,   \* progress of each write request
  image      \* words and bits of each device, by area and PCBA address

vars == <<config, revision, file, up, request, image>>

-----------------------------------------------------------------------------
(* build_table *)

\* append_words, or one push into a bit area: the slots of one register.
Slots(device, r) ==
  [i \in 1..r.words |-> [device |-> device, sensor |-> r.sensor,
                         words |-> r.words, word |-> i - 1,
                         access |-> r.access]]

DeviceSlots(c, device, area) ==
  FlattenSeq([i \in DOMAIN c.regs[device] |->
                IF c.regs[device][i].area = area
                THEN Slots(device, c.regs[device][i]) ELSE <<>>])

\* Computed sensors are read-only 32-bit floats without a device.
ComputedSlots(c) ==
  FlattenSeq([j \in DOMAIN c.computed |->
                Slots("", [sensor |-> c.computed[j].sensor, words |-> 2,
                           access |-> "read"])])

RegisterSlots(c, area) ==
  FlattenSeq([i \in DOMAIN Devices |-> DeviceSlots(c, Devices[i], area)])

\* Computed sensors stand before the input registers.
ComputedFirst(c, area) ==
  (IF area = "input" THEN ComputedSlots(c) ELSE <<>>) \o RegisterSlots(c, area)

\* The slot at address n is the element n + 1.
Table(c, area) ==
  RegisterSlots(c, area) \o (IF area = "input" THEN ComputedSlots(c) ELSE <<>>)

\* The addresses at which word k of a sensor stands in a table.
Addresses(table, sensor, k) ==
  {n \in 0..(Len(table) - 1) :
     table[n + 1].sensor = sensor /\ table[n + 1].word = k}

-----------------------------------------------------------------------------
(* Requests *)

AreaOf(fc) == IF fc = "coil" THEN "coil" ELSE "holding"

\* write_bit, write_word and write_words: which slots accept a write.
Writable(fc, slot) == /\ slot.access = "read_write"
                      /\ fc # "coil" => slot.words = 1

Idle == [st |-> "idle"]

\* The exception for a request that is not forwarded, or "" if it is.
Exception(fc, addr) ==
  LET table == Table(config, AreaOf(fc)) IN
  IF addr >= Len(table) THEN "IllegalDataAddress"
  ELSE IF ~ Writable(fc, table[addr + 1]) THEN "IllegalFunction"
  ELSE ""

\* A write that waits in the queue of a device.
Pending(fc, addr, words, device, sensor) ==
  [st |-> "pending", by |-> "modbus", fc |-> fc, addr |-> addr, words |-> words,
   device |-> device, sensor |-> sensor, target |-> <<>>, executed |-> FALSE]

\* WriteSingleCoil, WriteSingleRegister or WriteMultipleRegisters: the first
\* word is forwarded to the sensor whose slot has the address.
Submit(w, fc, addr, words) ==
  /\ up
  /\ request[w] = Idle
  /\ request' = [request EXCEPT ![w] =
       IF Exception(fc, addr) # ""
       THEN [st |-> "refused", code |-> Exception(fc, addr)]
       ELSE LET slot == Table(config, AreaOf(fc))[addr + 1]
            IN  Pending(fc, addr, words, slot.device, slot.sensor)]
  /\ UNCHANGED <<configVars, image>>

\* The address of the request taken for that of the register.
SameAddress(w, reg) == <<request[w].device, reg.area, request[w].addr>>

Target(w, reg) == <<request[w].device, reg.area, reg.addr>>

\* The poll task finds the register of the sensor, checks it again
\* (writable_register), and sends the write to the address of the register.
Forward(w) ==
  /\ request[w].st = "pending"
  /\ request[w].device \in DeviceSet
  /\ \E reg \in ToSet(config.regs[request[w].device]) :
       /\ reg.sensor = request[w].sensor
       /\ reg.area = AreaOf(request[w].fc)
       /\ reg.access = "read_write"
       /\ request' = [request EXCEPT ![w].st = "sent",
                                     ![w].target = Target(w, reg)]
  /\ UNCHANGED <<configVars, image>>

\* The device executes a write it was sent, at any time after that.
Execute(w) ==
  /\ request[w].st \in {"sent", "failed", "lost"}
  /\ ~ request[w].executed
  /\ image' = [image EXCEPT ![request[w].target] = request[w].words[1]]
  /\ request' = [request EXCEPT ![w].executed = TRUE]
  /\ UNCHANGED configVars

Acknowledge(w) ==
  /\ request[w].st = "sent"
  /\ request[w].executed
  /\ request' = [request EXCEPT ![w].st = "acknowledged"]
  /\ UNCHANGED <<configVars, image>>

\* Any WriteError becomes ServerDeviceFailure.
Failed(w) ==
  /\ \/ /\ request[w].st = "pending"
        /\ request' = [request EXCEPT ![w] =
                         [st |-> "refused", code |-> "ServerDeviceFailure"]]
     \/ /\ request[w].st = "sent"
        /\ request' = [request EXCEPT ![w].st = "failed"]
  /\ UNCHANGED <<configVars, image>>

\* The connections of the masters end with the process, also that of a request
\* that has its answer; what was sent to a device may still be executed.
StopServer == /\ Stop
              /\ request' = [w \in Writes |->
                   CASE request[w].st \in {"pending", "acknowledged"} -> [st |-> "dropped"]
                     [] request[w].st \in {"sent", "failed"} ->
                          [request[w] EXCEPT !.st = "lost"]
                     [] OTHER -> request[w]]
              /\ UNCHANGED image

Init == /\ ConfigInit
        /\ request = [w \in Writes |-> Idle]
        /\ image = [p \in DeviceSet \X Areas \X (0..AddrMax) |-> 0]

\* Addresses up to one beyond the largest table; one or two words.
Master(w) ==
  \/ \E fc \in {"coil", "word", "words"}, v \in Words,
        addr \in 0..Len(Table(config, "holding")) :
       Submit(w, fc, addr, <<v>>)
  \/ \E addr \in 0..Len(Table(config, "holding")), v1, v2 \in Words :
       Submit(w, "words", addr, <<v1, v2>>)

Next == \/ \E q \in Additions : HotAdd(q) /\ UNCHANGED <<request, image>>
        \/ StopServer
        \/ Load /\ UNCHANGED <<request, image>>
        \/ \E w \in Writes : Master(w) \/ Forward(w) \/ Execute(w)
                             \/ Acknowledge(w) \/ Failed(w)

Spec == Init /\ [][Next]_vars

-----------------------------------------------------------------------------
(* Properties *)

TypeOK ==
  /\ ConfigTypeOK
  /\ \A w \in Writes :
       request[w].st \in {"idle", "refused", "pending", "sent",
                          "acknowledged", "failed", "lost", "dropped"}
  /\ image \in [DeviceSet \X Areas \X (0..AddrMax) -> Words \cup {0}]

\* Every word of every sensor has exactly one address in the whole table, and
\* the words of a sensor follow each other: a master that reads a 32-bit value
\* gets both halves of the same sensor (build_table, append_words).
OneAddressPerWord ==
  LET Entries == {[area |-> At(config, p).area, sensor |-> At(config, p).sensor,
                   words |-> At(config, p).words] : p \in Places(config)}
                 \cup {[area |-> "input", sensor |-> id, words |-> 2] :
                         id \in Ids(config.computed)}
  IN  \A area \in Areas :
        LET table == Table(config, area) IN
        \A e \in Entries :
          IF area # e.area THEN Addresses(table, e.sensor, 0) = {}
          ELSE \E n \in 0..Len(table) : \A k \in 0..(e.words - 1) :
                 Addresses(table, e.sensor, k) = {n + k}

\* The device has the register that an operator tried to add.
Has(c, q) == q.device \in DeviceSet /\ Contains(c.regs[q.device], q.register)

\* A slot behind those of device d: of a later device, or computed.
IsLater(c, slot, d) ==
  \/ slot.sensor \in Ids(c.computed)
  \/ \E i, j \in DOMAIN Devices : i < j /\ Devices[i] = d /\ Devices[j] = slot.device

\* The slots of the old table stand in the new one, those behind device d further
\* up by a number of words.
MovedUp(c, old, new, d, words) ==
  \A n \in DOMAIN old :
    LET m == n + (IF IsLater(c, old[n], d) THEN words ELSE 0)
    IN  m \in DOMAIN new /\ new[m] = old[n]

\* What an added register does to the table: the addresses of other areas, of
\* earlier devices and of the registers before it on its device stay; those of
\* later devices and of computed sensors in its area move up by its width
\* (create_register with build_table).
MovesOnlyLater ==
  [][revision' > revision =>
     \A q \in Additions : ~ Has(config, q) /\ Has(config', q) =>
       \A area \in Areas :
         MovedUp(config, Table(config, area), Table(config', area), q.device,
                 IF area = q.register.area THEN q.register.words ELSE 0)]_vars

Claim(d, r) == {<<d, r.area, a>> : a \in r.addr..(r.addr + r.words - 1)}

Changed == {p \in DOMAIN image : image'[p] # image[p]}

\* A write of a process that has stopped since is executed late.
FromBefore ==
  \E w \in Writes : request[w].st = "lost" /\ request'[w] # request[w]

\* A write changes the words of at most one register, the one that stood at the
\* address (or had the name) of the request when that was made, and that one is
\* writable: registers that are added before the device executes the write,
\* however late, never divert it (write_bit, write_word, write_words, the second
\* lookup by the poll task).  That does not hold of a write sent by an earlier
\* process: if the save of its register failed, the restarted gateway may have
\* given the place in the device to another one.
WriteHitsItsSensor ==
  [][image' # image /\ ~ FromBefore =>
     \A p \in Places(config) :
       Claim(p[1], At(config, p)) \cap Changed # {} =>
         /\ At(config, p).access = "read_write"
         /\ \E w \in Writes : /\ request[w].st \in {"sent", "failed"}
                              /\ ~ request[w].executed
                              /\ request[w].device = p[1]
                              /\ request[w].sensor = At(config, p).sensor]_vars

\* What MODBUS_SERVER.md says of a register at the end of the configuration,
\* as create_register adds it to the last device: the addresses in use stay.
AppendKeepsAddresses ==
  [][\A q \in Additions :
       /\ revision' > revision
       /\ ~ Has(config, q) /\ Has(config', q)
       /\ q.device = Devices[Len(Devices)]
       => \A area \in Areas :
            IsPrefix(Table(config, area), Table(config', area))]_vars

\* What MODBUS_SERVER.md says of function 0x10, write multiple holding
\* registers: when it is acknowledged, each of its words has been written.
AllWordsWritten ==
  [][\A w \in Writes :
       request[w].st = "sent" /\ request'[w].st = "acknowledged" =>
         \A k \in DOMAIN request[w].words :
           LET addr  == request[w].addr + k
               table == Table(config, AreaOf(request[w].fc))
           IN  addr \in DOMAIN table =>
                 \E i \in DOMAIN config.regs[table[addr].device] :
                   LET r == config.regs[table[addr].device][i] IN
                   /\ r.sensor = table[addr].sensor
                   /\ image'[<<table[addr].device, r.area, r.addr>>]
                        = request[w].words[k]]_vars
=============================================================================
