# Verification of the telemux gateway

telemux polls industrial controllers (PCBAs) over Modbus, keeps the latest
value of every sensor, and serves the values over Redfish, Modbus-TCP, a health
endpoint and a development dashboard. Writes go the other way: an endpoint hands
a request to the poll task of the device, which performs it between two polls.
This directory holds TLA+ models of the gateway, the TLC configurations that
check them and the proofs TLAPS checks. Paths below are relative to
`crates/telemux/src/` unless they say otherwise.

## 1. The system

| Component | Source | State | Operations | Hard parts |
|---|---|---|---|---|
| Poll scheduler | `acquisition/manager.rs` | per device: source, failure count, interval, write channel | `device_loop`, `poll`, `handle_write`, `wait_backoff` | `select!` between tick, write and shutdown; backoff; a send that blocks |
| Data sources | `acquisition/{mod,tcp,rtu}.rs` | clone of the device configuration, optional client | `connect`, `ensure_connected`, reads, two kinds of write | timeouts and late replies, dropped connections, stale clone |
| Decoder | `acquisition/decoder.rs` | none | words to a value | word order, signs, saturation |
| Write broker | `protocol/mod.rs` | a sender per device | `write`, `build_views` | bounded queue, reply channel, caller that goes away |
| Main loop | `app.rs`, `main.rs` | pipelines, computed engine, tasks | receive a batch, refresh, store, shut down | order of shutdown, a channel nobody empties |
| Configuration | `config.rs`, `config_handle.rs` | configuration, revision, file | `read`, `update`, `add_register`, `save`, `validate` | hot update against snapshots, failed save |
| Metric store | `store.rs` | sensor to (raw, metric) | `update_batch_raw`, `update_metric`, `snapshot` | fresh raw beside an old metric |
| Pipelines | `pipeline/{mod,stages}.rs` | stages per sensor, windows, thresholds | `process`, `refresh` | windows lost on refresh, errors in the middle |
| Computed sensors | `computed.rs` | sorted sensors, revision | `refresh`, `run` | dependency order, dead inputs with fresh times |
| Modbus server | `protocol/modbus_server.rs` | address table per request | reads, `write_bit/word/words` | address stability, encoding, partial write |
| Redfish | `protocol/redfish.rs` | none of its own | views, `PATCH` | stale answer, saturating reversal of a scale |
| Health | `health.rs` | none of its own | `readyz` | freshness bounds |
| Dashboard | `dashboard/*.rs` | broadcast channel, clients | snapshot, updates, `create_register` | lagging clients |
| Simulator | `../../telemux-sim/src/` | controls, register image | evaluation, register reads | overlap, 32-bit values |
| Frontends, CLI, logging, Windows service, mock | `../../../web`, `cli.rs`, `logging.rs`, `service.rs`, `mock.rs` | - | input/output around the gateway | not modelled |

How they interact. One poll task per device is the only user of the device's
connection. It sends a batch per successful poll into one bounded channel
(64); the main loop is its only receiver, and runs the pipelines and the computed
sensors before it takes the next batch. Endpoints read configuration and store
when a request arrives, and write through `WriteBroker`: a bounded channel (16)
per device, with a reply channel in each request. A hot update replaces the
shared configuration; tasks and caches notice it when they read it next. The
signal ends the main loop, which then notifies all tasks and awaits them.
The runtime has one thread: code between two awaits is atomic.

What makes the parts correct:

* write path: an answer is true of the device, nothing is executed twice,
  requests of a device keep their order, every request is answered;
* polling: every device is polled for ever, a batch is a whole snapshot, a device
  whose polls fail holds no connection, the backoff grows to its maximum;
* shutdown: all tasks end;
* configuration: a change is valid or refused whole, and reaches polls, pipelines,
  views and writes;
* store and consumer: an entry never goes back, a metric comes from its raw sample,
  computed sensors follow their inputs;
* Modbus table: no two sensors share an address, words encode the value, a write
  reaches the sensor that is read at that address;
* pure code (decoder, stages, encoding, reversal of a scale): equal to a reference
  definition over bounded inputs.

The hazards behind these properties are listed one by one, with their lines, in
`PROJECT.json`.

## 2. Modules

| Module | Role |
|---|---|
| `WriteService` | what the write path promises a caller: abstract specification |
| `Acquisition`, `MCAcquisition` | poll tasks, sources, write broker, sample channel, main loop with shutdown, hot-added registers, and the devices |
| `AcquisitionProofs` | type correctness; connection and batch invariants of the polling side; the inductive invariant of the write path, its corollaries, and that `Acquisition` implements `WriteService`; the order of service; the delays of the backoff |
| `Dependencies` | computed sensors, what they read, what a cycle is |
| `ComputedOrder` | the cycle check and the order of evaluation |
| `Codec` | words of a reply to values, values to words, reads of the Modbus server |
| `Stages` | filters, scales, expressions, thresholds; a pipeline over samples |
| `Algorithms`, `MCAlgorithms` | the three modules before on a set of inputs; all small inputs |
| `SequenceProofs` | lemmas about sequences, folds, and `FlattenSeq`; induction over an interval |
| `ComputedProofs` | the searches of `ComputedOrder`, for lists of any length |
| `AlgorithmsProofs` | the codec, the reads of the server and the searches do what `Algorithms` says, on any inputs; what a pipeline forgets |
| `HotConfig`, `MCHotConfig` | validation, hot updates, the file, restarts |
| `HotConfigProofs` | the configuration in force is valid |
| `ModbusServer`, `MCModbusServer` | address table and writes of the Modbus server, over `HotConfig` |
| `Redfish`, `MCRedfish` | resources and `PATCH`, beside the Modbus server, with the poll that reads back |
| `ServerProofs` | the server runs `HotConfig`, writes hit their register, each word has one address, additions move later addresses only; the same of both services together; every sensor can be reached, a patched one stays listed and reads back |
| `Consumer`, `MCConsumer` | caches, store and computed sensors of the main loop, over `HotConfig` and `ComputedOrder`, with time |
| `Observers`, `MCObservers` | health endpoint and dashboard with its clients, over `Consumer` |
| `ObserversProofs` | the invariants of the main loop, and of what its observers tell |
| `SimModel` | the simulator's validation and the evaluation of its formulas |
| `SimRegisters` | its register map, what a read gives, the state of its web page |
| `Simulator`, `MCSimulator` | masters and the web page at work on it while time goes on |
| `SimulatorProofs` | the search evaluates formulas like their graph, the register map, writes and what the page shows |

Definitions that a comment calls a faulty variant are plausible mistakes in the definition
below them. No action uses one; each property of a passing run is violated when one of them
takes the place of the right definition (`PROJECT.json`, `mutants`).

### Acquisition

One action is the code between two awaits. `pc[d]` names the await at which the
task of `d` is suspended:

| `pc[d]` | await | actions that leave it |
|---|---|---|
| `select` | `select!` in `device_loop` | `Tick`, `TakeWrite`, `StopTask` |
| `connecting` | `create_source`, or `ensure_connected` in a read | `Connected`, `ConnectFailed` |
| `reading` | a register request in `read_registers_from_context` | `ReadRegister`, `ReadDone`, `ReadFailed` |
| `sending` | `tx.send(samples)` | `SendBatch` |
| `backoff` | `select!` in `wait_backoff` | `BackoffOver`, `StopTask` |
| `reconnecting` | `ensure_connected` in a write | `WriteConnected`, `WriteConnectFailed` |
| `writing` | the write request | `WriteReplied`, `WriteTimeout` |
| `stopped` | the task has returned | none |

`client[d]` distinguishes no source (`absent`), a source whose client was
dropped by a failed write (`dropped`) and a connected one (`live`): a read error
removes the source, a write error only its client. Configurations only grow at
the end of a device's list of registers, so a snapshot is a number: `cfgRegs` now, `loopRegs` in
the task, `srcRegs` in the source's clone (TCP and RTU alike).

A request's progress is `st[r]`: `idle`, `sending` (waits for room), `queued`,
`serving`, then an outcome. `net[r]` is where its Modbus request is: on the
`wire` of the connection in use, in `limbo` (sent on a connection the gateway
has dropped) or `gone` (executed, rejected or lost). `exch[d]` is what the task
would read next on its connection: `pending`, or the reply `ok` or `exception`. The model
does not tie a reply to a request: `WriteReplied` takes whatever `exch[d]` holds,
so that the answers are true of the device is a result and not an assumption.

The devices are the environment, modelled from what a Modbus client can observe: they
execute a request, reject it, or never get it, at any time after it was sent.

Merged or left out: the two kinds of write (same control flow); the access checks
of `writable_register`, which end like an unknown register (`badreg`); early
returns that cannot happen (a device leaves the configuration, the consumer or the
broker goes away first); the answer `UnknownDevice`, which changes nothing; the
bytes on a serial line after the port was reopened.

### Codec, Stages, ComputedOrder

The algorithms that keep no state of their own. `Algorithms` picks one input in one
step, so that every property is a statement about all of them. The sets it picks from are
constants: lists of computed sensors, numbers with their types, replies, areas with the place of
a read, stages with samples. Their assumptions say what kind of thing they hold
(`ListsAssumption`, `NumbersAssumption`, `AreasAssumption`, `ReadsAssumption`) and not how
large; `MCAlgorithms` has small sets.

`Codec` counts a value in halves, so that rounding half away from zero is exact,
and has the size of a word as the constant `Base`. A 32-bit float is the pattern that
`FloatBits` gives its value; the assumption is that each pattern has a value, all NaN
patterns being one. A value that no such float has is narrowed to the nearest one when it is encoded
(`Narrow`, the `value as f32` of `encode_value`), of two equally near to the one with the even pattern. `Decode` is `decode_words`, `RawSample` and `RawSampleBool` what is made of a
reply, `Encode` is `encode_value`, `ReadWords` and `ReadBits` are the reads of the server.

`Stages` counts a value in 1/144 of a unit, so that the means in use are exact; NaN is a
value of its own, of which every comparison is false, and infinity a number larger than
all others. A pipeline is folded over a sequence of samples with the windows of its stages.
The properties compare it with definitions that neither sort nor add up in steps.
An expression is an identity with a domain, or one that names an unknown variable.

### HotConfig

The state is the shared `config`, its `revision`, the content of the `file`, and
whether the process is `up`. `HotAdd` is `create_register`: `ConfigHandle::update`
with the checks of `add_register` (`Addable`) and of `validate` (`Valid`) on the
candidate, then `save`. The save succeeds, fails to open the file, or
fails after `fs::write` truncated it (`Unreadable`). `Stop` and `Load` are the end and the start of
the process. `Valid` is the part of `validate` that depends on registers, pipelines
and computed sensors; the names of registers, ports and intervals are left out, and so is a
file that was cut off where what is left still parses. What `validate` asks of a stage is
`ValidStage` of `Stages`. The module only uses `Acyclic` of `Dependencies`, a definition of
what a cycle is; that the search in the code computes it is `CheckExact`.

### ModbusServer

Extends `HotConfig` with write requests and the registers of the devices
(`image`). `Table` is `build_table`. `Submit` reads the configuration and the table, and
answers with an exception or hands the sensor to the broker, in one step as the
code does; the request is then `pending`. `Forward` is the lookup in the source: it fixes the
`target`, a cell of the device, and the request is `sent`. `Execute` is what the device does,
at any time after that, also when the gateway has given up (`failed`) or
restarted (`lost`). The way in between is `Acquisition`. Registers only are added while a
request waits, so the table its address was looked up in may be another one by then.

### Redfish

Extends `ModbusServer`: both services use the same `request`s and the same way to the device.
`Views` is `build_views`, `Find` the search for the first view with an identifier, and
the resources are the functions of it that the handlers are, with their links. `Patch`
is `update_sensor`, with its answers 400, 404 and 405, `ReverseScale`, and the cast to a
word. It looks the sensor up on all devices and sends the write to the device in the URL;
`Forward` then fails to find a sensor of another device, and `Failed` answers.

`Poll` reads the `image` of a device into the `store`, raw values and computed sensors alike,
so that a written value can be read back. The steps in between are those of `Acquisition`
and `Consumer`. The pipeline of a sensor is one scale, which is the first stage or,
for the sensors in `Late`, a later one: `reverse_scale` looks at the first stage only. Scales are those of the
sensors (`Factor`, `Offset`), of either sign, zero or fractions: like readings they are numbers
of parts of a unit. The code divides 64-bit floats and then truncates, so the rounding of the
quotient matters where it is whole and comes out below: `Short` has the
sensors and readings for which it does, and `Truncated` is then one less. Elsewhere values are taken as exact.
The unit of a sensor is only what `classify` makes of it.

### Consumer

Extends `HotConfig` with the sample channel, the two caches and the store.
`Consume` is one batch: refresh of both caches, raw samples, pipelines,
computed sensors, with no await in between. Time is counted in poll intervals, and a sample is
named by the time of its poll. A device is polled at most once in an interval and need not be:
it may be dead or late. `polled[d]` remembers when it did answer, which the code
does not know and the properties need. Values are terms: sample `n` of a sensor, a filter
over a window of samples, a computed sensor over the values of its inputs.
Two equal terms were computed from the same samples, so the model knows whether a
metric belongs to the raw sample beside it, and no arithmetic is needed. A poll is
atomic here; that batches are whole snapshots is `BatchesGrow` of `Acquisition`.
With the process go the channel, the caches and the store; the file stays.

### Observers

Extends `Consumer` with what is told of its store. `Healthy` is `readyz` for one device,
`Connected` the `connected` of `build_snapshot`. `ring` is what the broadcast channel keeps;
each client has what it shows and the number of updates it has not received. A
client that is overtaken gets an error and is disconnected, `Overtaken`. An update is, for
the sensors in `Watched`, the time of their raw sample.

### Simulator

The second program of the repository. A formula is kept as the names it refers to, its value
being their sum and a constant; names resolve as in the code, through the `inputs` of the
sensor, controls, the time and the last part of sensor names. `Eval` is the depth-first search
with its memo and its stack, which a failing formula leaves dirty; it is a sequence of functions,
one for each depth of the search. The register map is a
function from addresses to slots per area. The list of the web page is made by a walk over the
addresses, which puts two together where the slot is that of a 32-bit value. A master's read is one step that may take time: each
word is evaluated at a time of its own, and a write goes word by word up to the first refusal. So is the
web page (`WebState`): the values of all sensors are evaluated first (`web.rs:130`), then each word again for
itself, at the times that `Moment` numbers. The controls are under a lock meanwhile.

### Bounds

`Devices`, `Reqs`, `MaxRegs` (registers after hot updates), `ChanCap`, `QueueCap`
and `MaxExponent` (10 in the code, `wait_backoff`) are the bounds of `Acquisition`;
the proofs hold for all of them. One device with three requests has all races of
the write path, because devices share only the sample channel; two devices and a
channel of one or two batches have those of the channel. With
`QueueCap = 2` and three requests a queue is full with one caller waiting. Two registers
give a poll with a first and a last request, and a register unknown to an older
source. A behaviour submits each request once; a retry by a client is another
request. For liveness a request that is over, and of which nothing is left on the network, can be made
again without end (`Renew`, `SteadySpec`), so that two requests are a load of writes that never ceases.

`MCHotConfig` has two devices, since an address of the Modbus table depends on the devices
before its own, a computed sensor, three initial files, one of which does not load, and ten
additions: four valid ones, two of which overlap, and one for each rule that
refuses a register. `MaxRegs` (256 in the code) is 3, `AddrMax` (65535) is 5.
One write request with addresses up to one beyond the largest table meets every
slot, before and after the additions; one at a time is enough, since requests share nothing
but the device's queue, which is in `Acquisition`. Words are 0 and 1 (`Top = 1`). Physical values are
counted in halves: one sensor is scaled by -1.5 and reads 2 and -1, one by 2 and reads -1 and 3, those without a
pipeline 0 and 2. The readings -1, 3 and 5 are below, between, above and equal to what they show, and one
of those that a sensor shows is short.

`MCObservers` has two devices of which any may be dead, a chain of computed sensors that the
file lists in the wrong order, a filter of width 2, one pipeline that fails and two
additions. Time goes to 4 intervals: a device is polled, falls silent for
more than the two intervals that count as recent, and a batch that waited in the channel
of 2 arrives after that. A broadcast channel of 1 (16 in the code) overtakes a
client after two updates.

`MCAlgorithms` has lists of up to three computed sensors with one or two inputs, which have
chains, diamonds, forward references and cycles through one to three sensors; words of two
bits, so that every value of one and two words occurs, and values from below to above
the range of every type, floats or not; replies of up to three words; pipelines of up to two stages with windows of
2 and 3 over up to four samples, which fill and empty them. `MCSimulator` has two controls
and three sensors, one set with four kinds of references per sensor, with cycles, and one
with explicit and implicit addresses that overlap, start odd or reach the end of the
address space of 5.

### Fairness

`Fairness` of `Acquisition` (in `FairSpec`, and in `SteadySpec`, which adds the load) assumes what the runtime gives. Every await of a task ends (reads and writes are under
a timeout, the backoff is a timer, a connect ends when the operating system gives
up): weak fairness of `Task(d)`. `select!` polls its ready branches in random
order, so `Tick`, `TakeWrite` and `StopTask` are strongly fair, and a bounded
channel gives room to its senders in order, so `SendBatch` and `Enqueue` are. That polls do not
starve behind writes that never cease rests on this random order, which the `select!` of `device_loop` has because it does not
say `biased`; the mutant `WritesFirst`, which prefers writes, starves them. The
main loop receives, and exits when all tasks have returned: weak fairness. Nothing
is assumed of callers, of the signal, of hot updates or of the devices. In particular
polls and connects may fail for ever. The other modules have no liveness property:
a handler that answers in one step has nothing to wait for, and what must happen eventually
(answers to writes, polls, shutdown) passes through `Acquisition`.

## 3. What is checked

| Run (configuration) | Instance | Shows |
|---|---|---|
| `writes` (`AcqWrites`) | 1 device, 3 writes, queue 2, channel 1, 2 registers; 296 thousand states | types and capacities; `OkMeansExecuted`, `AtMostOnce`, `RefusedNeverExecuted`, `CleanConnection`, `ServedInOrder`; the refinement `KeepsWritePromise` |
| `polls` (`AcqPolls`) | 2 devices, 2 registers, channel 2, exponent 2; 2.3 million states | `FailingMeansDisconnected`, `BatchesGrow`, `ConnectBackoffDoubles` |
| `live_writes` (`AcqLiveWrites`) | 1 device, 2 writes made again without end, one for a sensor of another device | `WritesAnswered`, `AddedRegisterStored`, `PollsForever` |
| `live_stop` (`AcqLiveStop`) | 2 devices, channel 2, no writes | `StopsUnlessJammed` |
| `algorithms` (`Algorithms`) | all small inputs | `CheckExact`, `OrderSound`; `NearestIsSent`, `WordsSurvive`, `ReadsAgree`; `PipelineForgets`, `PipelineExact` |
| `services` (`Services`) | 2 devices, up to 3 registers, 1 write or PATCH; 227 thousand states | `FileLoads`, `WordsDisjoint`, `OneAddressPerWord`, `MovesOnlyLater`, `WriteHitsItsSensor`; `EverySensorReachable`, `PatchedSensorListed`, `ReadsBack` |
| `observers` (`Observers`) | 2 devices, time to 4, 1 client; 874 thousand states | `ComputedFollowsInputs`, `MetricIsOfLatest`, `RawNeverLost`; `ConnectedMeansAlive`, `NeverOlder`, `ShowsLastBroadcast` |
| `simulator` (`Simulator`) | 64 sets of formulas, 108 layouts (those that are valid); 94 thousand states | `EvalExact`, `SlotsKept`, `TwoWordsOneValue`, `WebAgrees`, `WritesLand` |

`FileLoads` says that the checks of an update are those of a start; `add_register` alone
would accept a register with the identifier of a computed sensor. `MovesOnlyLater` says what the
addresses do when a register is added, as opposed to what the documentation says.
`WriteHitsItsSensor` excepts a write that is executed after the process that sent it
ended: if the save of its register failed, the next process may have another register there.
`ReadsBack` is about the poll after a PATCH was executed: it shows the reading that was asked for,
rounded toward the reading of the raw value 0 to one the register can have. A reading that the register has is
missed by one step if its quotient falls short: with scale 0.01 a PATCH of 0.29 writes 28 and reads back 0.28. It leaves out 32-bit registers, of which PATCH writes the first word
only, pipelines whose scale is not the first stage, coils whose two readings are the same, and registers that another request wrote in between.
`ConnectedMeansAlive` is about what a device did, not about what the store holds: neither a
batch that was delayed nor the fresh times of computed sensors keep a dead device connected.
`SlotsKept` and `WebAgrees` hold for areas whose items all have an address or all have none, of
which no sensor reaches the last address, and the web page decodes 32-bit values at even addresses only.
`WebAgrees` does not say that the number decoded is the value shown: words and value are evaluated one after the other, so
of a formula in the time the number may be torn, or be that of a later value. Its halves are of values the sensor
had meanwhile, the high one not after the low one, and if the sensor did not change they are of the value shown.
`PollsForever` is checked while writes keep coming, with one device, whose writes are
renewed and a channel of one batch that its consumer may leave full for long. That one device does not keep another
one from the channel is not checked: it is the fairness assumed of the channel.

Deadlock is not checked: the gateway stops after `Exit`, or when it jams; the other
instances end at their bounds.

Four runs show where the code departs from its documentation; each ends in a
counterexample:

* `doc_shutdown`: after the signal nobody receives batches, and `tx.send` is not raced
  against the shutdown (`manager.rs:176`). With a full channel the gateway does not
  exit. It takes more batches than the channel holds, sent after or shortly before the signal.
* `doc_hot_write`: a source looks writes up in the configuration it was created
  with; a register added later is polled, but a write to it fails and drops the connection.
* `doc_addresses_stay`: computed sensors stand behind all input registers, so an input register
  added at the end of the last device takes their addresses.
* `doc_write_many`: a write of several registers is acknowledged when the first one was written.

More differences were met while modelling. Each follows from single lines of the
code, so no run is spent on them:

* connecting clears the failures (`manager.rs:153`) and a failed read drops the source
  (`manager.rs:189`), so a device that accepts connections and fails reads is retried at a
  constant pace, not with the growing delay of `manager.rs:1-2`;
* the first delay after a failure is `2 * reconnect_initial_ms` (`manager.rs:222`,
  the failure is counted first; `config.rs:473` calls it the start of the backoff);
* a poll uses the registers read before the wait for its tick (`manager.rs:107`),
  not those at the time of the poll (`manager.rs:4`);
* `save` truncates the file in place (`config_handle.rs:110`): when the write fails after
  that, registers that were saved before are lost too, and the next start fails;
* a write to a read-only register is answered `IllegalFunction` (`modbus_server.rs:253`,
  `273`, `292`), not `IllegalDataAddress` (`docs/MODBUS_SERVER.md:163`);
* `u16` and `i16` saturate at the ends of their range (`modbus_server.rs:125-126`), where `docs/MODBUS_SERVER.md:129` says
  that they are truncated to 16 bits, which the faulty variant `Wrapped` does;
* a register without a value reads as 65535 in the type of its slot, so 0 and 65535 in
  the two words of a `u32`, not 0xFFFF in each word (`docs/MODBUS_SERVER.md:134`);
* a hot update rebuilds every pipeline (`pipeline/mod.rs:223`): averages start again over
  one sample;
* PATCH answers with the reading of the store, which is the old one (`redfish.rs:383`), not
  the updated sensor (`docs/REDFISH.md`, section 5); a sensor that exists but not on the device in the URL is answered
  503, not 404; section 7 has `physical / scale - offset` where the code has `(physical - offset) / scale`;
* the quotient `(physical - offset) / scale` is one of 64-bit floats and is truncated, not rounded (`redfish.rs:371`): with
  scale 0.01 a PATCH of 0.29 is 28.999... and writes 28, where the comment (`redfish.rs:396`) gives the formula alone;
* `reverse_scale` looks at the first stage only, its comment (`redfish.rs:395`) speaks of the first scale;
* the `@odata.id` of a computed sensor has an empty device (`redfish.rs:98`), whichever
  chassis it was asked of;
* the comment at `dashboard/server.rs:223` says that the broadcaster has left; a client that
  lags gets there as well;
* in the simulator a 32-bit value at an odd address has its low word first
  (`registers.rs:184`), though `docs/SIMULATION.md:108` says the high word is; an implicit address can land
  on an explicit one and overwrites it (`registers.rs:61` expects that explicit ones win);
* the web page of the simulator evaluates the value of a sensor and each of its words at a time of its own (`web.rs:130`,
  `194`, `195`, `model.rs:363`), so for formulas in the time the decoded number may be torn or differ from the value beside it;
* the simulator's validation computes the last address of a sensor with saturation (`model.rs:205`), so it
  accepts a sensor at 65535 beside a 32-bit sensor at 65534, whose second word is overwritten,
  where `model.rs:168-169` says that addresses do not conflict;
* `model.rs:320` says that the configuration excludes cycles of formulas, but `validate` does not search for them:
  they come up in the evaluation.

## 4. What is proved

For all devices, requests, capacities and backoff limits that satisfy the named
assumptions of `Acquisition`:

* `TypeCorrect`: `Spec => []TypeOK`.
* `WriteInvariant`: `Spec => []WriteInv`. The properties of the write path are not
  inductive: that an `ok` answer is true depends on the reply belonging to the request
  being served. `WriteInv` adds what the code keeps in its structure: a queue holds
  queued requests of its device once each (`QueueInv`); a task serves one request, and
  only where it awaits it (`ServingInv`); the place of a Modbus request follows from
  the progress of its write (`NetInv`); an execution ends the stay on the network
  (`ExecutedInv`); a reply on a connection is the reply to the write being served
  (`ReplyInv`). Steps that answer a request share the lemma `AnswerKeeps`, steps that start to
  serve one `ServeKeeps`.
* `OkIsExecuted`, `NeverTwice`, `FailedStaysUnexecuted`, `ConnectionsClean`: the
  corollaries for the checked properties.
* `ImplementsWriteService`: `Spec => KeepsWritePromise`. The mapping collapses the
  three waiting states into `pending`, the definite failures into `failed` and a
  timeout into `unsure`; each step is a step of the service or a stutter.
* `QueuesKeepOrder` (`ServedInOrder`). What is true once a request stands ahead of another one is
  `Before`: it is answered, or the other one still waits behind it, or the task has returned and neither
  will be executed. With `WriteInv` every step keeps it, so the outer `[]` is an invariant per pair.
* `FailingIsDisconnected`: from `ConnectionInv`, which ties the client to the place of
  the task and to the failures.
* `BatchesNeverShrink`: from `BatchInv`: what is stored and what is on the way is covered by
  the snapshot of the task, which only grows.
* `DelaysDouble` (`ConnectBackoffDoubles`): while polls fail, the delay is that of the number of failures
  (`BackoffInv`); powers of two are a recursive function, of which `Iteration` shows that it has
  a solution (`ShiftDoubles`).

For all devices, initial files, additions and limits that satisfy the
assumptions of `HotConfig`:

* `ConfigInvariant`: `ConfigSpec => []ConfigInv`: what is in force is valid, and so is
  what a readable file holds. `FileLoads` alone is not inductive: an update writes what is
  in force, and a start puts in force what the file holds.
* `WholeFilesLoad` and `RegistersApart` (`FileLoads`, `WordsDisjoint`). The second rests on
  `NoCommonWord`: the comparison of half-open ranges in `validate` excludes a common word.
* `ServerRunsConfig`: every behaviour of `ModbusServer` is one of `HotConfig`, so that
  `ServerConfigValid` gives both properties for the specification of the server.

For the same constants, and any writes of any non-zero words (`WordsAssumption`):

* `ServerInvariant`: `Spec => []ServerInv(V)` with the words that are written, and zero, for `V`. A write that is `sent` or `failed` but not
  executed is `InPlace`: its target is the first word of a writable register of its device with its sensor.
  That survives additions, because they only append (`AddingKeepsPlaces`), and ends with the
  process, after which the write is `lost`.
* `ServerTypes`: `Spec => []TypeOK` of `ModbusServer`, a corollary.
* `WritesHitTheirSensor`: `Spec => WriteHitsItsSensor`. An execution changes its target only
  (`ExecutedFields`); by `InPlace` that is in the register of the write, and by
  `WordsDisjoint` in no other register of the device. The exception `FromBefore` is needed:
  a lost write has no place in the configuration of the next process.
* `WordsHaveAddresses`: `Spec => []OneAddressPerWord`. A table is built by concatenation, twice
  over for registers (the slots of a register, the registers of a device). `Flattened`
  gives each part of such a concatenation its offset, and says that every position is in a
  part; from that `TableStands` finds the place of the first word of each register and each computed
  sensor. Two sensors with a word in common would have the same identifier, which `Valid` excludes.
* `AdditionsMoveLater`: `Spec => MovesOnlyLater`. A step that adds a register adds it behind those of its
  device (`AddedIsNew`, `DeviceGrows`), so one part of the concatenation grows at its end: offsets before it stay
  and those behind it move by what was added (`GrownPart`, from `OffsetsShift`). That the devices of the
  file are distinct and a register has no identifier of a computed sensor makes `IsLater` say which slots
  are behind it.

With the Redfish service beside the server, for any scales of the sensors (of either sign, fractions or zero), readings,
units and quotients that fall short (`ScaleAssumption`):

* `RedfishRunsConfig`, `RedfishConfigValid`, `RedfishAdditionsMove`, `RedfishWritesHit`: a step is one of the server or a
  PATCH that is accepted or refused (`RedfishSteps`), so the lemmas of `ServerProofs` about single steps carry over,
  with the words that a PATCH can carry in `V` (`RawWordTyped`: a PATCH never sends more than a word).
* `RedfishInvariant` adds that a PATCH on its way goes to the device of its URL.
* `SensorsReachable` (`EverySensorReachable`): what is in the views is what is in the registers and the
  computed sensors (`FlattenMembers`, `ChosenMembers`), and identifiers are unique, so the first view found is the only one.
* `PatchedStayListed` (`PatchedSensorListed`): a write that was sent is `InPlace`, so its register is still one of the device
  it was sent to, which is that of the URL.
* `PatchReadsBack` (`ReadsBack`), from `ReadInv`: a PATCH on its way carries the word that its reading has in the configuration
  in force (`Carries`; additions leave the pipelines of known sensors alone, `AddingKeepsWords`), and the word
  of an executed write that is the only request so far is what its cell holds (`Stands`). A poll stores what it
  reads of each register (`ReadsStored`), which the computed sensors do not touch: `BuildSorts` says which sensors those are
  (`ComputedApart`). The rest is arithmetic (`BackAgain`): readings lie on a line that rises or falls (`ScaleIsLine`), the word is the
  quotient rounded down, one less if it is whole and falls short (`WordSent`), and between the readings of two
  neighbouring words there is none (`BetweenSteps`).

For any list of computed sensors:

* `BuildSorts`: each sensor is in the order of `build` once and after its inputs. A list without a
  cycle has ranks: each sensor a higher one than those it reads (`AcyclicHasRanks`, by induction on sets
  of positions). The recursion is followed level by level (`Levels`); all sensors whose visit has begun rank
  above the one being visited, so none of its inputs is skipped before it is in the order.
* `CheckFindsCycles`: the search of `validate` refuses exactly the lists with a cycle. If there is none,
  the ranks exclude that an open sensor is met again. If the search ends without one, the closed
  sensors have no cycle among them and read nothing that is not closed (`Sound`), and all are closed.
* `CyclesFound` and `OrderIsSound` are `CheckExact` and `OrderSound` of `Algorithms`.

For every even number of values of a word, every set of floats with their patterns
(`BaseAssumption`, `FloatAssumption`) and any inputs:

* `EncodeUndoesDecode`: what the server sends for a raw sample is what the device sent,
  for every type and order of words. It rests on the division of a number into two
  words (`HighAndLow`, `SplitCombine`), casts that are exact within their range
  (`CastExact`), and the sign bit (`SignedExact`).
* `RepliesSurvive` (`WordsSurvive`) is the same for replies of any length.
* `NearestSent` (`NearestIsSent`): no number of the type is nearer to the value than the one sent, for a float also of a value
  that no 32-bit float has, with ties to the even pattern. The cast is monotone, and rounding half away from zero is
  exact on halves; that there is a nearest float follows from `LeastMember` on the distances (`NearestFloat`).
* `ReadsAreTrue` (`ReadsAgree`): a read of any length anywhere in an area.

For any stages and any samples (`PipelinesAssumption`):

* `PipelinesForget` (`PipelineForgets`): what a pipeline gives for a sample depends on as many samples before it as
  the windows of its stages hold (`Memories`). Two runs that end with the same samples are compared sample by
  sample: after enough of them each stage has the same window in both, since the stages before it give the same
  values and a window of width `n` is full of the last `n` (`Alike`). The window itself may differ in what came before the
  common samples, which is what the induction has to carry.

For the constants of `Consumer` and `Observers`, so for any valid configuration, any
additions, any number of clients and any capacities:

* `ConsumerRunsConfig` and `ObserversOnlyLook`: every behaviour of the main loop is one of `HotConfig`, and
  every behaviour of the gateway with its observers is one of the main loop, so that what
  is proved below carries over.
* `ConsumerInvariant`. That a metric is of the latest sample is not inductive: one has to know
  that no older batch can arrive, and that the window of a filter has all samples since the last update of the
  configuration. The strengthening says that for each stored sample a batch for every later poll of its
  device is still in the channel, in order (`SampleInv`, `ChanInv`); that the window of a filter, unless empty,
  ends with the stored sample and lists all from its first on (`MetricInv`); and that a cache with the
  revision of the configuration is built from it (`CacheInv`).
* `MetricsAreLatest`, `ComputedStayFresh`, `RawSamplesStay` (`MetricIsOfLatest`, `ComputedFollowsInputs`, `RawNeverLost`).
  The second uses `BuildSorts`: a round of evaluation reads only values computed before in that round.
* `ConnectedAreAlive` (`ConnectedMeansAlive`), from the same invariant: no time in the store is later than the
  last answer of its device.
* `ObserversInvariant`: the updates of the broadcast channel rise up to the store; what a client has received
  of them is not newer than what it shows, and what it has to receive not older. From it `LastBroadcastShown` (`ShowsLastBroadcast`) and
  `ClientsNeverGoBack` (`NeverOlder`).

For any simulated devices, formulas, layouts and times that satisfy `SimAssumption` and
`SimConfigsAssumption`, and any largest address (`LargestAssumption`):

* `SimInvariant`: the configuration passed validation, the register map is the one built from it, each control has a
  number, and an answer to a read, or a page, has what was there at its times.
* `SimEvalExact` (`EvalExact`): the search with memo and stack gives each sensor the value that its formula has by
  the graph of references, and fails exactly where that has none. Evaluation from below is a function with a solution (`BottomUpSolves`);
  the memo holds only such values (`MemoRight`) and the stack only names whose evaluation has begun (`Stacked`), also
  after a failure has left it dirty, and `Evaluated` follows depth by depth.
* `SimSlotsKept` (`SlotsKept`): each word of a sensor has a slot of its own. The map is filled by a fold (`Filled`), and what
  a later item writes is apart from what an earlier one did (`Apart`): implicit addresses because they
  rise, explicit ones because `validate` compared them.
* `SimTwoWordsOneValue` (`TwoWordsOneValue`): the two words of a value that are read at one time are its halves (`HalvesJoin`).
* `SimWritesLand` (`WritesLand`): a write reaches the controls of the words before the first refusal and no others (`Landed`).
* `SimWebAgrees` (`WebAgrees`): the page lists each input sensor once, and the halves it decodes are of values the
  sensor had while the page was built. Where all slots of
  an area are `Paired`, the walk over addresses lists the first word of each and passes over the
  second (`RunsArePaired`, `AllListed`); the times of its words are in order (`TimesInOrder`, `MomentsCounted`), and each half
  is of the value at its own time (`PageAgrees`, `HalvesOf`).

Induction over data goes through sets of numbers. The library's induction theorems take an
operator as a parameter, which the provers cannot instantiate. `LeastMember` (a non-empty set of
naturals has a least element) needs none, and `InductiveSet` and `IntervalInduction` follow from it:
a proof defines the set of the numbers for which a statement holds and shows that it has 0 and, with
`n`, `n + 1`. Therefore no module that is proved about declares a `RECURSIVE` operator; recursion
is a recursive function or a fold.

Model-checked only:

* `PipelineExact`, whose reference sorts and adds up windows: it holds as far as the sums in use divide without a
  remainder, which is a property of the samples of the instance and not of the code;
* liveness, which needs fairness and `ENABLED`.

## 5. Not modelled

* `mock.rs` is a double of the device for tests; the model has the device as the environment.
* `cli.rs`, `logging.rs`, `service.rs` and the start in `main.rs`: input and output around
  `run_gateway`.
* The web frontends and the static files: they show JSON, and the gateway does not depend on
  their state.
* Offsets and readings that are infinite or no number, and the last digits of 64-bit arithmetic in what is shown: a
  reading such as `29 * 0.01` is taken as 0.29.
* How long something takes in seconds: the time a poll waits behind a slow write, or a slow
  device behind its queue of 16.
* The serial line after its port was reopened (`rtu.rs:75`): whether a late reply is still
  there is decided by the driver, which is not in the repository. The model has a fresh line,
  as TCP has.
* Two hot updates at once (`config_handle.rs:97`): `update` reads, changes and then locks. The
  runtime has one thread and there is no await in between.
* In `validate`, what an update cannot change: names, ports, intervals.
* The texts of `describe_stage`, names, units and the layout of JSON.
* The watch channel of the store, which nobody subscribes to.
* A median over more than 20 samples with NaN among them (`stages.rs:82`): the comparison is
  no order, for which the sort of the library may panic.

## 6. What could be added

The serial line with late replies, if the behaviour of the driver is decided.
