------------------------------ MODULE Consumer ------------------------------
(***************************************************************************)
(* The receiving half of the main loop: batches of samples come out of the *)
(* channel, the caches of pipelines and computed sensors follow the        *)
(* revision of the configuration, raw samples and metrics go into the      *)
(* store, and the computed sensors are evaluated after each batch.  All of *)
(* it runs between two awaits, so a batch is one step.                     *)
(*                                                                         *)
(* Time is counted in poll intervals, and a sample is named by the time    *)
(* of its poll, which is its timestamp.  A device is polled at most once   *)
(* in an interval and need not be: it may be dead.  Values are             *)
(* terms: a raw value, a filter over a window of samples, or a computed    *)
(* sensor over the values of its inputs, so that two values are equal only *)
(* if they were computed from the same samples.  A pipeline is a filter    *)
(* with a window (sliding average, median or aggregate) and then stages    *)
(* without state; a pipeline with an expression over an unknown variable   *)
(* passes validation and fails on every sample.                            *)
(*                                                                         *)
(* ConfigOrder and RefreshedLate are faulty variants of the definitions    *)
(* below them; no action uses one.                                         *)
(***************************************************************************)
EXTENDS HotConfig, ComputedOrder

CONSTANTS Window,    \* width of the filters
          ChanCap,   \* capacity of the sample channel
          MaxTime,   \* bound on the time
          Failing    \* sensors whose pipeline fails on every sample

ASSUME BoundsAssumption == /\ Window \in Nat \ {0}
                           /\ ChanCap \in Nat \ {0}
                           /\ MaxTime \in Nat \ {0}

VARIABLES
  now,        \* the time
  polled,     \* times at which each device answered a poll of this process
  chan,       \* batches on their way: the time of the poll, the sensors
  pipelines,  \* PipelinesCache: its revision and the window of each pipeline
  engine,     \* ComputedEngine: its revision and the sorted sensors
  store       \* last raw sample (0 if none), metric (<<>> if none), its time

consumerVars == <<now, polled, chan, pipelines, engine, store>>
vars == <<configVars, consumerVars>>

NoMetric == <<>>

EmptyStore == [s \in Sensors |-> [raw |-> 0, metric |-> NoMetric, at |-> 0]]

-----------------------------------------------------------------------------
(* Caches *)

BuildPipelines(c) == [s \in c.pipes |-> <<>>]

\* refresh: rebuild when the revision differs from the one built from.
Refresh(cache, built) ==
  IF cache.revision = revision THEN cache
  ELSE [revision |-> revision, content |-> built]

\* The sensors in the order of the file.
ConfigOrder(computed) == computed

Sorted(computed) == BuildOrder(computed)

NewPipelines(c) == [revision |-> 0, content |-> BuildPipelines(c)]
NewEngine(c) == [revision |-> 0, content |-> Sorted(c.computed)]

-----------------------------------------------------------------------------
(* Values *)

\* A filter keeps the last samples, up to its width.
Push(window, n) ==
  LET w == Append(window, n) IN IF Len(w) > Window THEN Tail(w) ELSE w

\* value_of: the metric, or the raw value as a fallback; <<>> if neither.
ValueOf(st, s) == IF st[s].metric # NoMetric THEN st[s].metric
                  ELSE IF st[s].raw # 0 THEN <<s, <<st[s].raw>>>>
                  ELSE <<>>

\* eval of a computed sensor, when all its inputs have a value.
Evaluable(st, c) == \A i \in DOMAIN c.inputs : ValueOf(st, c.inputs[i]) # <<>>
Evaluate(st, c) ==
  <<c.sensor, [i \in DOMAIN c.inputs |-> ValueOf(st, c.inputs[i])]>>

-----------------------------------------------------------------------------
(* One batch *)

\* update_batch_raw keeps the metrics.
StoreRaw(st, batch) ==
  [s \in Sensors |-> IF s \in batch.sensors THEN [st[s] EXCEPT !.raw = batch.n]
                     ELSE st[s]]

\* A sample goes through the pipeline of its sensor, if there is one.  The
\* filter has taken the sample when a later stage fails.
Filter(windows, batch) ==
  [s \in DOMAIN windows |-> IF s \in batch.sensors THEN Push(windows[s], batch.n)
                            ELSE windows[s]]

StoreMetrics(st, windows, batch) ==
  [s \in Sensors |->
     IF s \in (batch.sensors \cap DOMAIN windows) \ Failing
     THEN [raw |-> batch.n, metric |-> <<s, windows[s]>>, at |-> batch.n]
     ELSE st[s]]

\* A computed sensor has no raw sample, and the time of its evaluation.
Evaluated(st, c) ==
  IF Evaluable(st, c)
  THEN [st EXCEPT ![c.sensor] = [raw |-> 0, metric |-> Evaluate(st, c), at |-> now]]
  ELSE st

\* run
RunComputed(st, sensors) == FoldLeft(Evaluated, st, sensors)

\* The metrics of a batch are made with the caches of the batch before it.
RefreshedLate(batch) ==
  LET windows == Filter(pipelines.content, batch)
  IN  /\ store' = RunComputed(StoreMetrics(StoreRaw(store, batch), windows, batch),
                              engine.content)
      /\ pipelines' = Refresh([pipelines EXCEPT !.content = windows],
                              BuildPipelines(config))
      /\ engine' = Refresh(engine, Sorted(config.computed))

HandleBatch(batch) ==
  LET cache == Refresh(pipelines, BuildPipelines(config))
      windows == Filter(cache.content, batch)
  IN  /\ engine' = Refresh(engine, Sorted(config.computed))
      /\ store' = RunComputed(StoreMetrics(StoreRaw(store, batch), windows, batch),
                              engine'.content)
      /\ pipelines' = [cache EXCEPT !.content = windows]

-----------------------------------------------------------------------------
(* Actions *)

Room == Len(chan) < ChanCap

\* The sensors with a register on a device.
SensorsOf(c, d) == {r.sensor : r \in ToSet(c.regs[d])}

\* A poll task sends a sample of each register of its device.
Poll(d) ==
  /\ up
  /\ now \notin polled[d]
  /\ Room
  /\ polled' = [polled EXCEPT ![d] = @ \cup {now}]
  /\ chan' = Append(chan, [n |-> now, sensors |-> SensorsOf(config, d)])
  /\ UNCHANGED <<configVars, now, pipelines, engine, store>>

\* The main loop receives a batch.
Consume ==
  /\ up
  /\ chan # <<>>
  /\ HandleBatch(Head(chan))
  /\ chan' = Tail(chan)
  /\ UNCHANGED <<configVars, now, polled>>

Tick == /\ now < MaxTime
        /\ now' = now + 1
        /\ UNCHANGED <<configVars, polled, chan, pipelines, engine, store>>

\* The store, the channel and the caches are gone with the process.
Halt == /\ Stop
        /\ chan' = <<>>
        /\ store' = EmptyStore
        /\ pipelines' = NewPipelines(config)
        /\ engine' = NewEngine(config)
        /\ polled' = [d \in DeviceSet |-> {}]
        /\ UNCHANGED now

\* A start builds the caches of the file it loads.
Start == /\ Load
         /\ pipelines' = NewPipelines(config')
         /\ engine' = NewEngine(config')
         /\ UNCHANGED <<now, polled, chan, store>>

Init == /\ ConfigInit
        /\ now = 1
        /\ polled = [d \in DeviceSet |-> {}]
        /\ chan = <<>>
        /\ pipelines = NewPipelines(config)
        /\ engine = NewEngine(config)
        /\ store = EmptyStore

Next == \/ \E d \in DeviceSet : Poll(d)
        \/ Consume
        \/ Tick
        \/ \E q \in Additions : HotAdd(q) /\ UNCHANGED consumerVars
        \/ Halt
        \/ Start

Spec == Init /\ [][Next]_vars

-----------------------------------------------------------------------------
(* Properties *)

\* Whatever the order of the file and of the batches, a computed sensor whose
\* inputs have values equals its expression over what the store holds for
\* them: one round after each batch is enough (ComputedEngine::build, run).
ComputedFollowsInputs ==
  \A j \in DOMAIN config.computed :
    LET c == config.computed[j] IN
    Evaluable(store, c) => store[c.sensor].metric = Evaluate(store, c)

\* The window lists, in order, all of the times from its first to the last.
Latest(window, times) ==
  /\ Len(window) \in 1..Window
  /\ \A i, j \in DOMAIN window : i < j => window[i] < window[j]
  /\ ToSet(window) = {t \in times : t >= window[1]}

\* The metric of a sensor with a pipeline is the filter over its latest
\* samples, the stored raw sample last and none left out, also for a pipeline
\* that was added with its register while batches were on their way; a sensor
\* without a working pipeline has no metric (app.rs 154-184: the metric kept
\* after a failure is never older than the raw sample beside it).
MetricIsOfLatest ==
  \A d \in DeviceSet : \A s \in SensorsOf(config, d) :
    LET metric == store[s].metric
        times  == {t \in polled[d] : t <= store[s].raw}
    IN  IF s \in config.pipes \ Failing /\ store[s].raw # 0
        THEN /\ metric # NoMetric
             /\ metric = <<s, metric[2]>>
             /\ Latest(metric[2], times)
             /\ store[s].raw \in ToSet(metric[2])
        ELSE metric = NoMetric

\* While the process runs, the store never loses the raw sample of a register
\* nor goes back to an older one (update_batch_raw, update_metric, and the
\* evaluation of computed sensors that share the store).
RawNeverLost ==
  [][up /\ up' => \A s \in KnownSensors(config) :
                    store'[s].raw >= store[s].raw]_vars
=============================================================================
