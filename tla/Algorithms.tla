----------------------------- MODULE Algorithms -----------------------------
(***************************************************************************)
(* The algorithms of the gateway that keep no state of their own: the      *)
(* searches over computed sensors, the codec of words, and pipelines.  A   *)
(* behaviour picks one input and stops, so that every invariant is a       *)
(* statement about all inputs.                                             *)
(***************************************************************************)
EXTENDS ComputedOrder, Codec, FiniteSets, FiniteSetsExt

CONSTANTS
  Sensors,
  ComputedLists,    \* lists of computed sensors
  Numbers,          \* values that are written or sent
  Replies,          \* the words devices answer with
  WordAreas,        \* areas of the Modbus server made of words
  Stores,           \* the values a server may know: functions on some sensors
  Coils,            \* the sensors of an area of bits, in its order
  Addresses,        \* where a read may begin
  Counts,           \* and how much it may ask for
  Pipelines,
  Samples,          \* sequences of samples
  Infinite, NoBound, MaxWindow

VARIABLE input

\* validate refuses two computed sensors with one identifier before it looks for
\* cycles.
ASSUME ListsAssumption ==
  \A q \in ComputedLists :
    /\ q \in Seq([sensor : Sensors, inputs : Seq(Sensors)])
    /\ \A i, j \in DOMAIN q : q[i].sensor = q[j].sensor => i = j

ASSUME NumbersAssumption ==
  /\ Numbers \ {NaN} \subseteq Int
  /\ Replies \subseteq Seq(WordSet)

\* append_words puts the words of a register next to each other.
ASSUME AreasAssumption ==
  \A area \in WordAreas :
    /\ area \in Seq([sensor : Sensors, type : Types, order : Orders, word : {0, 1}])
    /\ \A n \in DOMAIN area : \A k \in 1..(Width(area[n].type) - 1) :
         area[n].word = 0 =>
           n + k \in DOMAIN area /\ area[n + k] = [area[n] EXCEPT !.word = k]

ASSUME ReadsAssumption ==
  /\ Addresses \subseteq Nat /\ Counts \subseteq Nat
  /\ Coils \in Seq(Sensors)

P == INSTANCE Stages

\* The types of stages are those of StageConfig.
ASSUME PipelinesAssumption ==
  /\ MaxWindow \in Nat
  /\ \A s \in Pipelines :
       /\ s \in Seq(ToSet(s))
       /\ \A i \in DOMAIN s : s[i].type \in P!Windowed \cup {"scale", "math", "threshold"}
  /\ \A q \in Samples : q \in Seq(ToSet(q))

-----------------------------------------------------------------------------
NoInput == [kind |-> "none"]

Init == input = NoInput

\* A configuration is loaded, or a candidate validated.
PickComputed == \E q \in ComputedLists :
                  input' = [kind |-> "computed", computed |-> q]

PickValue == \E v \in Numbers, t \in Types, o \in Orders :
               input' = [kind |-> "value", value |-> v, type |-> t, order |-> o]

\* A device answers with any number of words, whatever it was asked for.
PickWords == \E w \in Replies, t \in Types, o \in Orders :
               input' = [kind |-> "words", words |-> w, type |-> t, order |-> o]

PickRead == \E area \in WordAreas, addr \in Addresses, count \in Counts,
               values \in Stores :
              input' = [kind |-> "read", area |-> area, addr |-> addr,
                        count |-> count, values |-> values]

\* A device has coils, of which the gateway may not have read all yet.
PickBits == \E on \in [ToSet(Coils) -> BOOLEAN], known \in SUBSET ToSet(Coils),
               t \in Types, addr \in Addresses, count \in Counts :
              input' = [kind |-> "bits", on |-> on, known |-> known, type |-> t,
                        addr |-> addr, count |-> count]

PickPipeline == \E s \in Pipelines, q \in Samples :
                  /\ \A i \in DOMAIN s : P!ValidStage(s[i])
                  /\ input' = [kind |-> "pipeline", stages |-> s, samples |-> q]

Pick == PickComputed \/ PickValue \/ PickWords \/ PickRead \/ PickBits
        \/ PickPipeline

Next == input = NoInput /\ Pick

Spec == Init /\ [][Next]_input

-----------------------------------------------------------------------------
(* Computed sensors *)

\* The search of validate refuses exactly the lists with a cycle: a diamond,
\* where a sensor is reached twice, is accepted, and so is a reference to a
\* sensor that comes later in the list.
CheckExact ==
  input.kind = "computed" => (NoCycle(input.computed) <=> Acyclic(input.computed))

\* build returns every sensor once, each after the computed sensors it reads,
\* so one round of run() in that order computes them all from fresh inputs.
OrderSound ==
  input.kind = "computed" /\ Acyclic(input.computed) =>
    LET order == BuildOrder(input.computed) IN
    /\ Len(order) = Len(input.computed)
    /\ Ids(order) = Ids(input.computed)
    /\ \A i, j \in DOMAIN order :
         order[j].sensor \in InputsOf(order[i]) => j < i

-----------------------------------------------------------------------------
(* Codec *)

\* The numbers a type can represent.
Representable(type) ==
  {Decode(w, type, "big") : w \in [1..Width(type) -> WordSet]}

\* What a master decodes is the number of its type that is nearest to the
\* value, also for values beyond its range.  Of two that are equally near it is
\* the one further from zero, or the float whose pattern is even; NaN reads as 0
\* where the type has no NaN (encode_value, decode_words).
NearestIsSent ==
  input.kind = "value" /\ input.type # "bool" =>
    LET v == input.value
        all == Representable(input.type)
        got == Decode(Encode(v, input.type, input.order), input.type, input.order)
    IN  /\ got \in all
        /\ IF v = NaN THEN got = (IF NaN \in all THEN NaN ELSE 0)
           ELSE \A n \in all \ {NaN} :
                  \/ Abs(got - v) < Abs(n - v)
                  \/ /\ Abs(got - v) = Abs(n - v)
                     /\ IF input.type = "f32" THEN IsEven(n) => IsEven(got)
                        ELSE Abs(got) >= Abs(n)

\* The words a device sent for a register are the words the server sends for
\* its raw sample, in both orders and also for negative numbers and NaN; only
\* a truth value loses which word it was.  Too short a reply is an error and
\* words too many are passed over (raw_sample, encode_value).
WordsSurvive ==
  input.kind = "words" =>
    LET sample == RawSample(input.words, input.type, input.order)
        need == Width(input.type)
    IN  /\ sample.ok <=> Len(input.words) >= need
        /\ sample.ok /\ (input.type = "bool" => input.words[1] <= 1) =>
             Encode(sample.value, input.type, input.order)
               = SubSeq(input.words, 1, need)

\* A read that covers both words of a register gives its value, wherever the
\* read begins and ends; a read past the area is refused whole, and a sensor
\* without a value reads as 65535 in the type of its slot (read_words).
ReadDecodes ==
  input.kind = "read" =>
    LET got == ReadWords(input.values, input.area, input.addr, input.count)
        end == input.addr + input.count
    IN  /\ got.code # "" <=> end > Len(input.area)
        /\ got.code = "" => \A n \in input.addr + 1..end :
             LET slot == input.area[n]
                 last == n + Width(slot.type) - 1
             IN  slot.word = 0 /\ last <= end =>
                   SubSeq(got.words, n - input.addr, last - input.addr)
                     = Encode(ValueOrMissing(input.values, slot.sensor),
                              slot.type, slot.order)

\* A master that reads coils gets the bits of the device, off for those that
\* are not known and beyond the last one; a bit never becomes a number of
\* another type (raw_sample_bool, read_bits).
BitsSurvive ==
  input.kind = "bits" =>
    LET area == [n \in DOMAIN Coils |-> [sensor |-> Coils[n]]]
        sample(s) == RawSampleBool(input.on[s], input.type)
        got == ReadBits([s \in input.known |-> sample(s).value], area,
                        input.addr, input.count)
    IN  /\ \A s \in ToSet(Coils) : sample(s).ok <=> input.type = "bool"
        /\ input.type = "bool" => \A i \in 1..input.count :
             got[i] <=> \E n \in DOMAIN Coils :
                          /\ n = input.addr + i
                          /\ Coils[n] \in input.known
                          /\ input.on[Coils[n]]

\* What a master reads is what the gateway knows of the device, in registers as
\* well as in coils (handle, read_words, read_bits).
ReadsAgree == ReadDecodes /\ BitsSurvive

-----------------------------------------------------------------------------
(* Pipelines *)

\* Of the samples, those that a stage can still take into account.
Memory(stages) ==
  FoldLeft(LAMBDA n, s : n + IF s.type \in P!Windowed THEN s.window - 1 ELSE 0,
           1, stages)

LastOf(q, n) == IF Len(q) <= n THEN q ELSE SubSeq(q, Len(q) - n + 1, Len(q))

Outcome(stages, samples) ==
  LET ctx == P!AfterSamples(stages, samples)
  IN  IF ctx.ok THEN <<ctx.value, ctx.status>> ELSE <<>>

\* A pipeline recovers from any sample, NaN included: once its windows have
\* been filled again, its metric is that of a new pipeline.
PipelineForgets ==
  input.kind = "pipeline" =>
    Outcome(input.stages, input.samples)
      = Outcome(input.stages, LastOf(input.samples, Memory(input.stages)))

\* The statistic of the last samples that a stage has to give, v, stated
\* without sorting or adding up step by step.
IsStatistic(type, q, W, v) ==
  LET below(n) == Cardinality({i \in W : q[i] < n})
      upto(n) == Cardinality({i \in W : q[i] <= n})
      size == Cardinality(W)
      At(n, k) == below(n) < k /\ k <= upto(n)   \* n is the k-th smallest
  IN  CASE type = "min" -> At(v, 1)
        [] type = "max" -> At(v, size)
        [] type = "average" -> v * size = MapThenSumSet(LAMBDA i : q[i], W)
        [] type = "median" ->
             IF size % 2 = 1 THEN At(v, size \div 2 + 1)
             ELSE \E i, j \in W : /\ At(q[i], size \div 2)
                                  /\ At(q[j], size \div 2 + 1)
                                  /\ 2 * v = q[i] + q[j]

\* One stage alone.  A threshold is critical outside of its closed critical
\* range, else in warning outside of its warning range; NaN, which is outside
\* of no range, is normal.
StageExact(s, q) ==
  LET out == Outcome(<<s>>, q)
      W == {i \in DOMAIN q : Len(q) - i < s.window}
      last == q[Len(q)]
      In(low, high) == /\ low # NoBound => last >= low
                       /\ high # NoBound => last <= high
  IN  CASE s.type \in P!Windowed ->
             NaN \notin {q[i] : i \in W} => IsStatistic(s.type, q, W, out[1])
        [] s.type = "threshold" ->
             /\ out[1] = last
             /\ out[2] = "critical" <=>
                  last # NaN /\ ~ In(s.low_critical, s.high_critical)
             /\ out[2] = "warning" <=>
                  /\ last # NaN /\ In(s.low_critical, s.high_critical)
                  /\ ~ In(s.low_warning, s.high_warning)
        [] OTHER -> TRUE

\* A pipeline gives a metric unless it is empty or one of its stages fails;
\* each stage sees what the one before it made of every sample, and the last
\* threshold decides the status, back to normal as well (Pipeline::process).
PipelineExact ==
  input.kind = "pipeline" =>
    LET s == input.stages
        q == input.samples
        Fails(i) == s[i].type = "math" /\ ~ s[i].known
    IN  /\ Outcome(s, q) = <<>> <=> s = <<>> \/ \E i \in DOMAIN s : Fails(i)
        /\ Len(s) = 1 /\ ~ Fails(1) => StageExact(s[1], q)
        /\ Len(s) = 2 /\ Outcome(s, q) # <<>> =>
             LET first == [j \in DOMAIN q |-> Outcome(<<s[1]>>, SubSeq(q, 1, j))]
                 second == Outcome(<<s[2]>>, [j \in DOMAIN q |-> first[j][1]])
             IN  /\ Outcome(s, q)[1] = second[1]
                 /\ Outcome(s, q)[2] = IF s[2].type = "threshold" THEN second[2]
                                       ELSE first[Len(q)][2]
=============================================================================
