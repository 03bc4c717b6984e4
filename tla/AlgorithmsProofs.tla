-------------------------- MODULE AlgorithmsProofs --------------------------
(***************************************************************************)
(* Proofs about Algorithms, for inputs of any size.  The searches over     *)
(* computed sensors are those of ComputedProofs.  Words: for any base of a *)
(* word and any floats, splitting and combining words undo each other in   *)
(* either order, the server sends for a raw sample the words its device    *)
(* sent, and for a value the nearest one that the type has.  Pipelines:    *)
(* two runs that agree on the last samples agree on their outcome, since   *)
(* each stage remembers only so many.                                      *)
(***************************************************************************)
EXTENDS Algorithms, ComputedProofs, SequenceTheorems

-----------------------------------------------------------------------------
(* Inputs *)

\* What a behaviour picks.
InputInv ==
  /\ input.kind = "computed" => input.computed \in ComputedLists
  /\ input.kind = "value" =>
       input.value \in Numbers /\ input.type \in Types /\ input.order \in Orders
  /\ input.kind = "words" =>
       input.words \in Replies /\ input.type \in Types /\ input.order \in Orders
  /\ input.kind = "read" =>
       input.area \in WordAreas /\ input.addr \in Addresses /\ input.count \in Counts
  /\ input.kind = "bits" =>
       /\ input.on \in [ToSet(Coils) -> BOOLEAN] /\ input.known \subseteq ToSet(Coils)
       /\ input.type \in Types /\ input.addr \in Addresses /\ input.count \in Counts
  /\ input.kind = "pipeline" =>
       /\ input.stages \in Pipelines /\ input.samples \in Samples
       /\ \A i \in DOMAIN input.stages : P!ValidStage(input.stages[i])

\* Inputs are of their kinds.
LEMMA InputsPicked == Spec => []InputInv
<1>1. Init => InputInv
  BY DEF Init, InputInv, NoInput
<1>2. InputInv /\ [Next]_input => InputInv'
  <2> SUFFICES ASSUME InputInv, Next PROVE InputInv'
    BY DEF InputInv
  <2>1. CASE PickComputed
    BY <2>1 DEF PickComputed, InputInv
  <2>2. CASE PickValue
    BY <2>2 DEF PickValue, InputInv
  <2>3. CASE PickWords
    BY <2>3 DEF PickWords, InputInv
  <2>4. CASE PickRead
    BY <2>4 DEF PickRead, InputInv
  <2>5. CASE PickBits
    BY <2>5 DEF PickBits, InputInv
  <2>6. CASE PickPipeline
    BY <2>6 DEF PickPipeline, InputInv
  <2> QED
    BY <2>1, <2>2, <2>3, <2>4, <2>5, <2>6 DEF Next, Pick
<1> QED
  BY <1>1, <1>2, PTL DEF Spec

-----------------------------------------------------------------------------
(* Computed sensors *)

\* The lists that are validated have no identifier twice.
LEMMA ValidatedLists == ComputedLists \subseteq Lists(Sensors)
  BY ListsAssumption DEF Lists

\* The cycle check of validate is exact for lists of any length
\* (visit_computed_cycle).
THEOREM CyclesFound == Spec => []CheckExact
<1>1. InputInv => CheckExact
  BY ValidatedLists, CheckFindsCycles DEF InputInv, CheckExact
<1> QED
  BY <1>1, InputsPicked, PTL

\* The evaluation order is sound for lists of any length (ComputedEngine::build).
THEOREM OrderIsSound == Spec => []OrderSound
<1>1. InputInv => OrderSound
  <2> SUFFICES ASSUME InputInv, input.kind = "computed", Acyclic(input.computed)
               PROVE  LET order == BuildOrder(input.computed) IN
                      /\ Len(order) = Len(input.computed)
                      /\ Ids(order) = Ids(input.computed)
                      /\ \A i, j \in DOMAIN order :
                           order[j].sensor \in InputsOf(order[i]) => j < i
    BY DEF OrderSound
  <2> DEFINE q == input.computed
             order == BuildOrder(q)
  <2>1. q \in Lists(Sensors)
    BY ValidatedLists DEF InputInv
  <2>2. /\ order \in Lists(Sensors)
        /\ Len(order) = Len(q)
        /\ Elements(order) = Elements(q)
        /\ \A b \in DOMAIN order : \A i \in InputsOf(order[b]) \cap Ids(q) :
             \E a \in DOMAIN order : a < b /\ order[a].sensor = i
    BY <2>1, BuildSorts
  <2> HIDE DEF q, order
  <2>3. Ids(order) = Ids(q)
    <3>1. Ids(order) = {e.sensor : e \in Elements(order)}
      BY DEF Elements, Ids
    <3>2. Ids(q) = {e.sensor : e \in Elements(q)}
      BY DEF Elements, Ids
    <3> QED
      BY <2>2, <3>1, <3>2
  <2>4. ASSUME NEW i \in DOMAIN order, NEW j \in DOMAIN order,
               order[j].sensor \in InputsOf(order[i])
        PROVE  j < i
    <3>1. order[j].sensor \in InputsOf(order[i]) \cap Ids(q)
      BY <2>3, <2>4 DEF Ids
    <3>2. PICK a \in DOMAIN order : a < i /\ order[a].sensor = order[j].sensor
      BY <2>2, <3>1
    <3>3. a = j
      BY <2>2, <3>2 DEF Lists
    <3> QED
      BY <3>2, <3>3
  <2> QED
    BY <2>2, <2>3, <2>4 DEF q, order
<1> QED
  BY <1>1, InputsPicked, PTL

-----------------------------------------------------------------------------
(* Words *)

\* A double word is its high word times the base plus its low word, in one way
\* only.
LEMMA HighAndLow ==
  ASSUME NEW h \in WordSet, NEW l \in WordSet
  PROVE  /\ h * Base + l \in Doubles
         /\ (h * Base + l) \div Base = h
         /\ (h * Base + l) % Base = l
<1>1. Base \in Nat \ {0}
  BY BaseAssumption
<1>2. h \in Int /\ l \in Int /\ 0 <= h /\ h <= Base - 1 /\ 0 <= l /\ l < Base
  BY <1>1 DEF WordSet
<1>3. h * Base + l \in Doubles
  <2>1. h * Base >= 0 /\ h * Base \in Int
    BY <1>1, <1>2
  <2>2. h * Base <= (Base - 1) * Base
    BY <1>1, <1>2
  <2>3. (Base - 1) * Base = Base * Base - Base
    BY <1>1
  <2> QED
    BY <1>1, <1>2, <2>1, <2>2, <2>3 DEF Doubles
<1>4. (h * Base + l) \div Base = h
  BY <1>1, <1>2
<1>5. (h * Base + l) % Base = l
  BY <1>1, <1>2
<1> QED
  BY <1>3, <1>4, <1>5

\* The words of a double word combine to it again.
LEMMA SplitCombine ==
  ASSUME NEW order \in Orders, NEW w \in [1..2 -> WordSet]
  PROVE  /\ Combine(w, order) \in Doubles
         /\ Split(Combine(w, order), order) = w
<1>1. w[1] \in WordSet /\ w[2] \in WordSet
  OBVIOUS
<1>2. w = <<w[1], w[2]>>
  OBVIOUS
<1>3. CASE order = "big"
  <2>1. Combine(w, order) = w[1] * Base + w[2]
    BY <1>3 DEF Combine
  <2>2. Split(Combine(w, order), order) = <<w[1], w[2]>>
    BY <1>1, <1>3, <2>1, HighAndLow DEF Split
  <2> QED
    BY <1>1, <1>2, <2>1, <2>2, HighAndLow
<1>4. CASE order # "big"
  <2>1. Combine(w, order) = w[2] * Base + w[1]
    BY <1>4 DEF Combine
  <2>2. Split(Combine(w, order), order) = <<w[1], w[2]>>
    BY <1>1, <1>4, <2>1, HighAndLow DEF Split
  <2> QED
    BY <1>1, <1>2, <2>1, <2>2, HighAndLow
<1> QED
  BY <1>3, <1>4

\* A whole number that fits is cast to itself.
LEMMA CastExact ==
  ASSUME NEW low \in Int, NEW high \in Int, NEW n \in Int, low <= n, n <= high
  PROVE  Cast(2 * n, low, high) = n
<1>1. 2 * n # NaN
  <2>1. 2 * n \in Int
    OBVIOUS
  <2> QED
    BY <2>1, FloatAssumption
<1>2. Round(2 * n) = n
  BY DEF Round
<1> QED
  BY <1>1, <1>2 DEF Cast, Clamp

\* Reading a word or double word as a signed number and taking it modulo its
\* size again gives it back.
LEMMA SignedExact ==
  ASSUME NEW half \in Nat \ {0}, NEW n \in 0..(2 * half - 1)
  PROVE  /\ AsSigned(n, 2 * half) \in Int
         /\ - half <= AsSigned(n, 2 * half)
         /\ AsSigned(n, 2 * half) <= half - 1
         /\ AsSigned(n, 2 * half) % (2 * half) = n
  BY DEF AsSigned

\* Some float is nearest to a number, and an even one if it can be chosen.
LEMMA NearestFloat ==
  ASSUME NEW v \in Int
  PROVE  /\ Narrow(v) \in Near(v)
         /\ \A g \in Near(v) : IsEven(g) => IsEven(Narrow(v))
<1> DEFINE F == Floats \ {NaN}
           D == {Abs(f - v) : f \in F}
<1>1. F \subseteq Int /\ v # NaN
  BY FloatAssumption
<1>2. F # {}
  <2>1. Base * Base - 1 >= 1 /\ Base * Base - 1 \in Int
    <3>1. Base \in Int /\ Base >= 2
      BY BaseAssumption
    <3>2. Base * Base >= 2 * Base
      BY <3>1
    <3> QED
      BY <3>1, <3>2
  <2>2. 0 \in 0..(Base * Base - 1) /\ 1 \in 0..(Base * Base - 1)
    BY <2>1
  <2>3. PICK x \in Floats, y \in Floats : FloatBits[x] = 0 /\ FloatBits[y] = 1
    BY <2>2, FloatAssumption
  <2>4. x # y
    BY <2>3
  <2> QED
    BY <2>4
<1>3. D \subseteq Nat /\ D # {}
  BY <1>1, <1>2 DEF Abs
<1>4. PICK m \in D : \A n \in D : m <= n
  BY <1>3, LeastMember
<1>5. PICK f \in F : m = Abs(f - v)
  BY <1>4
<1>6. f \in Near(v)
  BY <1>4, <1>5 DEF Near
<1> DEFINE Best(x) == \A g \in Near(v) : IsEven(g) => IsEven(x)
<1>7. \E x \in Near(v) : Best(x)
  <2>1. CASE \E g \in Near(v) : IsEven(g)
    BY <2>1
  <2>2. CASE ~ \E g \in Near(v) : IsEven(g)
    BY <1>6, <2>2
  <2> QED
    BY <2>1, <2>2
<1>8. Narrow(v) = CHOOSE x \in Near(v) : Best(x)
  BY <1>1 DEF Narrow
<1> HIDE DEF Best
<1>9. Narrow(v) \in Near(v) /\ Best(Narrow(v))
  BY <1>7, <1>8
<1> QED
  BY <1>9 DEF Best

\* A cast to a 32-bit float gives one, and leaves one as it is.
LEMMA NarrowTyped ==
  ASSUME NEW v \in Int \cup {NaN}
  PROVE  Narrow(v) \in Floats
<1>1. CASE v = NaN
  BY <1>1, FloatAssumption DEF Narrow
<1>2. CASE v # NaN
  BY <1>2, NearestFloat DEF Near
<1> QED
  BY <1>1, <1>2

LEMMA FloatNarrows ==
  ASSUME NEW v \in Floats
  PROVE  Narrow(v) = v
<1>1. CASE v = NaN
  BY <1>1 DEF Narrow
<1>2. CASE v # NaN
  <2>1. v \in Int /\ v \in Floats \ {NaN}
    BY <1>2, FloatAssumption
  <2> DEFINE f == Narrow(v)
  <2>2. f \in Near(v)
    BY <2>1, NearestFloat
  <2> HIDE DEF f
  <2>3. f \in Int /\ Abs(f - v) <= Abs(v - v)
    BY <2>1, <2>2, FloatAssumption DEF Near
  <2>4. f = v
    BY <2>1, <2>3 DEF Abs
  <2> QED
    BY <2>4 DEF f
<1> QED
  BY <1>1, <1>2

\* The words a device sent for a register are the words the server sends for
\* its raw sample, whatever the type and the order of words (decode_words,
\* encode_value).
THEOREM EncodeUndoesDecode ==
  ASSUME NEW type \in Types \ {"bool"}, NEW order \in Orders,
         NEW w \in [1..Width(type) -> WordSet]
  PROVE  Encode(Decode(w, type, order), type, order) = w
<1>1. Base \in Nat \ {0} /\ Base % 2 = 0
  BY BaseAssumption
<1>2. PICK half \in Nat \ {0} : Base = 2 * half /\ half = Base \div 2
  <2> DEFINE h == Base \div 2
  <2>1. h \in Nat \ {0} /\ Base = 2 * h
    BY <1>1
  <2> QED
    BY <2>1
<1>3. Base * Base = 2 * (half * Base) /\ half * Base \in Nat \ {0}
  BY <1>1, <1>2
<1>4. ASSUME Width(type) = 1
      PROVE  w = <<w[1]>> /\ w[1] \in 0..(2 * half - 1)
  BY <1>2, <1>4 DEF WordSet
<1> DEFINE n == Combine(w, order)
<1>5. ASSUME Width(type) = 2
      PROVE  n \in 0..(2 * (half * Base) - 1) /\ n \in Doubles /\ Split(n, order) = w
  BY <1>3, <1>5, SplitCombine DEF Doubles
<1>6. CASE type = "u16"
  <2>1. w = <<w[1]>> /\ w[1] \in 0..(Base - 1)
    BY <1>2, <1>4, <1>6 DEF Width
  <2>2. Cast(2 * w[1], 0, Base - 1) = w[1]
    BY <1>1, <2>1, CastExact
  <2> QED
    BY <1>6, <2>1, <2>2 DEF Encode, Decode
<1>7. CASE type = "i16"
  <2>1. w = <<w[1]>> /\ w[1] \in 0..(2 * half - 1)
    BY <1>4, <1>7 DEF Width
  <2> DEFINE m == AsSigned(w[1], Base)
  <2>2. m \in Int /\ - half <= m /\ m <= half - 1 /\ m % Base = w[1]
    BY <1>2, <2>1, SignedExact
  <2>3. Cast(2 * m, - half, half - 1) = m
    BY <1>2, <2>2, CastExact
  <2> QED
    BY <1>2, <1>7, <2>1, <2>2, <2>3 DEF Encode, Decode
<1>8. CASE type = "u32"
  <2>1. n \in Doubles /\ Split(n, order) = w
    BY <1>5, <1>8 DEF Width
  <2>2. Cast(2 * n, 0, Base * Base - 1) = n
    BY <1>1, <2>1, CastExact DEF Doubles
  <2> QED
    BY <1>8, <2>1, <2>2 DEF Encode, Decode
<1>9. CASE type = "i32"
  <2>1. n \in 0..(2 * (half * Base) - 1) /\ Split(n, order) = w
    BY <1>5, <1>9 DEF Width
  <2> DEFINE m == AsSigned(n, Base * Base)
  <2>2. /\ m \in Int /\ - (half * Base) <= m /\ m <= half * Base - 1
        /\ m % (Base * Base) = n
    BY <1>3, <2>1, SignedExact
  <2>3. Cast(2 * m, -(half * Base), half * Base - 1) = m
    BY <1>3, <2>2, CastExact
  <2> QED
    BY <1>2, <1>9, <2>1, <2>2, <2>3 DEF Encode, Decode
<1>10. CASE type = "f32"
  <2>1. n \in Doubles /\ Split(n, order) = w
    BY <1>5, <1>10 DEF Width
  <2> DEFINE v == CHOOSE x \in Floats : FloatBits[x] = n
  <2>2. v \in Floats /\ FloatBits[v] = n
    BY <2>1, FloatAssumption DEF Doubles
  <2>3. Narrow(v) = v
    BY <2>2, FloatNarrows
  <2> QED
    BY <1>10, <2>1, <2>2, <2>3 DEF Encode, Decode
<1> QED
  BY <1>6, <1>7, <1>8, <1>9, <1>10 DEF Types

\* The first elements of a sequence.
LEMMA FirstElements ==
  ASSUME NEW S, NEW s \in Seq(S), NEW n \in Nat, n <= Len(s)
  PROVE  /\ SubSeq(s, 1, n) \in [1..n -> S]
         /\ \A i \in 1..n : SubSeq(s, 1, n)[i] = s[i]
<1>1. \A i \in 1..n : s[i] \in S
  OBVIOUS
<1>2. /\ SubSeq(s, 1, n) \in Seq(S)
      /\ Len(SubSeq(s, 1, n)) = IF 1 <= n THEN n - 1 + 1 ELSE 0
      /\ \A i \in 1..(n - 1 + 1) : SubSeq(s, 1, n)[i] = s[1 + i - 1]
  BY <1>1, SubSeqProperties
<1> DEFINE w == SubSeq(s, 1, n)
<1> HIDE DEF w
<1>3. w \in Seq(S) /\ Len(w) = n /\ \A i \in 1..n : w[i] = s[i]
  BY <1>2 DEF w
<1>4. w \in [1..n -> S] /\ \A i \in 1..n : w[i] = s[i]
  BY <1>3
<1> QED
  BY <1>4 DEF w

\* Words a reply has too many are passed over.
LEMMA DecodeFirst ==
  ASSUME NEW words \in Seq(WordSet), NEW type \in Types, NEW order \in Orders,
         Len(words) >= Width(type)
  PROVE  /\ SubSeq(words, 1, Width(type)) \in [1..Width(type) -> WordSet]
         /\ Decode(SubSeq(words, 1, Width(type)), type, order)
              = Decode(words, type, order)
<1> DEFINE w == SubSeq(words, 1, Width(type))
<1>1. Width(type) \in {1, 2}
  BY DEF Width
<1>2. /\ w \in [1..Width(type) -> WordSet]
      /\ w[1] = words[1]
      /\ Width(type) = 2 => w[2] = words[2]
  <2>1. /\ Width(type) \in Nat /\ 1 \in 1..Width(type)
        /\ Width(type) = 2 => 2 \in 1..Width(type)
    BY <1>1
  <2>2. /\ w \in [1..Width(type) -> WordSet]
        /\ \A i \in 1..Width(type) : w[i] = words[i]
    BY <2>1, FirstElements
  <2> HIDE DEF w
  <2> QED
    BY <2>1, <2>2
<1> HIDE DEF w
<1>3. CASE Width(type) = 2
  <2>1. Combine(w, order) = Combine(words, order)
    BY <1>2, <1>3 DEF Combine
  <2> QED
    BY <1>2, <2>1 DEF Decode, w
<1>4. CASE Width(type) = 1
  <2>1. type \notin {"u32", "i32", "f32"}
    BY <1>4 DEF Width
  <2> QED
    BY <1>2, <2>1 DEF Decode, Types, w
<1> QED
  BY <1>1, <1>3, <1>4

\* The words of replies of any length survive (raw_sample, encode_value).
THEOREM RepliesSurvive == Spec => []WordsSurvive
<1>1. InputInv => WordsSurvive
  <2> SUFFICES ASSUME InputInv, input.kind = "words" PROVE WordsSurvive
    BY DEF WordsSurvive
  <2> DEFINE words == input.words
             type == input.type
             order == input.order
             need == Width(type)
             w == SubSeq(words, 1, need)
             sample == RawSample(words, type, order)
  <2>1. words \in Seq(WordSet) /\ type \in Types /\ order \in Orders
    BY NumbersAssumption DEF InputInv
  <2>2. need \in {1, 2} /\ Len(words) \in Nat
    BY <2>1 DEF Width
  <2>3. sample.ok <=> Len(words) >= need
    BY <2>2 DEF RawSample, BadReply
  <2>4. ASSUME sample.ok, type = "bool" => words[1] <= 1
        PROVE  Encode(sample.value, type, order) = w
    <3>1. sample.value = Decode(words, type, order)
      BY <2>2, <2>3, <2>4 DEF RawSample
    <3>2. /\ w \in [1..need -> WordSet]
          /\ Decode(w, type, order) = Decode(words, type, order)
      <4> HIDE DEF words, type, order
      <4> QED
        BY <2>1, <2>3, <2>4, DecodeFirst
    <3>3. CASE type # "bool"
      <4> HIDE DEF words, type, order, w, sample
      <4> QED
        BY <2>1, <3>1, <3>2, <3>3, EncodeUndoesDecode DEF need
    <3>4. CASE type = "bool"
      <4>1. w = <<words[1]>> /\ words[1] \in {0, 1}
        <5>1. Len(words) >= 1 /\ need = 1
          BY <2>3, <2>4, <3>4 DEF Width
        <5>2. words[1] \in WordSet /\ words[1] <= 1
          BY <2>1, <2>4, <3>4, <5>1
        <5>3. words[1] \in {0, 1}
          BY <5>2, BaseAssumption DEF WordSet
        <5>4. w \in [1..1 -> WordSet] /\ w[1] = words[1]
          BY <2>1, <2>2, <5>1, FirstElements
        <5> HIDE DEF w
        <5> QED
          BY <5>3, <5>4
      <4>2. sample.value = IF words[1] # 0 THEN 2 ELSE 0
        BY <3>1, <3>4 DEF Decode
      <4>3. Encode(sample.value, type, order) = <<IF sample.value # 0 THEN 1 ELSE 0>>
        BY <3>4 DEF Encode
      <4> HIDE DEF words, sample, w
      <4> QED
        BY <4>1, <4>2, <4>3
    <3> QED
      BY <3>3, <3>4
  <2> QED
    BY <2>3, <2>4 DEF WordsSurvive
<1> QED
  BY <1>1, InputsPicked, PTL

-----------------------------------------------------------------------------
(* Values *)

\* A double word is combined from the words it is split into.
LEMMA CombineSplit ==
  ASSUME NEW order \in Orders, NEW n \in Doubles
  PROVE  /\ Split(n, order) \in [1..2 -> WordSet]
         /\ Combine(Split(n, order), order) = n
<1>1. Base \in Nat \ {0} /\ n \in Nat /\ n < Base * Base
  BY BaseAssumption DEF Doubles
<1> DEFINE h == n \div Base
           l == n % Base
<1>2. h \in Nat /\ l \in 0..(Base - 1) /\ n = Base * h + l
  BY <1>1
<1> HIDE DEF h, l
<1>3. h < Base
  <2> SUFFICES ASSUME h >= Base PROVE FALSE
    BY <1>1, <1>2
  <2>1. PICK k \in Nat : h = Base + k
    BY <1>1, <1>2
  <2>2. Base * h = Base * Base + Base * k /\ Base * k >= 0
    BY <1>1, <2>1
  <2> QED
    BY <1>1, <1>2, <2>2
<1>4. h \in WordSet /\ l \in WordSet /\ h * Base + l = n
  BY <1>1, <1>2, <1>3 DEF WordSet
<1>5. CASE order = "big"
  <2>1. Split(n, order) = <<h, l>>
    BY <1>5 DEF Split, h, l
  <2> QED
    BY <1>4, <1>5, <2>1 DEF Combine
<1>6. CASE order # "big"
  <2>1. Split(n, order) = <<l, h>>
    BY <1>6 DEF Split, h, l
  <2> QED
    BY <1>4, <1>6, <2>1 DEF Combine
<1> QED
  BY <1>5, <1>6

\* A signed number is its word read as one.
LEMMA SignedBack ==
  ASSUME NEW half \in Nat \ {0}, NEW n \in Int, - half <= n, n <= half - 1
  PROVE  /\ n % (2 * half) \in 0..(2 * half - 1)
         /\ AsSigned(n % (2 * half), 2 * half) = n
<1>1. CASE n >= 0
  BY <1>1 DEF AsSigned
<1>2. CASE n < 0
  <2>1. n % (2 * half) = n + 2 * half
    BY <1>2
  <2> QED
    BY <1>2, <2>1 DEF AsSigned
<1> QED
  BY <1>1, <1>2

\* A cast gives the nearest number of its range, and of two the one further from
\* zero.
LEMMA CastNearest ==
  ASSUME NEW low \in Int, NEW high \in Int, low <= high, NEW v \in Int
  PROVE  /\ Cast(v, low, high) \in low..high
         /\ \A m \in low..high :
              \/ Abs(2 * Cast(v, low, high) - v) < Abs(2 * m - v)
              \/ /\ Abs(2 * Cast(v, low, high) - v) = Abs(2 * m - v)
                 /\ Abs(2 * Cast(v, low, high)) >= Abs(2 * m)
<1> DEFINE r == Round(v)
           c == Cast(v, low, high)
<1>1. /\ r \in Int
      /\ v >= 0 => v <= 2 * r /\ 2 * r <= v + 1
      /\ v < 0 => v - 1 <= 2 * r /\ 2 * r <= v
  BY DEF Round
<1>2. c = IF r < low THEN low ELSE IF r > high THEN high ELSE r
  BY FloatAssumption DEF Cast, Clamp
<1> HIDE DEF r, c
<1>3. c \in low..high
  BY <1>1, <1>2
<1>4. ASSUME NEW m \in low..high
      PROVE  \/ Abs(2 * c - v) < Abs(2 * m - v)
             \/ Abs(2 * c - v) = Abs(2 * m - v) /\ Abs(2 * c) >= Abs(2 * m)
  BY <1>1, <1>2, <1>3 DEF Abs
<1> QED
  BY <1>3, <1>4 DEF c

\* The whole numbers of a type.
Lowest(type) == CASE type = "i16" -> -(Base \div 2)
                  [] type = "i32" -> -((Base \div 2) * Base)
                  [] OTHER -> 0

Highest(type) == CASE type = "u16" -> Base - 1
                   [] type = "i16" -> Base \div 2 - 1
                   [] type = "u32" -> Base * Base - 1
                   [] type = "i32" -> (Base \div 2) * Base - 1

Whole == {"u16", "i16", "u32", "i32"}

\* The numbers that can be given to an integer type are whole, and from zero on.
LEMMA RangeOfType ==
  ASSUME NEW type \in Whole
  PROVE  /\ Lowest(type) \in Int /\ Highest(type) \in Int
         /\ Lowest(type) <= 0 /\ 0 <= Highest(type)
<1>1. PICK half \in Nat \ {0} : Base = 2 * half /\ half = Base \div 2
  <2> DEFINE h == Base \div 2
  <2>1. h \in Nat \ {0} /\ Base = 2 * h
    BY BaseAssumption
  <2> QED
    BY <2>1
<1>2. half * Base \in Nat \ {0} /\ Base * Base \in Nat \ {0} /\ Base \in Nat \ {0}
  BY <1>1
<1> QED
  BY <1>1, <1>2 DEF Lowest, Highest, Whole

\* What is sent is the cast of the value.
LEMMA SentIsCast ==
  ASSUME NEW type \in Whole, NEW order \in Orders, NEW v \in Int \cup {NaN}
  PROVE  /\ Encode(v, type, order) \in [1..Width(type) -> WordSet]
         /\ Decode(Encode(v, type, order), type, order)
              = 2 * Cast(v, Lowest(type), Highest(type))
<1>1. PICK half \in Nat \ {0} : Base = 2 * half /\ half = Base \div 2
  <2> DEFINE h == Base \div 2
  <2>1. h \in Nat \ {0} /\ Base = 2 * h
    BY BaseAssumption
  <2> QED
    BY <2>1
<1>2. /\ Base \in Nat \ {0} /\ Base * Base = 2 * (half * Base)
      /\ half * Base \in Nat \ {0}
  BY <1>1
<1> DEFINE c == Cast(v, Lowest(type), Highest(type))
<1>3. c \in Int /\ Lowest(type) <= c /\ c <= Highest(type)
  <2>1. CASE v = NaN
    BY <2>1, RangeOfType DEF Cast
  <2>2. CASE v # NaN
    BY <2>2, RangeOfType, CastNearest
  <2> QED
    BY <2>1, <2>2
<1>4. CASE type = "u16"
  <2>1. Encode(v, type, order) = <<c>>
    BY <1>4 DEF Encode, Lowest, Highest
  <2>2. c \in WordSet
    BY <1>3, <1>4 DEF Lowest, Highest, WordSet
  <2> HIDE DEF c
  <2>3. Decode(<<c>>, type, order) = 2 * c
    BY <1>4 DEF Decode
  <2> QED
    BY <1>4, <2>1, <2>2, <2>3 DEF Width, c
<1>5. CASE type = "i16"
  <2>1. Encode(v, type, order) = <<c % Base>>
    BY <1>1, <1>5 DEF Encode, Lowest, Highest
  <2>2. - half <= c /\ c <= half - 1
    BY <1>1, <1>3, <1>5 DEF Lowest, Highest
  <2> HIDE DEF c
  <2>3. c % Base \in WordSet /\ AsSigned(c % Base, Base) = c
    BY <1>1, <1>3, <2>2, SignedBack DEF WordSet
  <2>4. Decode(<<c % Base>>, type, order) = 2 * c
    BY <1>5, <2>3 DEF Decode
  <2> QED
    BY <1>5, <2>1, <2>3, <2>4 DEF Width, c
<1>6. CASE type = "u32"
  <2>1. Encode(v, type, order) = Split(c, order)
    BY <1>6 DEF Encode, Lowest, Highest
  <2>2. c \in Doubles
    BY <1>2, <1>3, <1>6 DEF Lowest, Highest, Doubles
  <2> HIDE DEF c
  <2>3. /\ Split(c, order) \in [1..2 -> WordSet]
        /\ Combine(Split(c, order), order) = c
    BY <2>2, CombineSplit
  <2>4. Decode(Split(c, order), type, order) = 2 * c
    BY <1>6, <2>3 DEF Decode
  <2> QED
    BY <1>6, <2>1, <2>3, <2>4 DEF Width, c
<1>7. CASE type = "i32"
  <2> DEFINE n == c % (Base * Base)
  <2>1. Encode(v, type, order) = Split(n, order)
    BY <1>1, <1>7 DEF Encode, Lowest, Highest
  <2>2. - (half * Base) <= c /\ c <= half * Base - 1
    BY <1>1, <1>2, <1>3, <1>7 DEF Lowest, Highest
  <2>3. n \in Doubles /\ AsSigned(n, Base * Base) = c
    <3> HIDE DEF c
    <3> QED
      BY <1>2, <1>3, <2>2, SignedBack DEF Doubles
  <2> HIDE DEF c, n
  <2>4. /\ Split(n, order) \in [1..2 -> WordSet]
        /\ Combine(Split(n, order), order) = n
    BY <2>3, CombineSplit
  <2>5. Decode(Split(n, order), type, order) = 2 * c
    BY <1>7, <2>3, <2>4 DEF Decode
  <2> QED
    BY <1>7, <2>1, <2>4, <2>5 DEF Width, c
<1> QED
  BY <1>4, <1>5, <1>6, <1>7 DEF Whole

\* A value is sent as the float it is cast to.
LEMMA FloatIsSent ==
  ASSUME NEW order \in Orders, NEW v \in Int \cup {NaN}
  PROVE  /\ Encode(v, "f32", order) \in [1..2 -> WordSet]
         /\ Decode(Encode(v, "f32", order), "f32", order) = Narrow(v)
<1> DEFINE f == Narrow(v)
           n == FloatBits[f]
<1>1. f \in Floats
  BY NarrowTyped
<1>2. n \in Doubles
  BY <1>1, FloatAssumption DEF Doubles
<1>3. Encode(v, "f32", order) = Split(n, order)
  BY DEF Encode
<1> HIDE DEF f, n
<1>4. /\ Split(n, order) \in [1..2 -> WordSet]
      /\ Combine(Split(n, order), order) = n
  BY <1>2, CombineSplit
<1>5. Decode(Split(n, order), "f32", order) = CHOOSE x \in Floats : FloatBits[x] = n
  BY <1>4 DEF Decode
<1>6. (CHOOSE x \in Floats : FloatBits[x] = n) = f
  BY <1>1, FloatAssumption DEF n
<1> QED
  BY <1>3, <1>4, <1>5, <1>6 DEF f

\* The numbers of an integer type.
LEMMA WholeNumbers ==
  ASSUME NEW type \in Whole
  PROVE  \A n : n \in Representable(type) <=>
                  \E m \in Lowest(type)..Highest(type) : n = 2 * m
<1> DEFINE low == Lowest(type)
           high == Highest(type)
<1>1. low \in Int /\ high \in Int /\ low <= 0 /\ 0 <= high
  BY RangeOfType
<1>2. "big" \in Orders
  BY DEF Orders
<1>3. ASSUME NEW m \in low..high PROVE 2 * m \in Representable(type)
  <2> DEFINE w == Encode(2 * m, type, "big")
  <2>1. /\ w \in [1..Width(type) -> WordSet]
        /\ Decode(w, type, "big") = 2 * Cast(2 * m, low, high)
    BY <1>1, <1>2, SentIsCast
  <2>2. Cast(2 * m, low, high) = m
    <3> HIDE DEF low, high
    <3> QED
      BY <1>1, CastExact
  <2> HIDE DEF w, low, high
  <2> QED
    BY <2>1, <2>2 DEF Representable
<1>4. ASSUME NEW w \in [1..Width(type) -> WordSet]
      PROVE  \E m \in low..high : Decode(w, type, "big") = 2 * m
  <2> DEFINE v == Decode(w, type, "big")
             c == Cast(v, low, high)
  <2>1. Encode(v, type, "big") = w
    BY <1>2, EncodeUndoesDecode DEF Whole, Types
  <2>2. v \in Int \cup {NaN}
    <3>1. type = "u16" \/ type = "i16" => Width(type) = 1
      BY DEF Width
    <3>2. type = "u32" \/ type = "i32" => Width(type) = 2
      BY DEF Width
    <3>3. WordSet \subseteq Int /\ Base \in Int
      BY BaseAssumption DEF WordSet
    <3>4. CASE type = "u16" \/ type = "i16"
      <4>1. w[1] \in Int
        <5>1. w \in [1..1 -> WordSet]
          BY <3>1, <3>4
        <5>2. w[1] \in WordSet
          BY <5>1, 1 \in 1..1
        <5> QED
          BY <3>3, <5>2
      <4> QED
        BY <3>3, <3>4, <4>1 DEF Decode, AsSigned
    <3>5. CASE type = "u32" \/ type = "i32"
      <4>1. w[1] \in Int /\ w[2] \in Int
        <5>1. w \in [1..2 -> WordSet]
          BY <3>2, <3>5
        <5>2. w[1] \in WordSet /\ w[2] \in WordSet
          BY <5>1, 1 \in 1..2, 2 \in 1..2
        <5> QED
          BY <3>3, <5>2
      <4>2. Combine(w, "big") \in Int
        BY <3>3, <4>1 DEF Combine
      <4>3. Base * Base \in Int
        BY <3>3
      <4> QED
        BY <3>5, <4>2, <4>3 DEF Decode, AsSigned
    <3> QED
      BY <3>4, <3>5 DEF Whole
  <2>3. Decode(Encode(v, type, "big"), type, "big") = 2 * c
    <3> HIDE DEF v
    <3> QED
      BY <1>2, <2>2, SentIsCast
  <2>4. c \in low..high
    <3>1. CASE v = NaN
      BY <1>1, <3>1 DEF Cast
    <3>2. CASE v # NaN
      <4> HIDE DEF v, low, high
      <4> QED
        BY <1>1, <2>2, <3>2, CastNearest
    <3> QED
      BY <3>1, <3>2
  <2> HIDE DEF c
  <2> QED
    BY <2>1, <2>3, <2>4
<1> QED
  BY <1>3, <1>4 DEF Representable

\* The numbers of a float.
LEMMA FloatNumbers == Representable("f32") = Floats
<1>1. "big" \in Orders
  BY DEF Orders
<1>2. ASSUME NEW v \in Floats PROVE v \in Representable("f32")
  <2>1. v \in Int \cup {NaN}
    BY FloatAssumption
  <2> QED
    BY <1>1, <2>1, FloatIsSent, FloatNarrows DEF Representable, Width
<1>3. ASSUME NEW w \in [1..2 -> WordSet] PROVE Decode(w, "f32", "big") \in Floats
  <2>1. Combine(w, "big") \in Doubles
    BY <1>1, SplitCombine
  <2>2. \E v \in Floats : FloatBits[v] = Combine(w, "big")
    BY <2>1, FloatAssumption DEF Doubles
  <2> QED
    BY <2>2 DEF Decode
<1>4. Representable("f32") \subseteq Floats
  BY <1>3 DEF Representable, Width
<1> QED
  BY <1>2, <1>4

\* For any value and any floats the server sends the nearest number that the type
\* of the register has (encode_value, decode_words).
THEOREM NearestSent == Spec => []NearestIsSent
<1>1. InputInv => NearestIsSent
  <2> SUFFICES ASSUME InputInv, input.kind = "value", input.type # "bool"
               PROVE  NearestIsSent
    BY DEF NearestIsSent
  <2> DEFINE v == input.value
             type == input.type
             order == input.order
             all == Representable(type)
             got == Decode(Encode(v, type, order), type, order)
             Goal == /\ got \in all
                     /\ IF v = NaN THEN got = (IF NaN \in all THEN NaN ELSE 0)
                        ELSE \A n \in all \ {NaN} :
                               \/ Abs(got - v) < Abs(n - v)
                               \/ /\ Abs(got - v) = Abs(n - v)
                                  /\ IF type = "f32" THEN IsEven(n) => IsEven(got)
                                     ELSE Abs(got) >= Abs(n)
  <2>1. /\ v \in Int \cup {NaN} /\ order \in Orders
        /\ type # "f32" => type \in Whole
    BY NumbersAssumption DEF InputInv, Types, Whole
  <2>2. NearestIsSent <=> Goal
    BY Zenon DEF NearestIsSent
  <2> HIDE DEF v, type, order
  <2>3. CASE type = "f32"
    <3>1. all = Floats
      BY <2>3, FloatNumbers
    <3>2. got = Narrow(v)
      BY <2>1, <2>3, FloatIsSent
    <3>3. got \in Floats
      BY <2>1, <3>2, NarrowTyped
    <3> HIDE DEF all, got
    <3>4. ASSUME v # NaN, NEW n \in Floats \ {NaN}
          PROVE  \/ Abs(got - v) < Abs(n - v)
                 \/ Abs(got - v) = Abs(n - v) /\ (IsEven(n) => IsEven(got))
      <4>1. v \in Int /\ got \in Near(v)
        BY <2>1, <3>2, <3>4, NearestFloat
      <4>2. \A g \in Near(v) : IsEven(g) => IsEven(got)
        BY <3>2, <4>1, NearestFloat
      <4>3. got \in Int /\ n \in Int /\ Abs(got - v) <= Abs(n - v)
        BY <3>4, <4>1, FloatAssumption DEF Near
      <4>4. Abs(got - v) \in Int /\ Abs(n - v) \in Int
        BY <4>1, <4>3 DEF Abs
      <4>5. CASE Abs(got - v) = Abs(n - v)
        <5>1. n \in Near(v)
          BY <3>4, <4>1, <4>5 DEF Near
        <5> QED
          BY <4>2, <4>5, <5>1
      <4> QED
        BY <4>3, <4>4, <4>5
    <3>5. v = NaN => got = NaN /\ NaN \in Floats
      BY <3>2, FloatAssumption DEF Narrow
    <3> QED
      BY <2>2, <2>3, <3>1, <3>3, <3>4, <3>5
  <2>4. CASE type # "f32"
    <3> DEFINE low == Lowest(type)
               high == Highest(type)
               c == Cast(v, low, high)
    <3>1. type \in Whole
      BY <2>1, <2>4
    <3>2. got = 2 * c
      BY <2>1, <3>1, SentIsCast
    <3>3. \A n : n \in all <=> \E m \in low..high : n = 2 * m
      BY <3>1, WholeNumbers
    <3>4. low \in Int /\ high \in Int /\ low <= 0 /\ 0 <= high
      BY <3>1, RangeOfType
    <3> HIDE DEF all, got, low, high
    <3>5. NaN \notin all
      <4>1. \A m \in low..high : 2 * m \in Int
        BY <3>4
      <4> QED
        BY <3>3, <4>1, FloatAssumption
    <3>6. CASE v = NaN
      <4>1. c = 0
        BY <3>6 DEF Cast
      <4>2. got = 0 /\ 0 \in low..high
        BY <3>2, <3>4, <4>1
      <4>3. got \in all
        BY <3>3, <4>2
      <4> QED
        BY <2>2, <3>5, <3>6, <4>2, <4>3
    <3>7. CASE v # NaN
      <4>1. v \in Int /\ low <= high
        BY <2>1, <3>4, <3>7
      <4>2. /\ c \in low..high
            /\ \A m \in low..high :
                 \/ Abs(2 * c - v) < Abs(2 * m - v)
                 \/ Abs(2 * c - v) = Abs(2 * m - v) /\ Abs(2 * c) >= Abs(2 * m)
        BY <3>4, <4>1, CastNearest
      <4> HIDE DEF c
      <4>3. got \in all
        BY <3>2, <3>3, <4>2
      <4>4. ASSUME NEW n \in all \ {NaN}
            PROVE  \/ Abs(got - v) < Abs(n - v)
                   \/ Abs(got - v) = Abs(n - v) /\ Abs(got) >= Abs(n)
        <5>1. PICK m \in low..high : n = 2 * m
          BY <3>3
        <5> QED
          BY <3>2, <4>2, <5>1
      <4> QED
        BY <2>2, <2>4, <3>7, <4>3, <4>4
    <3> QED
      BY <3>6, <3>7
  <2> QED
    BY <2>3, <2>4
<1> QED
  BY <1>1, InputsPicked, PTL

-----------------------------------------------------------------------------
(* Reads *)

\* Every value has as many words as its type.
LEMMA EncodedWidth ==
  ASSUME NEW type \in Types, NEW order, NEW v
  PROVE  LET e == Encode(v, type, order) IN
         e = IF Width(type) = 1 THEN <<e[1]>> ELSE <<e[1], e[2]>>
<1> DEFINE e == Encode(v, type, order)
<1>1. CASE type \in {"u32", "i32", "f32"}
  <2>1. \E n : e = Split(n, order)
    BY <1>1 DEF Encode
  <2>2. \E a, b : e = <<a, b>>
    BY <2>1 DEF Split
  <2> QED
    BY <1>1, <2>2 DEF Width
<1>2. CASE type \notin {"u32", "i32", "f32"}
  <2>1. \E a : e = <<a>>
    BY <1>2 DEF Encode, Types
  <2> QED
    BY <1>2, <2>1 DEF Width
<1> QED
  BY <1>1, <1>2

\* What a part of a reply with one or two words is.
LEMMA OneOrTwo ==
  ASSUME NEW s, NEW k \in Nat
  PROVE  /\ SubSeq(s, k, k) = <<s[k]>>
         /\ SubSeq(s, k, k + 1) = <<s[k], s[k + 1]>>
<1> DEFINE S == {s[k], s[k + 1]}
           one == SubSeq(s, k, k)
           two == SubSeq(s, k, k + 1)
<1>1. one \in Seq(S) /\ Len(one) = 1 /\ one[1] = s[k]
  <2>1. /\ one \in Seq(S)
        /\ Len(one) = IF k <= k THEN k - k + 1 ELSE 0
        /\ \A i \in 1..(k - k + 1) : one[i] = s[k + i - 1]
    <3>1. \A i \in k..k : s[i] \in S
      OBVIOUS
    <3> HIDE DEF S
    <3> QED
      BY <3>1, SubSeqProperties
  <2> HIDE DEF one, S
  <2>2. k - k + 1 = 1 /\ k + 1 - 1 = k
    OBVIOUS
  <2> QED
    BY <2>1, <2>2
<1>2. two \in Seq(S) /\ Len(two) = 2 /\ two[1] = s[k] /\ two[2] = s[k + 1]
  <2>1. /\ two \in Seq(S)
        /\ Len(two) = IF k <= k + 1 THEN (k + 1) - k + 1 ELSE 0
        /\ \A i \in 1..((k + 1) - k + 1) : two[i] = s[k + i - 1]
    <3>1. \A i \in k..(k + 1) : s[i] \in S
      OBVIOUS
    <3> HIDE DEF S
    <3> QED
      BY <3>1, SubSeqProperties
  <2> HIDE DEF two, S
  <2>2. (k + 1) - k + 1 = 2 /\ k + 1 - 1 = k /\ k + 2 - 1 = k + 1
    OBVIOUS
  <2> QED
    BY <2>1, <2>2
<1> HIDE DEF one, two
<1>3. one = <<s[k]>> /\ two = <<s[k], s[k + 1]>>
  BY <1>1, <1>2
<1> QED
  BY <1>3 DEF one, two

\* A read of registers gives the whole values it covers (read_words).
LEMMA RegistersRead == InputInv => ReadDecodes
<1> SUFFICES ASSUME InputInv, input.kind = "read" PROVE ReadDecodes
  BY DEF ReadDecodes
<1> DEFINE values == input.values
           area == input.area
           addr == input.addr
           count == input.count
           end == addr + count
           got == ReadWords(values, area, addr, count)
<1>1. /\ addr \in Nat /\ count \in Nat
      /\ area \in Seq([sensor : Sensors, type : Types, order : Orders, word : {0, 1}])
      /\ \A n \in DOMAIN area : \A k \in 1..(Width(area[n].type) - 1) :
           area[n].word = 0 =>
             n + k \in DOMAIN area /\ area[n + k] = [area[n] EXCEPT !.word = k]
  BY ReadsAssumption, AreasAssumption DEF InputInv
<1> HIDE DEF values, area, addr, count
<1> DEFINE R == [sensor : Sensors, type : Types, order : Orders, word : {0, 1}]
<1>2. ASSUME NEW n \in DOMAIN area PROVE area[n] \in R
  <2>1. area \in Seq(R)
    BY <1>1
  <2> HIDE DEF R
  <2> QED
    BY <2>1
<1>3. ASSUME NEW n \in DOMAIN area, area[n].word = 0, Width(area[n].type) = 2
      PROVE  /\ n + 1 \in DOMAIN area
             /\ area[n + 1].sensor = area[n].sensor /\ area[n + 1].type = area[n].type
             /\ area[n + 1].order = area[n].order /\ area[n + 1].word = 1
  <2>1. 1 \in 1..(Width(area[n].type) - 1)
    BY <1>3
  <2>2. n + 1 \in DOMAIN area /\ area[n + 1] = [area[n] EXCEPT !.word = 1]
    BY <1>1, <1>3, <2>1
  <2>3. area[n] \in R
    BY <1>2
  <2> DEFINE s == area[n]
  <2> HIDE DEF s
  <2>4. [s EXCEPT !.word = 1].word = 1 /\ [s EXCEPT !.word = 1].sensor = s.sensor
        /\ [s EXCEPT !.word = 1].type = s.type /\ [s EXCEPT !.word = 1].order = s.order
    BY <2>3 DEF s
  <2> QED
    BY <2>2, <2>4 DEF s
<1>4. got.code # "" <=> end > Len(area)
  BY <1>1 DEF ReadWords
<1>5. ASSUME got.code = "", NEW n \in addr + 1..end, area[n].word = 0,
             n + Width(area[n].type) - 1 <= end
      PROVE  SubSeq(got.words, n - addr, (n + Width(area[n].type) - 1) - addr)
               = Encode(ValueOrMissing(values, area[n].sensor),
                        area[n].type, area[n].order)
  <2> DEFINE slot == area[n]
             e == Encode(ValueOrMissing(values, slot.sensor), slot.type, slot.order)
             k == n - addr
             w == got.words
  <2>1. end <= Len(area) /\ w = [i \in 1..count |-> WordAt(values, area[addr + i])]
    BY <1>1, <1>4, <1>5 DEF ReadWords
  <2>2. n \in DOMAIN area /\ k \in Nat /\ k \in 1..count /\ addr + k = n
    BY <1>1, <2>1
  <2>3. slot.type \in Types /\ slot.word = 0
    BY <1>5, <1>2, <2>2
  <2>4. w[k] = e[1]
    <3>1. w[k] = WordAt(values, slot)
      BY <2>1, <2>2
    <3> QED
      BY <2>3, <3>1 DEF WordAt
  <2>5. e = IF Width(slot.type) = 1 THEN <<e[1]>> ELSE <<e[1], e[2]>>
    BY <2>3, EncodedWidth
  <2>6. Width(slot.type) \in {1, 2}
    BY DEF Width
  <2>7. CASE Width(slot.type) = 1
    <3>1. (n + Width(slot.type) - 1) - addr = k
      BY <1>1, <2>2, <2>7
    <3> HIDE DEF e, w, k
    <3> QED
      BY <2>2, <2>4, <2>5, <2>7, <3>1, OneOrTwo DEF k, e, w
  <2>8. CASE Width(slot.type) = 2
    <3>1. (n + Width(slot.type) - 1) - addr = k + 1 /\ k + 1 \in 1..count
      <4>1. n \in Int /\ n + 2 - 1 <= end
        <5> DEFINE W == Width(area[n].type)
        <5>1. W = 2 /\ n + W - 1 <= end
          BY <1>5, <2>8
        <5>2. n \in Int
          <6>1. addr \in Nat /\ k \in Nat /\ addr + k = n
            BY <1>1, <2>2
          <6> HIDE DEF k
          <6> QED
            BY <6>1
        <5> HIDE DEF W
        <5> QED
          BY <5>1, <5>2
      <4> QED
        BY <1>1, <2>2, <2>8, <4>1
    <3>2. n + 1 = addr + (k + 1)
      BY <1>1, <2>2
    <3>3. w[k + 1] = WordAt(values, area[n + 1])
      BY <2>1, <3>1, <3>2
    <3>4. /\ area[n + 1].sensor = slot.sensor /\ area[n + 1].type = slot.type
          /\ area[n + 1].order = slot.order /\ area[n + 1].word = 1
      BY <1>3, <2>2, <2>3, <2>8
    <3>5. w[k + 1] = e[2]
      BY <3>3, <3>4 DEF WordAt
    <3>6. e = <<e[1], e[2]>>
      BY <2>5, <2>8
    <3>7. SubSeq(w, k, k + 1) = <<w[k], w[k + 1]>>
      <4> HIDE DEF w, k
      <4> QED
        BY <2>2, OneOrTwo
    <3> HIDE DEF e, w, k
    <3>8. SubSeq(w, k, k + 1) = e
      BY <2>4, <3>5, <3>6, <3>7
    <3> QED
      BY <3>1, <3>8 DEF k, e, w
  <2> QED
    BY <2>6, <2>7, <2>8
<1> QED
  BY <1>4, <1>5, Zenon DEF ReadDecodes, values, area, addr, count

\* A read of coils gives the bits of the device (raw_sample_bool, read_bits).
LEMMA CoilsRead == InputInv => BitsSurvive
<1> SUFFICES ASSUME InputInv, input.kind = "bits" PROVE BitsSurvive
  BY DEF BitsSurvive
<1> DEFINE area == [n \in DOMAIN Coils |-> [sensor |-> Coils[n]]]
           sample(s) == RawSampleBool(input.on[s], input.type)
           known == [s \in input.known |-> sample(s).value]
           got == ReadBits(known, area, input.addr, input.count)
<1>1. /\ input.on \in [ToSet(Coils) -> BOOLEAN] /\ input.known \subseteq ToSet(Coils)
      /\ input.addr \in Nat /\ input.count \in Nat
  BY ReadsAssumption DEF InputInv
<1>2. \A s \in ToSet(Coils) : sample(s).ok <=> input.type = "bool"
  BY DEF RawSampleBool, BadReply
<1>3. ASSUME input.type = "bool", NEW i \in 1..input.count
      PROVE  got[i] <=> \E n \in DOMAIN Coils : /\ n = input.addr + i
                                                /\ Coils[n] \in input.known
                                                /\ input.on[Coils[n]]
  <2>1. got[i] <=> /\ input.addr + i \in DOMAIN area
                   /\ area[input.addr + i].sensor \in DOMAIN known
                   /\ known[area[input.addr + i].sensor] # 0
    <3> HIDE DEF area, known
    <3> QED
      BY DEF ReadBits
  <2>2. ASSUME NEW s \in input.known PROVE known[s] # 0 <=> input.on[s]
    <3>1. s \in ToSet(Coils) /\ input.on[s] \in BOOLEAN
      BY <1>1
    <3>2. known[s] = IF input.on[s] THEN 2 ELSE 0
      BY <1>3 DEF RawSampleBool
    <3> QED
      BY <3>1, <3>2
  <2>3. DOMAIN area = DOMAIN Coils /\ \A n \in DOMAIN Coils : area[n].sensor = Coils[n]
    OBVIOUS
  <2>4. DOMAIN known = input.known
    OBVIOUS
  <2> HIDE DEF area, known, got
  <2> QED
    BY <2>1, <2>2, <2>3, <2>4
<1> QED
  BY <1>2, <1>3, Zenon DEF BitsSurvive

\* What a master reads is what the gateway knows (handle).
THEOREM ReadsAreTrue == Spec => []ReadsAgree
<1>1. InputInv => ReadsAgree
  BY RegistersRead, CoilsRead DEF ReadsAgree
<1> QED
  BY <1>1, InputsPicked, PTL

-----------------------------------------------------------------------------
(* Pipelines: one stage after the other *)

\* A step of one of the two folds of a pipeline: stage i, when there are no
\* samples, or else sample i.
Turn(stages, q, x, i) ==
  IF q = <<>> THEN P!StageProcess(stages, x, i)
  ELSE P!PipelineProcess(stages, x.windows, q[i])

\* The value of each set of positions, by the recursion of FoldLeft.
Turns(stages, q, base, n, g) ==
  g = [T \in SUBSET (1..n) |->
         IF T = {} THEN base ELSE Turn(stages, q, g[T \ {Max(T)}], Max(T))]

\* The recursion has a solution, whatever the values are.
LEMMA TurnsSolved ==
  ASSUME NEW stages, NEW q, NEW base, NEW n \in Nat
  PROVE  \E g : Turns(stages, q, base, n, g)
<1> DEFINE Has == {m \in Nat : \E g : Turns(stages, q, base, m, g)}
<1>1. 0 \in Has
  <2> DEFINE g == [T \in SUBSET (1..0) |-> base]
  <2>1. \A T \in SUBSET (1..0) : T = {}
    OBVIOUS
  <2>2. Turns(stages, q, base, 0, g)
    BY <2>1 DEF Turns
  <2> QED
    BY <2>2
<1>2. ASSUME NEW m \in 0..(n - 1), m \in Has PROVE m + 1 \in Has
  <2>1. PICK g : Turns(stages, q, base, m, g)
    BY <1>2
  <2> DEFINE next == m + 1
             h == [T \in SUBSET (1..next) |->
                     IF next \in T THEN Turn(stages, q, g[T \ {next}], next) ELSE g[T]]
  <2>2. next \in 1..n /\ m \in Nat /\ next = m + 1
    OBVIOUS
  <2> HIDE DEF next
  <2>3. ASSUME NEW T \in SUBSET (1..next)
        PROVE  /\ T \ {next} \in SUBSET (1..m)
               /\ next \notin T => T \in SUBSET (1..m)
    BY <2>2
  <2>4. ASSUME NEW T \in SUBSET (1..next)
        PROVE  h[T] = IF T = {} THEN base
                      ELSE Turn(stages, q, h[T \ {Max(T)}], Max(T))
    <3>1. CASE next \in T
      <4>1. Max(T) = next
        <5>1. \A y \in T : y \in 1..next
          OBVIOUS
        <5>2. \A y \in T : next >= y
          BY <2>2, <5>1
        <5>3. ASSUME NEW x \in T, \A y \in T : x >= y PROVE x = next
          BY <2>2, <3>1, <5>1, <5>3
        <5> QED
          BY <3>1, <5>2, <5>3 DEF Max
      <4>2. h[T \ {next}] = g[T \ {next}]
        OBVIOUS
      <4> QED
        BY <3>1, <4>1, <4>2
    <3>2. CASE next \notin T
      <4>1. T \in SUBSET (1..m) /\ h[T] = g[T]
        BY <2>3, <3>2
      <4>2. T # {} => h[T \ {Max(T)}] = g[T \ {Max(T)}]
        BY <3>2
      <4> QED
        BY <2>1, <4>1, <4>2 DEF Turns
    <3> QED
      BY <3>1, <3>2
  <2>5. h = [T \in SUBSET (1..next) |-> h[T]]
    OBVIOUS
  <2> HIDE DEF h
  <2>6. Turns(stages, q, base, next, h)
    BY <2>4, <2>5 DEF Turns
  <2>7. next \in Nat
    BY <2>2
  <2> QED
    BY <2>2, <2>6, <2>7
<1>3. n \in Has
  <2> HIDE DEF Has
  <2> QED
    BY <1>1, <1>2, IntervalInduction
<1> QED
  BY <1>3

\* Each position takes its turn on the value of those before it.
InOrder(stages, q, base, n, g) ==
  /\ g[1..0] = base
  /\ \A k \in 0..(n - 1) : g[1..(k + 1)] = Turn(stages, q, g[1..k], k + 1)

\* The value of the first positions follows from that of one position less.
LEMMA TurnsInTurn ==
  ASSUME NEW stages, NEW q, NEW base, NEW n \in Nat, NEW g, Turns(stages, q, base, n, g)
  PROVE  InOrder(stages, q, base, n, g)
<1>1. g[1..0] = base
  <2>1. 1..0 \in SUBSET (1..n) /\ 1..0 = {}
    OBVIOUS
  <2> QED
    BY <2>1 DEF Turns
<1>2. ASSUME NEW k \in 0..(n - 1)
      PROVE  g[1..(k + 1)] = Turn(stages, q, g[1..k], k + 1)
  <2>1. /\ 1..(k + 1) \in SUBSET (1..n) /\ 1..(k + 1) # {}
        /\ (1..(k + 1)) \ {k + 1} = 1..k
        /\ Max(1..(k + 1)) = k + 1
    BY FirstPositions
  <2> QED
    BY <2>1 DEF Turns
<1> QED
  BY <1>1, <1>2 DEF InOrder

\* The contexts between the stages: c[k] is what stage k leaves.
ThroughStages(c, stages, windows, v) ==
  /\ c[0] = [ok |-> TRUE, value |-> v, status |-> "normal", windows |-> windows]
  /\ \A k \in 0..(Len(stages) - 1) : c[k + 1] = P!StageProcess(stages, c[k], k + 1)
  /\ c[Len(stages)] = P!PipelineProcess(stages, windows, v)

\* A sample goes through the stages one after the other.
LEMMA StagesInTurn ==
  ASSUME NEW S, NEW stages \in Seq(S), stages # <<>>, NEW windows, NEW v
  PROVE  \E c : ThroughStages(c, stages, windows, v)
<1> DEFINE n == Len(stages)
           places == [i \in DOMAIN stages |-> i]
           first == [ok |-> TRUE, value |-> v, status |-> "normal", windows |-> windows]
           Folds(f) == f = [T \in SUBSET DOMAIN places |->
                              IF T = {} THEN first
                              ELSE P!StageProcess(stages, f[T \ {Max(T)}], places[Max(T)])]
           iter == CHOOSE f : Folds(f)
<1>1. DOMAIN stages = 1..n /\ DOMAIN places = 1..n /\ n \in Nat
  OBVIOUS
<1>2. P!PipelineProcess(stages, windows, v) = iter[DOMAIN places]
  BY Zenon DEF P!PipelineProcess, P!FoldLeft, P!MapThenFoldSet, P!Max, Max
<1>3. PICK g : Turns(stages, <<>>, first, n, g)
  <2> HIDE DEF n, first
  <2> QED
    BY <1>1, TurnsSolved
<1>4. Folds(g)
  <2>1. ASSUME NEW T \in SUBSET (1..n), T # {} PROVE places[Max(T)] = Max(T)
    <3>1. T \subseteq 0..n
      BY <1>1
    <3> QED
      BY <1>1, <2>1, <3>1, MaxOfNumbers
  <2> HIDE DEF places, first
  <2> QED
    BY <1>1, <1>3, <2>1 DEF Turns, Turn
<1>5. Turns(stages, <<>>, first, n, iter)
  <2>1. Folds(iter)
    <3> HIDE DEF Folds
    <3> QED
      BY <1>4
  <2>2. ASSUME NEW T \in SUBSET (1..n), T # {} PROVE places[Max(T)] = Max(T)
    <3>1. T \subseteq 0..n
      BY <1>1
    <3> QED
      BY <1>1, <2>2, <3>1, MaxOfNumbers
  <2> HIDE DEF places, first, iter
  <2> QED
    BY <1>1, <2>1, <2>2 DEF Turns, Turn
<1> DEFINE c == [k \in 0..n |-> iter[1..k]]
<1> HIDE DEF iter
<1>6. /\ iter[1..0] = first
      /\ \A k \in 0..(n - 1) : iter[1..(k + 1)] = Turn(stages, <<>>, iter[1..k], k + 1)
  <2> HIDE DEF n, first
  <2>1. InOrder(stages, <<>>, first, n, iter)
    BY <1>1, <1>5, TurnsInTurn
  <2> QED
    BY <2>1 DEF InOrder
<1>7. \A k \in 0..n : c[k] = iter[1..k]
  OBVIOUS
<1> HIDE DEF c
<1>8. c[0] = first /\ c[n] = P!PipelineProcess(stages, windows, v)
  BY <1>1, <1>2, <1>6, <1>7
<1>9. ASSUME NEW k \in 0..(n - 1) PROVE c[k + 1] = P!StageProcess(stages, c[k], k + 1)
  <2>1. k \in 0..n /\ k + 1 \in 0..n
    BY <1>1
  <2> HIDE DEF n
  <2> QED
    BY <1>6, <1>7, <2>1 DEF Turn
<1>10. ThroughStages(c, stages, windows, v)
  BY <1>8, <1>9 DEF ThroughStages
<1> QED
  BY <1>10

\* The contexts after the samples: c[k] is what sample k leaves.
ThroughSamples(c, stages, q) ==
  /\ c[0] = [windows |-> P!NewWindows(stages)]
  /\ \A k \in 0..(Len(q) - 1) :
       c[k + 1] = P!PipelineProcess(stages, c[k].windows, q[k + 1])
  /\ c[Len(q)] = P!AfterSamples(stages, q)

\* Samples are processed one after the other.
LEMMA SamplesInTurn ==
  ASSUME NEW S, NEW stages, NEW q \in Seq(S), q # <<>>
  PROVE  \E c : ThroughSamples(c, stages, q)
<1> DEFINE n == Len(q)
           first == [windows |-> P!NewWindows(stages)]
           Folds(f) == f = [T \in SUBSET DOMAIN q |->
                              IF T = {} THEN first
                              ELSE P!PipelineProcess(stages, f[T \ {Max(T)}].windows, q[Max(T)])]
           iter == CHOOSE f : Folds(f)
<1>1. DOMAIN q = 1..n /\ n \in Nat
  OBVIOUS
<1>2. P!AfterSamples(stages, q) = iter[DOMAIN q]
  BY Zenon DEF P!AfterSamples, P!FoldLeft, P!MapThenFoldSet, P!Max, Max
<1>3. PICK g : Turns(stages, q, first, n, g)
  <2> HIDE DEF n, first
  <2> QED
    BY <1>1, TurnsSolved
<1>4. Turns(stages, q, first, n, iter)
  <2>1. Folds(g)
    <3> HIDE DEF first
    <3> QED
      BY <1>1, <1>3 DEF Turns, Turn
  <2>2. Folds(iter)
    <3> HIDE DEF Folds
    <3> QED
      BY <2>1
  <2> HIDE DEF first, iter
  <2> QED
    BY <1>1, <2>2 DEF Turns, Turn
<1> DEFINE c == [k \in 0..n |-> iter[1..k]]
<1> HIDE DEF iter
<1>5. /\ iter[1..0] = first
      /\ \A k \in 0..(n - 1) : iter[1..(k + 1)] = Turn(stages, q, iter[1..k], k + 1)
  <2> HIDE DEF n, first, c, Folds
  <2> QED
    <3>1. InOrder(stages, q, first, n, iter)
      BY <1>1, <1>4, TurnsInTurn
    <3> QED
      BY <3>1 DEF InOrder
<1>6. \A k \in 0..n : c[k] = iter[1..k]
  OBVIOUS
<1> HIDE DEF c
<1>7. c[0] = first /\ c[n] = P!AfterSamples(stages, q)
  BY <1>1, <1>2, <1>5, <1>6
<1>8. ASSUME NEW k \in 0..(n - 1)
      PROVE  c[k + 1] = P!PipelineProcess(stages, c[k].windows, q[k + 1])
  <2>1. k \in 0..n /\ k + 1 \in 0..n
    BY <1>1
  <2> HIDE DEF n
  <2> QED
    BY <1>5, <1>6, <2>1 DEF Turn
<1>9. ThroughSamples(c, stages, q)
  BY <1>7, <1>8 DEF ThroughSamples
<1> QED
  BY <1>9

-----------------------------------------------------------------------------
(* Stages *)

\* A pipeline that passed validation.
ValidStages(stages) ==
  /\ stages \in Seq(ToSet(stages))
  /\ \A i \in DOMAIN stages :
       /\ P!ValidStage(stages[i])
       /\ stages[i].type \in P!Windowed \cup {"scale", "math", "threshold"}

Fails(s) == s.type = "math" /\ ~ s.known

\* The context while no stage has failed.
Context(v, y, windows) == [ok |-> TRUE, value |-> v, status |-> y, windows |-> windows]

\* What a stage makes of a value, of the status, and of the windows.
Leaving(s, v, window) ==
  IF s.type \in P!Windowed THEN P!Statistic(s.type, P!Push(window, v, s.window))
  ELSE IF s.type = "scale" THEN P!Scaled(v, s.scale, s.offset)
  ELSE IF s.type = "math" THEN P!MathValue(v, s.low)
  ELSE v

StatusAfter(s, v, y) == IF s.type = "threshold" THEN P!Status(v, s) ELSE y

WindowsAfter(s, v, windows, i) ==
  IF s.type \in P!Windowed THEN [windows EXCEPT ![i] = P!Push(@, v, s.window)]
  ELSE windows

StageLeaves(stages, i, v, y, windows) ==
  /\ ~ Fails(stages[i]) =>
       P!StageProcess(stages, Context(v, y, windows), i)
         = Context(Leaving(stages[i], v, windows[i]), StatusAfter(stages[i], v, y),
                   WindowsAfter(stages[i], v, windows, i))
  /\ Fails(stages[i]) => P!StageProcess(stages, Context(v, y, windows), i).ok = FALSE

\* One stage.
LEMMA OneStage ==
  ASSUME NEW stages, ValidStages(stages), NEW i \in DOMAIN stages, NEW v, NEW y, NEW windows
  PROVE  StageLeaves(stages, i, v, y, windows)
<1> DEFINE s == stages[i]
           ctx == Context(v, y, windows)
<1>1. ctx.ok = TRUE /\ ctx.value = v /\ ctx.windows = windows
  BY DEF Context
<1>2. s.type \in P!Windowed \cup {"scale", "math", "threshold"}
  BY DEF ValidStages
<1>3. P!Windowed = {"average", "median", "min", "max"}
  BY DEF P!Windowed
<1>4. CASE s.type \in P!Windowed
  <2>1. P!StageProcess(stages, ctx, i)
          = [ctx EXCEPT !.windows[i] = P!Push(windows[i], v, s.window),
                        !.value = P!Statistic(s.type, P!Push(windows[i], v, s.window))]
    BY <1>1, <1>3, <1>4 DEF P!StageProcess
  <2> QED
    BY <1>3, <1>4, <2>1 DEF StageLeaves, Context, Leaving, StatusAfter, WindowsAfter, Fails
<1>5. CASE s.type = "scale"
  <2>1. P!StageProcess(stages, ctx, i) = [ctx EXCEPT !.value = P!Scaled(@, s.scale, s.offset)]
    BY <1>1, <1>3, <1>5 DEF P!StageProcess
  <2> QED
    BY <1>3, <1>5, <2>1 DEF StageLeaves, Context, Leaving, StatusAfter, WindowsAfter, Fails
<1>6. CASE s.type = "math"
  <2>1. P!StageProcess(stages, ctx, i) = IF s.known THEN [ctx EXCEPT !.value = P!MathValue(@, s.low)]
                                         ELSE [ctx EXCEPT !.ok = FALSE]
    BY <1>1, <1>3, <1>6 DEF P!StageProcess
  <2> QED
    BY <1>3, <1>6, <2>1 DEF StageLeaves, Context, Leaving, StatusAfter, WindowsAfter, Fails
<1>7. CASE s.type = "threshold"
  <2>1. P!StageProcess(stages, ctx, i) = [ctx EXCEPT !.status = P!Status(ctx.value, s)]
    BY <1>1, <1>3, <1>7 DEF P!StageProcess
  <2> QED
    BY <1>3, <1>7, <2>1 DEF StageLeaves, Context, Leaving, StatusAfter, WindowsAfter, Fails
<1> QED
  BY <1>2, <1>4, <1>5, <1>6, <1>7

\* A failure is passed on.
LEMMA FailureStays ==
  ASSUME NEW stages, NEW ctx, NEW i, ctx.ok = FALSE
  PROVE  P!StageProcess(stages, ctx, i) = ctx
  BY DEF P!StageProcess

\* The contexts of a sample in a pipeline without a stage that fails.
LEMMA NoneFails ==
  ASSUME NEW stages, ValidStages(stages), \A i \in DOMAIN stages : ~ Fails(stages[i]),
         NEW windows, NEW v, NEW c, ThroughStages(c, stages, windows, v)
  PROVE  \A k \in 0..Len(stages) : c[k] = Context(c[k].value, c[k].status, c[k].windows)
<1> DEFINE n == Len(stages)
           Reach == {k \in 0..n : c[k] = Context(c[k].value, c[k].status, c[k].windows)}
<1>1. DOMAIN stages = 1..n /\ n \in Nat
  BY DEF ValidStages
<1>2. 0 \in Reach
  <2>1. c[0] = Context(v, "normal", windows)
    BY DEF ThroughStages, Context
  <2>2. c[0].value = v /\ c[0].status = "normal" /\ c[0].windows = windows
    BY <2>1 DEF Context
  <2> QED
    BY <1>1, <2>1, <2>2
<1>3. ASSUME NEW k \in 0..(n - 1), k \in Reach PROVE k + 1 \in Reach
  <2>1. k + 1 \in 1..n /\ k + 1 \in 0..n
    BY <1>1
  <2>2. c[k + 1] = P!StageProcess(stages, Context(c[k].value, c[k].status, c[k].windows), k + 1)
    BY <1>3 DEF ThroughStages
  <2>3. \E a, b, w : c[k + 1] = Context(a, b, w)
    <3>1. StageLeaves(stages, k + 1, c[k].value, c[k].status, c[k].windows)
      BY <1>1, <2>1, OneStage
    <3> QED
      BY <1>1, <2>1, <2>2, <3>1 DEF StageLeaves
  <2>4. c[k + 1] = Context(c[k + 1].value, c[k + 1].status, c[k + 1].windows)
    BY <2>3 DEF Context
  <2> QED
    BY <2>1, <2>4
<1>4. 0..n \subseteq Reach
  <2> HIDE DEF Reach, n
  <2> QED
    BY <1>1, <1>2, <1>3, IntervalInduction
<1> QED
  BY <1>4

\* A context that no stage has failed in.
Passed(x) == \E a, b, w : x = Context(a, b, w)

\* A pipeline fails on every sample if it has a stage that fails, and never
\* otherwise.
LEMMA PipelineFails ==
  ASSUME NEW stages, ValidStages(stages), stages # <<>>, NEW windows, NEW v
  PROVE  P!PipelineProcess(stages, windows, v).ok
           = ~ \E i \in DOMAIN stages : Fails(stages[i])
<1> DEFINE n == Len(stages)
<1>1. DOMAIN stages = 1..n /\ n \in Nat /\ stages \in Seq(ToSet(stages)) /\ stages # <<>>
  BY DEF ValidStages
<1>2. PICK c : ThroughStages(c, stages, windows, v)
  BY <1>1, StagesInTurn
<1>3. CASE \A i \in DOMAIN stages : ~ Fails(stages[i])
  <2>1. c[n] = Context(c[n].value, c[n].status, c[n].windows)
    BY <1>1, <1>2, <1>3, NoneFails
  <2>2. P!PipelineProcess(stages, windows, v) = c[n]
    BY <1>2 DEF ThroughStages
  <2>3. c[n].ok = TRUE
    BY <2>1 DEF Context
  <2> QED
    BY <1>3, <2>2, <2>3
<1>4. CASE \E i \in DOMAIN stages : Fails(stages[i])
  <2>1. PICK i \in 1..n : Fails(stages[i])
    BY <1>1, <1>4
  <2> DEFINE Reach == {k \in 0..n : /\ c[k].ok = FALSE \/ Passed(c[k])
                                    /\ k >= i => c[k].ok = FALSE}
  <2>2. 0 \in Reach
    <3>1. c[0] = Context(v, "normal", windows)
      BY <1>2 DEF ThroughStages, Context
    <3>2. ~ (0 >= i)
      BY <2>1
    <3>3. Passed(c[0])
      BY <3>1 DEF Passed
    <3> QED
      BY <1>1, <3>2, <3>3
  <2>3. ASSUME NEW k \in 0..(n - 1), k \in Reach PROVE k + 1 \in Reach
    <3>1. k + 1 \in 1..n /\ k + 1 \in 0..n /\ c[k + 1] = P!StageProcess(stages, c[k], k + 1)
      BY <1>1, <1>2 DEF ThroughStages
    <3>2. CASE c[k].ok = FALSE
      <4>1. c[k + 1] = c[k]
        BY <3>1, <3>2, FailureStays
      <4> QED
        BY <3>1, <3>2, <4>1
    <3>3. CASE Passed(c[k])
      <4>1. PICK a, b, w : c[k] = Context(a, b, w)
        BY <3>3 DEF Passed
      <4> DEFINE j == k + 1
      <4>0. StageLeaves(stages, j, a, b, w)
        BY <1>1, <3>1, OneStage
      <4> HIDE DEF j
      <4>2. Fails(stages[j]) => c[j].ok = FALSE
        BY <3>1, <4>0, <4>1 DEF StageLeaves, j
      <4>3. ~ Fails(stages[j]) => Passed(c[j])
        BY <3>1, <4>0, <4>1 DEF StageLeaves, Passed, j
      <4>4. k + 1 > i => k >= i
        BY <2>1
      <4>5. k >= i => c[k].ok = FALSE
        BY <2>3
      <4>6. c[k].ok = TRUE
        BY <4>1 DEF Context
      <4>7. k + 1 >= i => Fails(stages[k + 1])
        BY <2>1, <4>4, <4>5, <4>6
      <4> QED
        BY <3>1, <4>2, <4>3, <4>7 DEF j
    <3> QED
      BY <2>3, <3>2, <3>3
  <2>4. 0..n \subseteq Reach
    <3> HIDE DEF Reach, n
    <3> QED
      BY <1>1, <2>2, <2>3, IntervalInduction
  <2>5. c[n].ok = FALSE
    BY <1>1, <2>1, <2>4
  <2> QED
    BY <1>2, <1>4, <2>5 DEF ThroughStages
<1> QED
  BY <1>3, <1>4

-----------------------------------------------------------------------------
(* Windows *)

\* A window of a width, of any values.
IsWindow(w, width) == \E U : w \in Seq(U) /\ Len(w) <= width

\* Counted from the end, both windows have the same k-th sample.
Same(a, b, k) ==
  /\ Len(a) >= k /\ Len(b) >= k
  /\ a[Len(a) - k + 1] = b[Len(b) - k + 1]

\* Appending keeps what is in a sequence, whatever is appended.
LEMMA AppendAny ==
  ASSUME NEW U, NEW w \in Seq(U), NEW v
  PROVE  /\ Append(w, v) \in Seq(U \cup {v})
         /\ Len(Append(w, v)) = Len(w) + 1
         /\ \A i \in 1..Len(w) : Append(w, v)[i] = w[i]
         /\ Append(w, v)[Len(w) + 1] = v
<1>1. w \in Seq(U \cup {v}) /\ v \in U \cup {v}
  OBVIOUS
<1> QED
  BY <1>1

\* A sample that is pushed is the last of the window, and the others move on.
LEMMA Pushed ==
  ASSUME NEW width \in Nat \ {0}, NEW w, IsWindow(w, width), NEW v
  PROVE  /\ IsWindow(P!Push(w, v, width), width)
         /\ Len(w) \in Nat
         /\ Len(P!Push(w, v, width)) = IF Len(w) < width THEN Len(w) + 1 ELSE width
         /\ P!Push(w, v, width)[Len(P!Push(w, v, width))] = v
         /\ \A k \in 2..width : Len(w) >= k - 1 =>
              P!Push(w, v, width)[Len(P!Push(w, v, width)) - k + 1]
                = w[Len(w) - (k - 1) + 1]
<1>1. PICK U : w \in Seq(U) /\ Len(w) <= width
  BY DEF IsWindow
<1> DEFINE x == Append(w, v)
           V == U \cup {v}
           p == P!Push(w, v, width)
<1>2. /\ x \in Seq(V) /\ Len(x) = Len(w) + 1
      /\ \A i \in 1..Len(w) : x[i] = w[i]
      /\ x[Len(w) + 1] = v
      /\ Len(w) \in Nat
  BY <1>1, AppendAny
<1>3. p = IF Len(x) > width THEN Tail(x) ELSE x
  BY DEF P!Push
<1> HIDE DEF x, p
<1>4. CASE Len(w) < width
  <2>1. p = x
    BY <1>2, <1>3, <1>4
  <2>2. IsWindow(p, width)
    BY <1>2, <1>4, <2>1 DEF IsWindow
  <2>3. ASSUME NEW k \in 2..width, Len(w) >= k - 1
        PROVE  p[Len(p) - k + 1] = w[Len(w) - (k - 1) + 1]
    <3>1. Len(p) - k + 1 \in 1..Len(w) /\ Len(p) - k + 1 = Len(w) - (k - 1) + 1
      BY <1>2, <2>1, <2>3
    <3> QED
      BY <1>2, <2>1, <3>1
  <2> QED
    BY <1>2, <1>4, <2>1, <2>2, <2>3 DEF p
<1>5. CASE Len(w) = width
  <2>1. p = Tail(x) /\ x # <<>>
    BY <1>2, <1>3, <1>5
  <2>2. p \in Seq(V) /\ Len(p) = width /\ \A i \in 1..width : p[i] = x[i + 1]
    BY <1>2, <1>5, <2>1
  <2>3. IsWindow(p, width)
    BY <2>2 DEF IsWindow
  <2>4. p[Len(p)] = v
    BY <1>2, <1>5, <2>2
  <2>5. ASSUME NEW k \in 2..width
        PROVE  p[Len(p) - k + 1] = w[Len(w) - (k - 1) + 1]
    <3>1. width - k + 1 \in 1..width /\ width - k + 2 \in 1..Len(w)
      BY <1>5
    <3>2. p[width - k + 1] = x[width - k + 1 + 1]
      BY <2>2, <3>1
    <3>3. width - k + 1 + 1 = width - k + 2 /\ width - (k - 1) + 1 = width - k + 2
      OBVIOUS
    <3>4. x[width - k + 2] = w[width - k + 2]
      BY <1>2, <3>1
    <3> QED
      BY <1>5, <2>2, <3>2, <3>3, <3>4
  <2> QED
    BY <1>2, <1>5, <2>2, <2>3, <2>4, <2>5 DEF p
<1> QED
  BY <1>1, <1>2, <1>4, <1>5

\* Windows alike from a sample on are alike from the one before it on, after both
\* took the same sample.
LEMMA PushedSame ==
  ASSUME NEW width \in Nat \ {0}, NEW a, IsWindow(a, width), NEW b, IsWindow(b, width),
         NEW v, NEW u, NEW k \in 1..width,
         k = 1 => v = u, k > 1 => Same(a, b, k - 1)
  PROVE  Same(P!Push(a, v, width), P!Push(b, u, width), k)
<1> DEFINE p == P!Push(a, v, width)
           r == P!Push(b, u, width)
<1>1. /\ Len(a) \in Nat /\ Len(p) = IF Len(a) < width THEN Len(a) + 1 ELSE width
      /\ p[Len(p)] = v
      /\ \A j \in 2..width : Len(a) >= j - 1 => p[Len(p) - j + 1] = a[Len(a) - (j - 1) + 1]
  BY Pushed
<1>2. /\ Len(b) \in Nat /\ Len(r) = IF Len(b) < width THEN Len(b) + 1 ELSE width
      /\ r[Len(r)] = u
      /\ \A j \in 2..width : Len(b) >= j - 1 => r[Len(r) - j + 1] = b[Len(b) - (j - 1) + 1]
  BY Pushed
<1> HIDE DEF p, r
<1>3. CASE k = 1
  <2>1. Len(p) - 1 + 1 = Len(p) /\ Len(r) - 1 + 1 = Len(r) /\ Len(p) >= 1 /\ Len(r) >= 1
    BY <1>1, <1>2
  <2>2. Same(p, r, 1)
    BY <1>1, <1>2, <1>3, <2>1 DEF Same
  <2> QED
    BY <1>3, <2>2 DEF p, r
<1>4. CASE k > 1
  <2>1. k \in 2..width
    BY <1>4
  <2>2. /\ Len(a) >= k - 1 /\ Len(b) >= k - 1
        /\ a[Len(a) - (k - 1) + 1] = b[Len(b) - (k - 1) + 1]
    BY <1>4 DEF Same
  <2>3. Len(p) >= k /\ Len(r) >= k
    BY <1>1, <1>2, <2>1, <2>2
  <2>4. p[Len(p) - k + 1] = r[Len(r) - k + 1]
    BY <1>1, <1>2, <2>1, <2>2
  <2>5. Same(p, r, k)
    BY <2>3, <2>4 DEF Same
  <2> QED
    BY <2>5 DEF p, r
<1> QED
  BY <1>3, <1>4

\* Windows that are alike all over are equal.
LEMMA AllSame ==
  ASSUME NEW width \in Nat \ {0}, NEW a, IsWindow(a, width), NEW b, IsWindow(b, width),
         \A k \in 1..width : Same(a, b, k)
  PROVE  a = b
<1>1. PICK U : a \in Seq(U) /\ Len(a) <= width
  BY DEF IsWindow
<1>2. PICK V : b \in Seq(V) /\ Len(b) <= width
  BY DEF IsWindow
<1>3. Len(a) = width /\ Len(b) = width
  <2>1. Same(a, b, width)
    OBVIOUS
  <2> QED
    BY <1>1, <1>2, <2>1 DEF Same
<1>4. ASSUME NEW i \in 1..width PROVE a[i] = b[i]
  <2> DEFINE k == width - i + 1
  <2>1. k \in 1..width /\ width - k + 1 = i
    OBVIOUS
  <2> HIDE DEF k
  <2> QED
    BY <1>3, <2>1 DEF Same
<1>5. a = [i \in 1..width |-> a[i]] /\ b = [i \in 1..width |-> b[i]]
  BY <1>1, <1>2, <1>3
<1> QED
  BY <1>4, <1>5

-----------------------------------------------------------------------------
(* Two runs that see the same last samples *)

\* How many samples back stage i can see: mem[i] of those that enter the pipeline.
Memories(stages, mem) ==
  /\ mem \in [0..Len(stages) -> Nat]
  /\ mem[0] = 1
  /\ \A i \in 0..(Len(stages) - 1) :
       mem[i + 1] = mem[i] + IF stages[i + 1].type \in P!Windowed
                             THEN stages[i + 1].window - 1 ELSE 0
  /\ mem[Len(stages)] = Memory(stages)

\* The windows of a pipeline.
FitWindows(stages, ws) ==
  /\ ws = [i \in DOMAIN stages |-> ws[i]]
  /\ \A i \in DOMAIN stages :
       stages[i].type \in P!Windowed => IsWindow(ws[i], stages[i].window)

\* Two runs of a pipeline took the same last t samples: the window of stage i is
\* then the same in both, but for what came from samples before these.
AlikeAt(stages, mem, i, t, a, b) ==
  stages[i].type \in P!Windowed =>
    \A k \in 1..stages[i].window : k + mem[i - 1] <= t + 1 => Same(a[i], b[i], k)

Alike(stages, mem, t, a, b) ==
  /\ FitWindows(stages, a) /\ FitWindows(stages, b)
  /\ \A i \in DOMAIN stages : AlikeAt(stages, mem, i, t, a, b)

\* What two runs leave is alike after one more sample; after enough of them it is
\* the same.
AlikeAfter(stages, mem, t, x, y) ==
  /\ Alike(stages, mem, t + 1, x.windows, y.windows)
  /\ mem[Len(stages)] <= t + 1 => x.value = y.value /\ x.status = y.status

\* Of two runs, the first i stages have taken one sample more.
Halfway(stages, mem, t, i, x, y) ==
  /\ FitWindows(stages, x.windows) /\ FitWindows(stages, y.windows)
  /\ mem[i] <= t + 1 => x.value = y.value /\ x.status = y.status
  /\ \A j \in DOMAIN stages :
       AlikeAt(stages, mem, j, IF j <= i THEN t + 1 ELSE t, x.windows, y.windows)

\* The lengths of the windows are numbers.
LEMMA Widths ==
  ASSUME NEW stages, ValidStages(stages), NEW i \in DOMAIN stages,
         stages[i].type \in P!Windowed
  PROVE  stages[i].window \in Nat \ {0}
  BY PipelinesAssumption DEF ValidStages, P!ValidStage

\* One stage takes a sample in both runs.
LEMMA BothStages ==
  ASSUME NEW stages, ValidStages(stages), NEW mem, Memories(stages, mem), NEW t \in Nat,
         NEW i \in 0..(Len(stages) - 1), ~ Fails(stages[i + 1]),
         NEW v, NEW y, NEW a, NEW u, NEW z, NEW b,
         Halfway(stages, mem, t, i, Context(v, y, a), Context(u, z, b))
  PROVE  Halfway(stages, mem, t, i + 1,
                 P!StageProcess(stages, Context(v, y, a), i + 1),
                 P!StageProcess(stages, Context(u, z, b), i + 1))
<1> DEFINE j == i + 1
           s == stages[j]
           p == P!Push(a[j], v, s.window)
           r == P!Push(b[j], u, s.window)
           aa == WindowsAfter(s, v, a, j)
           bb == WindowsAfter(s, u, b, j)
           vv == Leaving(s, v, a[j])
           uu == Leaving(s, u, b[j])
           yy == StatusAfter(s, v, y)
           zz == StatusAfter(s, u, z)
<1>1. DOMAIN stages = 1..Len(stages) /\ Len(stages) \in Nat /\ j \in DOMAIN stages /\ j - 1 = i
  BY DEF ValidStages
<1>2. /\ P!StageProcess(stages, Context(v, y, a), j) = Context(vv, yy, aa)
      /\ P!StageProcess(stages, Context(u, z, b), j) = Context(uu, zz, bb)
  BY <1>1, OneStage DEF StageLeaves
<1>3. /\ FitWindows(stages, a) /\ FitWindows(stages, b)
      /\ mem[i] <= t + 1 => v = u /\ y = z
      /\ \A k \in DOMAIN stages : AlikeAt(stages, mem, k, IF k <= i THEN t + 1 ELSE t, a, b)
  BY DEF Halfway, Context
<1>4. /\ mem[i] \in Nat /\ mem[j] \in Nat
      /\ mem[j] = mem[i] + IF s.type \in P!Windowed THEN s.window - 1 ELSE 0
  BY <1>1 DEF Memories
<1>5. ASSUME s.type \in P!Windowed
      PROVE  /\ FitWindows(stages, aa) /\ FitWindows(stages, bb)
             /\ mem[j] <= t + 1 => vv = uu /\ yy = zz
             /\ AlikeAt(stages, mem, j, t + 1, aa, bb)
             /\ \A k \in DOMAIN stages : k # j => aa[k] = a[k] /\ bb[k] = b[k]
  <2>1. s.window \in Nat \ {0} /\ IsWindow(a[j], s.window) /\ IsWindow(b[j], s.window)
    BY <1>1, <1>3, <1>5, Widths DEF FitWindows
  <2>2. aa = [a EXCEPT ![j] = p] /\ bb = [b EXCEPT ![j] = r]
    BY <1>5 DEF WindowsAfter
  <2>3. IsWindow(p, s.window) /\ IsWindow(r, s.window)
    BY <2>1, Pushed
  <2> HIDE DEF p, r
  <2>4. ASSUME NEW ws, NEW w, FitWindows(stages, ws), IsWindow(w, s.window)
        PROVE  FitWindows(stages, [ws EXCEPT ![j] = w]) /\ [ws EXCEPT ![j] = w][j] = w
    <3>1. ws = [k \in DOMAIN stages |-> ws[k]]
      BY <2>4 DEF FitWindows
    <3> DEFINE xs == [ws EXCEPT ![j] = w]
    <3>2. xs = [k \in DOMAIN stages |-> xs[k]] /\ xs[j] = w
          /\ \A k \in DOMAIN stages : k # j => xs[k] = ws[k]
      BY <1>1, <3>1
    <3> HIDE DEF xs
    <3>3. FitWindows(stages, xs)
      BY <2>4, <3>2 DEF FitWindows
    <3> QED
      BY <3>2, <3>3 DEF xs
  <2>5. FitWindows(stages, aa) /\ FitWindows(stages, bb) /\ aa[j] = p /\ bb[j] = r
    BY <1>3, <2>2, <2>3, <2>4
  <2>6. \A k \in DOMAIN stages : k # j => aa[k] = a[k] /\ bb[k] = b[k]
    BY <1>3, <2>2 DEF FitWindows
  <2>7. ASSUME NEW k \in 1..s.window, k + mem[i] <= t + 2 PROVE Same(p, r, k)
    <3>1. k = 1 => v = u
      BY <1>3, <1>4, <2>7
    <3>2. k > 1 => Same(a[j], b[j], k - 1)
      <4>1. AlikeAt(stages, mem, j, t, a, b)
        BY <1>1, <1>3
      <4>2. ASSUME k > 1 PROVE k - 1 \in 1..s.window /\ k - 1 + mem[j - 1] <= t + 1
        BY <1>1, <1>4, <2>1, <2>7, <4>2
      <4> QED
        BY <1>5, <4>1, <4>2 DEF AlikeAt
    <3> QED
      BY <2>1, <3>1, <3>2, PushedSame DEF p, r
  <2>8. AlikeAt(stages, mem, j, t + 1, aa, bb)
    BY <1>1, <2>5, <2>7 DEF AlikeAt
  <2>9. ASSUME mem[j] <= t + 1 PROVE vv = uu /\ yy = zz
    <3>1. \A k \in 1..s.window : k + mem[i] <= t + 2
      BY <1>4, <1>5, <2>1, <2>9
    <3>2. p = r
      BY <2>1, <2>3, <2>7, <3>1, AllSame
    <3>3. mem[i] <= t + 1
      BY <1>4, <1>5, <2>1, <2>9
    <3>4. vv = P!Statistic(s.type, p) /\ uu = P!Statistic(s.type, r)
      BY <1>5 DEF Leaving, p, r
    <3> QED
      BY <1>3, <3>2, <3>3, <3>4 DEF StatusAfter
  <2> QED
    BY <2>5, <2>6, <2>8, <2>9
<1>6. ASSUME s.type \notin P!Windowed
      PROVE  /\ FitWindows(stages, aa) /\ FitWindows(stages, bb)
             /\ mem[j] <= t + 1 => vv = uu /\ yy = zz
             /\ AlikeAt(stages, mem, j, t + 1, aa, bb)
             /\ aa = a /\ bb = b
  <2>1. aa = a /\ bb = b
    BY <1>6 DEF WindowsAfter
  <2>2. ASSUME mem[j] <= t + 1 PROVE vv = uu /\ yy = zz
    <3>1. v = u /\ y = z
      BY <1>3, <1>4, <1>6, <2>2
    <3> QED
      BY <1>6, <3>1 DEF Leaving, StatusAfter
  <2> QED
    BY <1>3, <1>6, <2>1, <2>2 DEF AlikeAt
<1> HIDE DEF aa, bb, vv, uu, yy, zz, p, r, s
<1>7. ASSUME NEW k \in DOMAIN stages
      PROVE  AlikeAt(stages, mem, k, IF k <= j THEN t + 1 ELSE t, aa, bb)
  <2>1. CASE k = j
    BY <1>1, <1>5, <1>6, <2>1
  <2>2. CASE k # j
    <3>1. k <= i <=> k <= j
      BY <1>1, <2>2
    <3>2. aa[k] = a[k] /\ bb[k] = b[k]
      BY <1>5, <1>6, <2>2
    <3>3. AlikeAt(stages, mem, k, IF k <= j THEN t + 1 ELSE t, a, b)
      BY <1>3, <3>1
    <3> QED
      BY <3>2, <3>3 DEF AlikeAt
  <2> QED
    BY <2>1, <2>2
<1>8. Halfway(stages, mem, t, j, Context(vv, yy, aa), Context(uu, zz, bb))
  BY <1>5, <1>6, <1>7 DEF Halfway, Context
<1> QED
  BY <1>2, <1>8

\* Both runs take a sample.
LEMMA BothSamples ==
  ASSUME NEW stages, ValidStages(stages), stages # <<>>, \A i \in DOMAIN stages : ~ Fails(stages[i]),
         NEW mem, Memories(stages, mem), NEW t \in Nat,
         NEW a, NEW b, Alike(stages, mem, t, a, b), NEW v
  PROVE  AlikeAfter(stages, mem, t, P!PipelineProcess(stages, a, v),
                    P!PipelineProcess(stages, b, v))
<1> DEFINE n == Len(stages)
<1>1. DOMAIN stages = 1..n /\ n \in Nat /\ stages \in Seq(ToSet(stages)) /\ stages # <<>>
  BY DEF ValidStages
<1>2. PICK c : ThroughStages(c, stages, a, v)
  BY <1>1, StagesInTurn
<1>3. PICK d : ThroughStages(d, stages, b, v)
  BY <1>1, StagesInTurn
<1>4. \A k \in 0..n : /\ c[k] = Context(c[k].value, c[k].status, c[k].windows)
                      /\ d[k] = Context(d[k].value, d[k].status, d[k].windows)
  BY <1>2, <1>3, NoneFails
<1> DEFINE Reach == {k \in 0..n : Halfway(stages, mem, t, k, c[k], d[k])}
<1>5. 0 \in Reach
  <2>1. /\ c[0].value = v /\ c[0].status = "normal" /\ c[0].windows = a
        /\ d[0].value = v /\ d[0].status = "normal" /\ d[0].windows = b
    BY <1>2, <1>3 DEF ThroughStages
  <2>2. \A j \in DOMAIN stages : ~ (j <= 0)
    BY <1>1
  <2>3. Halfway(stages, mem, t, 0, c[0], d[0])
    BY <2>1, <2>2 DEF Halfway, Alike
  <2> QED
    BY <1>1, <2>3
<1>6. ASSUME NEW k \in 0..(n - 1), k \in Reach PROVE k + 1 \in Reach
  <2>1. k \in 0..n /\ k + 1 \in 0..n /\ k + 1 \in DOMAIN stages
    BY <1>1
  <2> DEFINE x == Context(c[k].value, c[k].status, c[k].windows)
             y == Context(d[k].value, d[k].status, d[k].windows)
  <2>2. x = c[k] /\ y = d[k]
    BY <1>4, <2>1
  <2>3. Halfway(stages, mem, t, k, x, y)
    BY <1>6, <2>2
  <2>4. Halfway(stages, mem, t, k + 1, P!StageProcess(stages, x, k + 1),
                P!StageProcess(stages, y, k + 1))
    BY <2>1, <2>3, BothStages
  <2> HIDE DEF x, y
  <2>5. /\ c[k + 1] = P!StageProcess(stages, c[k], k + 1)
        /\ d[k + 1] = P!StageProcess(stages, d[k], k + 1)
    BY <1>2, <1>3 DEF ThroughStages
  <2> QED
    BY <2>1, <2>2, <2>4, <2>5
<1>7. 0..n \subseteq Reach
  <2> HIDE DEF Reach, n
  <2> QED
    BY <1>1, <1>5, <1>6, IntervalInduction
<1>8. Halfway(stages, mem, t, n, c[n], d[n])
  BY <1>1, <1>7
<1>9. \A j \in DOMAIN stages : j <= n
  BY <1>1
<1>10. AlikeAfter(stages, mem, t, c[n], d[n])
  BY <1>8, <1>9 DEF Halfway, AlikeAfter, Alike
<1> QED
  BY <1>2, <1>3, <1>10 DEF ThroughStages

\* Memory adds up what each stage remembers.
LEMMA MemoryAdds ==
  ASSUME NEW stages, ValidStages(stages)
  PROVE  \E mem : Memories(stages, mem)
<1> DEFINE n == Len(stages)
           Gain(s) == IF s.type \in P!Windowed THEN s.window - 1 ELSE 0
           Folds(f) == f = [T \in SUBSET DOMAIN stages |->
                              IF T = {} THEN 1
                              ELSE f[T \ {Max(T)}] + Gain(stages[Max(T)])]
           iter == CHOOSE f : Folds(f)
           step == [x \in Nat \X (1..n) |-> x[1] + Gain(stages[x[2]])]
<1>1. DOMAIN stages = 1..n /\ n \in Nat
  BY DEF ValidStages
<1>2. Memory(stages) = iter[DOMAIN stages]
  BY Zenon DEF Memory, FoldLeft, MapThenFoldSet
<1>3. \A i \in 1..n : Gain(stages[i]) \in Nat
  BY <1>1, Widths
<1> HIDE DEF Gain
<1>4. step \in [Nat \X (1..n) -> Nat]
  BY <1>3
<1>5. PICK g \in [SUBSET (1..n) -> Nat] : Solves(g, n, 1, step)
  <2> HIDE DEF step, n
  <2> QED
    BY <1>1, <1>4, FoldSolution
<1>6. Folds(g)
  <2>1. ASSUME NEW T \in SUBSET (1..n), T # {}
        PROVE  step[<<g[T \ {Max(T)}], Max(T)>>] = g[T \ {Max(T)}] + Gain(stages[Max(T)])
    <3>1. T \subseteq 0..n
      BY <1>1
    <3>2. Max(T) \in 1..n
      BY <1>1, <2>1, <3>1, MaxOfNumbers
    <3>3. g[T \ {Max(T)}] \in Nat
      OBVIOUS
    <3> QED
      BY <3>2, <3>3
  <2> HIDE DEF step
  <2> QED
    BY <1>1, <1>5, <2>1 DEF Solves
<1>7. Folds(iter)
  <2> HIDE DEF Folds
  <2> QED
    BY <1>6
<1> HIDE DEF iter
<1> DEFINE mem == [k \in 0..n |-> iter[1..k]]
<1>8. iter[1..0] = 1
  <2>1. 1..0 \in SUBSET (1..n) /\ 1..0 = {}
    BY <1>1
  <2> QED
    BY <1>1, <1>7, <2>1
<1>9. ASSUME NEW k \in 0..(n - 1) PROVE iter[1..(k + 1)] = iter[1..k] + Gain(stages[k + 1])
  <2>1. /\ 1..(k + 1) \in SUBSET (1..n) /\ 1..(k + 1) # {}
        /\ (1..(k + 1)) \ {k + 1} = 1..k
        /\ Max(1..(k + 1)) = k + 1
    <3> HIDE DEF n
    <3> QED
      BY <1>1, FirstPositions
  <2> QED
    BY <1>1, <1>7, <2>1
<1>10. \A k \in 0..n : mem[k] = iter[1..k]
  OBVIOUS
<1>11. DOMAIN mem = 0..n /\ mem = [k \in 0..n |-> mem[k]]
  OBVIOUS
<1> HIDE DEF mem
<1>12. mem[0] = 1 /\ mem[n] = Memory(stages)
  BY <1>1, <1>2, <1>8, <1>10
<1>13. ASSUME NEW k \in 0..(n - 1) PROVE mem[k + 1] = mem[k] + Gain(stages[k + 1])
  <2>1. k \in 0..n /\ k + 1 \in 0..n
    BY <1>1
  <2> HIDE DEF n
  <2> QED
    BY <1>9, <1>10, <2>1
<1>14. \A k \in 0..n : mem[k] \in Nat
  <2> DEFINE Reach == {k \in 0..n : mem[k] \in Nat}
  <2>1. 0 \in Reach
    BY <1>1, <1>12
  <2>2. ASSUME NEW k \in 0..(n - 1), k \in Reach PROVE k + 1 \in Reach
    <3>1. k + 1 \in 1..n
      BY <1>1
    <3> QED
      BY <1>3, <1>13, <2>2, <3>1
  <2>3. 0..n \subseteq Reach
    <3> HIDE DEF Reach, n
    <3> QED
      BY <1>1, <2>1, <2>2, IntervalInduction
  <2> QED
    BY <2>3
<1>15. Memories(stages, mem)
  BY <1>11, <1>12, <1>13, <1>14 DEF Memories, Gain
<1> QED
  BY <1>15

\* Every stage sees a sample when it comes.
LEMMA MemoryPositive ==
  ASSUME NEW stages, ValidStages(stages), NEW mem, Memories(stages, mem)
  PROVE  \A i \in 0..Len(stages) : mem[i] >= 1
<1> DEFINE n == Len(stages)
           Reach == {i \in 0..n : mem[i] >= 1}
<1>1. DOMAIN stages = 1..n /\ n \in Nat
  BY DEF ValidStages
<1>2. 0 \in Reach
  BY <1>1 DEF Memories
<1>3. ASSUME NEW i \in 0..(n - 1), i \in Reach PROVE i + 1 \in Reach
  <2>1. i + 1 \in 1..n /\ i + 1 \in 0..n /\ mem[i] \in Nat
    BY <1>1 DEF Memories
  <2>2. stages[i + 1].type \in P!Windowed => stages[i + 1].window \in Nat \ {0}
    BY <1>1, <2>1, Widths
  <2>3. mem[i + 1] = mem[i] + IF stages[i + 1].type \in P!Windowed
                              THEN stages[i + 1].window - 1 ELSE 0
    BY DEF Memories
  <2> QED
    BY <1>3, <2>1, <2>2, <2>3
<1>4. 0..n \subseteq Reach
  <2> HIDE DEF Reach, n
  <2> QED
    BY <1>1, <1>2, <1>3, IntervalInduction
<1> QED
  BY <1>4

\* Runs of one pipeline are alike before they take a sample in common.
LEMMA AlikeAtFirst ==
  ASSUME NEW stages, ValidStages(stages), NEW mem, Memories(stages, mem),
         NEW a, NEW b, FitWindows(stages, a), FitWindows(stages, b)
  PROVE  Alike(stages, mem, 0, a, b)
<1>1. DOMAIN stages = 1..Len(stages) /\ Len(stages) \in Nat
  BY DEF ValidStages
<1>2. ASSUME NEW i \in DOMAIN stages, stages[i].type \in P!Windowed,
             NEW k \in 1..stages[i].window
      PROVE  ~ (k + mem[i - 1] <= 0 + 1)
  <2>1. i - 1 \in 0..Len(stages)
    BY <1>1
  <2>2. mem[i - 1] >= 1 /\ mem[i - 1] \in Nat
    BY <2>1, MemoryPositive DEF Memories
  <2>3. k \in Nat /\ k >= 1
    BY <1>2, Widths
  <2> QED
    BY <2>2, <2>3
<1> QED
  BY <1>2 DEF Alike, AlikeAt

\* A pipeline has windows of its stages, at first and after each sample.
LEMMA WindowsFit ==
  ASSUME NEW stages, ValidStages(stages), stages # <<>>,
         \A i \in DOMAIN stages : ~ Fails(stages[i]),
         NEW mem, Memories(stages, mem),
         NEW q, Len(q) \in Nat, NEW c, ThroughSamples(c, stages, q)
  PROVE  \A k \in 0..Len(q) : FitWindows(stages, c[k].windows)
<1> DEFINE n == Len(q)
           Reach == {k \in 0..n : FitWindows(stages, c[k].windows)}
<1>1. n \in Nat
  OBVIOUS
<1>2. 0 \in Reach
  <2>1. c[0].windows = [i \in DOMAIN stages |-> <<>>]
    BY DEF ThroughSamples, P!NewWindows
  <2>2. ASSUME NEW i \in DOMAIN stages, stages[i].type \in P!Windowed
        PROVE  IsWindow(<<>>, stages[i].window)
    <3>1. <<>> \in Seq({}) /\ Len(<<>>) = 0
      OBVIOUS
    <3>2. stages[i].window \in Nat
      BY <2>2, Widths
    <3> QED
      BY <3>1, <3>2 DEF IsWindow
  <2>3. FitWindows(stages, c[0].windows)
    BY <2>1, <2>2 DEF FitWindows
  <2> QED
    BY <1>1, <2>3
<1>3. ASSUME NEW k \in 0..(n - 1), k \in Reach PROVE k + 1 \in Reach
  <2> DEFINE w == c[k].windows
             x == P!PipelineProcess(stages, w, q[k + 1])
  <2>1. Alike(stages, mem, 0, w, w)
    BY <1>3, AlikeAtFirst
  <2> HIDE DEF w
  <2>2. AlikeAfter(stages, mem, 0, x, x)
    BY <2>1, BothSamples
  <2>3. FitWindows(stages, x.windows)
    BY <2>2 DEF AlikeAfter, Alike
  <2>4. c[k + 1] = x
    BY DEF ThroughSamples, w
  <2> QED
    BY <1>1, <2>3, <2>4
<1>4. 0..n \subseteq Reach
  <2> HIDE DEF Reach, n
  <2> QED
    BY <1>1, <1>2, <1>3, IntervalInduction
<1> QED
  BY <1>4

\* p is what q leaves once its first o samples are dropped.
Dropping(q, o, p) ==
  /\ Len(q) \in Nat /\ Len(p) \in Nat
  /\ o \in Nat /\ Len(q) = o + Len(p)
  /\ \A t \in 1..Len(p) : p[t] = q[o + t]

\* One value and one status.
SameResult(x, y) == x.value = y.value /\ x.status = y.status

\* The last samples alone lead to the same outcome.
LEMMA LastSamplesCount ==
  ASSUME NEW stages, ValidStages(stages), stages # <<>>,
         \A i \in DOMAIN stages : ~ Fails(stages[i]),
         NEW mem, Memories(stages, mem),
         NEW q, NEW p, NEW o, Dropping(q, o, p), Len(p) = Memory(stages),
         NEW c, ThroughSamples(c, stages, q), NEW d, ThroughSamples(d, stages, p)
  PROVE  SameResult(c[Len(q)], d[Len(p)])
<1> USE DEF Dropping, SameResult
<1> DEFINE n == Len(p)
           Reach == {t \in 0..n : Alike(stages, mem, t, c[o + t].windows, d[t].windows)}
<1>1. n \in Nat /\ Len(q) \in Nat
  OBVIOUS
<1>2. n >= 1 /\ mem[Len(stages)] = n
  <2>1. Len(stages) \in 0..Len(stages)
    BY DEF ValidStages
  <2>2. mem[Len(stages)] >= 1
    BY <2>1, MemoryPositive
  <2>3. mem[Len(stages)] = Memory(stages)
    BY DEF Memories
  <2>4. n = Memory(stages)
    OBVIOUS
  <2> HIDE DEF n
  <2> QED
    BY <2>2, <2>3, <2>4
<1>3. 0 \in Reach
  <2>1. o + 0 \in 0..Len(q) /\ 0 \in 0..n
    BY <1>1
  <2>2. FitWindows(stages, c[o + 0].windows) /\ FitWindows(stages, d[0].windows)
    BY <2>1, WindowsFit
  <2>3. Alike(stages, mem, 0, c[o + 0].windows, d[0].windows)
    BY <2>2, AlikeAtFirst
  <2> QED
    BY <2>1, <2>3
<1>4. ASSUME NEW t \in 0..(n - 1), t \in Reach
      PROVE  AlikeAfter(stages, mem, t, c[o + (t + 1)], d[t + 1])
  <2>1. o + t \in 0..(Len(q) - 1) /\ o + t + 1 = o + (t + 1) /\ t + 1 \in 1..n /\ t \in Nat
    BY <1>1
  <2> DEFINE a == c[o + t].windows
             b == d[t].windows
  <2>2. Alike(stages, mem, t, a, b)
    BY <1>4
  <2>3. q[o + (t + 1)] = p[t + 1]
    BY <2>1
  <2>4. d[t + 1] = P!PipelineProcess(stages, b, p[t + 1])
    BY DEF ThroughSamples
  <2>5. c[o + (t + 1)] = P!PipelineProcess(stages, a, p[t + 1])
    <3>1. c[o + t + 1] = P!PipelineProcess(stages, a, q[o + t + 1])
      BY <2>1 DEF ThroughSamples
    <3> QED
      BY <2>1, <2>3, <3>1
  <2> HIDE DEF a, b
  <2> QED
    BY <2>1, <2>2, <2>4, <2>5, BothSamples
<1>5. ASSUME NEW t \in 0..(n - 1), t \in Reach PROVE t + 1 \in Reach
  <2>1. t + 1 \in 0..n
    BY <1>1
  <2> QED
    BY <1>4, <1>5, <2>1 DEF AlikeAfter
<1>6. 0..n \subseteq Reach
  <2> HIDE DEF Reach, n
  <2> QED
    BY <1>1, <1>3, <1>5, IntervalInduction
<1>7. n - 1 \in 0..(n - 1) /\ n - 1 \in Reach /\ n - 1 + 1 = n
  <2>1. n - 1 \in 0..(n - 1) /\ n - 1 \in 0..n /\ n - 1 + 1 = n
    BY <1>1, <1>2
  <2> QED
    BY <1>6, <2>1
<1>8. AlikeAfter(stages, mem, n - 1, c[o + n], d[n])
  BY <1>4, <1>7
<1> QED
  BY <1>1, <1>2, <1>7, <1>8 DEF AlikeAfter

\* The outcome of any samples is that of the last ones that the stages remember.
LEMMA PipelineRecovers ==
  ASSUME NEW stages, ValidStages(stages), NEW S, NEW q \in Seq(S)
  PROVE  Outcome(stages, q) = Outcome(stages, LastOf(q, Memory(stages)))
<1> DEFINE n == Memory(stages)
           p == LastOf(q, n)
           o == Len(q) - n
<1>1. PICK mem : Memories(stages, mem)
  BY MemoryAdds
<1>2. n \in Nat /\ n >= 1
  <2>1. Len(stages) \in 0..Len(stages)
    BY DEF ValidStages
  <2> QED
    BY <1>1, <2>1, MemoryPositive DEF Memories
<1> HIDE DEF n
<1>3. SUFFICES ASSUME Len(q) > n PROVE Outcome(stages, q) = Outcome(stages, p)
  BY <1>2 DEF LastOf, n
<1>4. /\ o \in Nat /\ p \in Seq(S) /\ Len(p) = n /\ Len(q) = o + Len(p)
      /\ \A t \in 1..Len(p) : p[t] = q[o + t]
      /\ p # <<>> /\ q # <<>>
  <2>1. p = SubSeq(q, o + 1, Len(q))
    BY <1>2, <1>3 DEF LastOf
  <2>2. o \in Nat /\ Len(q) \in Nat /\ Len(q) - (o + 1) + 1 = n
    BY <1>2, <1>3
  <2>3. p \in Seq(S) /\ Len(p) = n /\ \A t \in 1..n : p[t] = q[o + t]
    <3> HIDE DEF o
    <3> QED
      BY <1>2, <2>1, <2>2
  <2> QED
    BY <1>2, <1>3, <2>2, <2>3
<1> HIDE DEF p, o
<1>5. PICK c : ThroughSamples(c, stages, q)
  BY <1>4, SamplesInTurn
<1>6. PICK d : ThroughSamples(d, stages, p)
  BY <1>4, SamplesInTurn
<1>7. P!AfterSamples(stages, q) = c[Len(q)] /\ P!AfterSamples(stages, p) = d[Len(p)]
  BY <1>5, <1>6 DEF ThroughSamples
<1>8. /\ \E w, v : c[Len(q)] = P!PipelineProcess(stages, w, v)
      /\ \E w, v : d[Len(p)] = P!PipelineProcess(stages, w, v)
  <2>1. Len(q) - 1 \in 0..(Len(q) - 1) /\ Len(q) - 1 + 1 = Len(q)
    BY <1>4
  <2>2. Len(p) - 1 \in 0..(Len(p) - 1) /\ Len(p) - 1 + 1 = Len(p)
    BY <1>4
  <2>3. c[Len(q)] = P!PipelineProcess(stages, c[Len(q) - 1].windows, q[Len(q)])
    BY <1>5, <2>1 DEF ThroughSamples
  <2>4. d[Len(p)] = P!PipelineProcess(stages, d[Len(p) - 1].windows, p[Len(p)])
    BY <1>6, <2>2 DEF ThroughSamples
  <2> QED
    BY <2>3, <2>4
<1>9. CASE stages = <<>>
  <2>1. c[Len(q)].ok = FALSE /\ d[Len(p)].ok = FALSE
    BY <1>8, <1>9 DEF P!PipelineProcess
  <2> QED
    BY <1>7, <2>1 DEF Outcome
<1>10. CASE stages # <<>> /\ \E i \in DOMAIN stages : Fails(stages[i])
  <2>1. c[Len(q)].ok = FALSE /\ d[Len(p)].ok = FALSE
    BY <1>8, <1>10, PipelineFails
  <2> QED
    BY <1>7, <2>1 DEF Outcome
<1>11. CASE stages # <<>> /\ \A i \in DOMAIN stages : ~ Fails(stages[i])
  <2>1. c[Len(q)].ok = TRUE /\ d[Len(p)].ok = TRUE
    BY <1>8, <1>11, PipelineFails
  <2>2. c[Len(q)].value = d[Len(p)].value /\ c[Len(q)].status = d[Len(p)].status
    <3>1. Len(p) = Memory(stages)
      BY <1>4 DEF n
    <3>2. Dropping(q, o, p)
      BY <1>2, <1>4 DEF Dropping
    <3>3. SameResult(c[Len(q)], d[Len(p)])
      BY <1>1, <1>5, <1>6, <1>11, <3>1, <3>2, LastSamplesCount
    <3> QED
      BY <3>3 DEF SameResult
  <2> QED
    BY <1>7, <2>1, <2>2 DEF Outcome
<1> QED
  BY <1>9, <1>10, <1>11

\* A pipeline recovers from any sample: once its windows have been filled again,
\* its metric is that of a new pipeline (Pipeline::process).
THEOREM PipelinesForget == Spec => []PipelineForgets
<1>1. InputInv => PipelineForgets
  <2> SUFFICES ASSUME InputInv, input.kind = "pipeline"
               PROVE  Outcome(input.stages, input.samples)
                        = Outcome(input.stages, LastOf(input.samples, Memory(input.stages)))
    BY DEF PipelineForgets
  <2>1. ValidStages(input.stages)
    BY PipelinesAssumption DEF InputInv, ValidStages
  <2>2. input.samples \in Seq(ToSet(input.samples))
    BY PipelinesAssumption DEF InputInv
  <2> QED
    BY <2>1, <2>2, PipelineRecovers
<1> QED
  BY <1>1, InputsPicked, PTL

=============================================================================
