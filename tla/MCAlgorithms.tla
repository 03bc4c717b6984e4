---------------------------- MODULE MCAlgorithms ----------------------------
(***************************************************************************)
(* Inputs of every shape up to a small size for the module Algorithms.     *)
(***************************************************************************)
EXTENDS Algorithms

CONSTANTS c1, c2, c3, s1, s2

\* Lists of up to three computed sensors over one register, with one or two
\* inputs each, in every order.
InputLists == UNION {{q \in [1..n -> {c1, c2, c3, s1}] : IsInjective(q)} :
                       n \in 1..2}

SmallLists ==
  UNION {{[j \in 1..n |-> [sensor |-> <<c1, c2, c3>>[j], inputs |-> q[j]]] :
            q \in [1..n -> InputLists]} : n \in 1..3}

\* Words of two bits: the sixteen patterns of a float are seven values of each
\* sign, further and further apart, zero, and NaN in the place of negative zero.
Magnitudes == <<0, 1, 2, 3, 4, 6, 8, 13>>
SmallFloats == ToSet(Magnitudes) \cup {-m : m \in ToSet(Magnitudes)}
               \cup {NaN}
SmallFloatBits ==
  [v \in SmallFloats |->
     IF v = NaN THEN 8
     ELSE (IF v < 0 THEN 8 ELSE 0)
          + (CHOOSE i \in DOMAIN Magnitudes : Magnitudes[i] = Abs(v)) - 1]

\* Numbers beyond the range of every integer type, in halves.
SmallNumbers == (-36..36) \cup {NaN}

ShortReplies == UNION {[1..n -> WordSet] : n \in 0..3}

\* Areas with two registers of one or two words.
SlotsOf(s, t, order) ==
  [k \in 1..Width(t) |-> [sensor |-> s, type |-> t, order |-> order, word |-> k - 1]]

SmallAreas == {SlotsOf(s1, t1, o) \o SlotsOf(s2, t2, o) :
                 t1, t2 \in Types \ {"bool"}, o \in Orders}

SmallStores == UNION {[known -> {-3, 2, NaN}] : known \in SUBSET {s1, s2}}

TwoCoils == <<s1, s2>>
AddressSet == 0..4
CountSet == 1..4

\* 144 stands for one unit: means of two or three such numbers are exact, and
\* those of the means as well.
Bounds(lw, hw, lc, hc) ==
  [type |-> "threshold", low_warning |-> lw, high_warning |-> hw,
   low_critical |-> lc, high_critical |-> hc]

StageConfigs ==
  [type : P!Windowed, window : {2, 3}]
  \cup {[type |-> "scale", scale |-> -2, offset |-> 144],
        [type |-> "math", known |-> TRUE, low |-> 0],
        [type |-> "math", known |-> FALSE],
        Bounds(72, 144, -72, 288), Bounds(-144, NoBound, 0, NoBound)}

ShortPipelines == {<<>>} \cup {<<a>> : a \in StageConfigs}
                  \cup {<<a, b>> : a, b \in StageConfigs}

ShortSamples == UNION {[1..n -> {-144, 0, 288, NaN}] : n \in 1..4}

AllSensors == {c1, c2, c3, s1, s2}
=============================================================================
