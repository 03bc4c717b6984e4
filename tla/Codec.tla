------------------------------- MODULE Codec -------------------------------
(***************************************************************************)
(* Values and 16-bit words: the decoder of the acquisition layer, and the  *)
(* encoder and the reads of the Modbus server, which undo it.              *)
(*                                                                         *)
(* A value is counted in halves, so that rounding half away from zero is   *)
(* exact: 3 stands for 1.5.  Casts to integers saturate, and take NaN to   *)
(* 0.  The values a 32-bit float can have are some of the values a metric  *)
(* can have; each stands for the pattern that FloatBits gives it, and one  *)
(* beyond the finite ones for infinity.  Patterns that are NaN are one,    *)
(* and there is no negative zero.                                          *)
(*                                                                         *)
(* LowFirst, Wrapped and Misplaced are faulty variants of the              *)
(* definitions below them; nothing uses one.                               *)
(***************************************************************************)
EXTENDS Integers, Sequences

CONSTANTS Base,       \* number of values of a word (2^16 in the code)
          Floats,     \* the values a 32-bit float can have, NaN among them
          FloatBits,  \* their bit patterns
          NaN

ASSUME BaseAssumption == Base \in Nat \ {0} /\ Base % 2 = 0

ASSUME FloatAssumption ==
  /\ NaN \in Floats /\ NaN \notin Int
  /\ Floats \ {NaN} \subseteq Int
  /\ FloatBits \in [Floats -> 0..(Base * Base - 1)]
  /\ \A n \in 0..(Base * Base - 1) : \E v \in Floats : FloatBits[v] = n
  /\ \A v, w \in Floats : FloatBits[v] = FloatBits[w] => v = w

WordSet == 0..(Base - 1)
Doubles == 0..(Base * Base - 1)
Types == {"u16", "i16", "u32", "i32", "f32", "bool"}
Orders == {"big", "little"}

\* register_count
Width(type) == IF type \in {"u32", "i32", "f32"} THEN 2 ELSE 1

-----------------------------------------------------------------------------
(* Words of 32-bit values *)

\* A splitter that always stores the low word first.
LowFirst(n, order) == <<n % Base, n \div Base>>

Split(n, order) == IF order = "big" THEN <<n \div Base, n % Base>>
                   ELSE <<n % Base, n \div Base>>

Combine(words, order) == IF order = "big" THEN words[1] * Base + words[2]
                         ELSE words[2] * Base + words[1]

-----------------------------------------------------------------------------
(* Decoding *)

\* A word or double word read as a signed number.
AsSigned(n, modulus) == IF 2 * n >= modulus THEN n - modulus ELSE n

\* decode_words
Decode(words, type, order) ==
  CASE type = "u16"  -> 2 * words[1]
    [] type = "i16"  -> 2 * AsSigned(words[1], Base)
    [] type = "u32"  -> 2 * Combine(words, order)
    [] type = "i32"  -> 2 * AsSigned(Combine(words, order), Base * Base)
    [] type = "f32"  -> CHOOSE v \in Floats : FloatBits[v] = Combine(words, order)
    [] type = "bool" -> IF words[1] # 0 THEN 2 ELSE 0

BadReply == [ok |-> FALSE]

\* raw_sample: the device may answer with any number of words.
RawSample(words, type, order) ==
  IF Len(words) < Width(type) THEN BadReply
  ELSE [ok |-> TRUE, value |-> Decode(words, type, order)]

\* raw_sample_bool
RawSampleBool(bit, type) ==
  IF type # "bool" THEN BadReply
  ELSE [ok |-> TRUE, value |-> IF bit THEN 2 ELSE 0]

-----------------------------------------------------------------------------
(* Encoding *)

\* f64::round: to the nearest integer, half away from zero.
Round(v) == IF v >= 0 THEN (v + 1) \div 2 ELSE - ((1 - v) \div 2)

Clamp(n, low, high) == IF n < low THEN low ELSE IF n > high THEN high ELSE n

\* A cast that keeps the low bits of the number.
Wrapped(v, low, high) ==
  IF v = NaN THEN 0 ELSE low + ((Round(v) - low) % (high - low + 1))

\* A float cast to an integer type.
Cast(v, low, high) == IF v = NaN THEN 0 ELSE Clamp(Round(v), low, high)

Abs(n) == IF n < 0 THEN -n ELSE n

\* The floats that are nearest to a value.
Near(v) == {f \in Floats \ {NaN} :
              \A g \in Floats \ {NaN} : Abs(f - v) <= Abs(g - v)}

IsEven(f) == FloatBits[f] % 2 = 0

\* A 64-bit float cast to a 32-bit one: of two that are equally near, the one
\* with the even pattern.
Narrow(v) == IF v = NaN THEN NaN
             ELSE CHOOSE f \in Near(v) : \A g \in Near(v) : IsEven(g) => IsEven(f)

\* encode_value
Encode(v, type, order) ==
  LET half == Base \div 2
      square == Base * Base
  IN  CASE type = "u16"  -> <<Cast(v, 0, Base - 1)>>
        [] type = "i16"  -> <<Cast(v, -half, half - 1) % Base>>
        [] type = "u32"  -> Split(Cast(v, 0, square - 1), order)
        [] type = "i32"  -> Split(Cast(v, -(half * Base), half * Base - 1) % square,
                                  order)
        [] type = "f32"  -> Split(FloatBits[Narrow(v)], order)
        [] type = "bool" -> <<IF v # 0 THEN 1 ELSE 0>>

-----------------------------------------------------------------------------
(* Reads of the Modbus server.  A slot has the sensor, type and word order  *)
(* of its register and the index of its word; values has the sensors with a *)
(* metric or raw sample.                                                    *)

\* A sensor without a value reads as this number, in the type of its slot.
MissingValue == 2 * (Base - 1)

ValueOrMissing(values, sensor) ==
  IF sensor \in DOMAIN values THEN values[sensor] ELSE MissingValue

\* Every slot reads the first word.
Misplaced(values, slot) ==
  Encode(ValueOrMissing(values, slot.sensor), slot.type, slot.order)[1]

WordAt(values, slot) ==
  Encode(ValueOrMissing(values, slot.sensor), slot.type, slot.order)[slot.word + 1]

\* read_words: all of the addresses must be in the area.
ReadWords(values, area, addr, count) ==
  IF addr + count > Len(area) THEN [code |-> "IllegalDataAddress"]
  ELSE [code |-> "",
        words |-> [i \in 1..count |-> WordAt(values, area[addr + i])]]

\* read_bits: addresses beyond the area, and sensors without a value, are off.
ReadBits(values, area, addr, count) ==
  [i \in 1..count |->
     /\ addr + i \in DOMAIN area
     /\ area[addr + i].sensor \in DOMAIN values
     /\ values[area[addr + i].sensor] # 0]
=============================================================================
