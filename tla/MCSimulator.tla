---------------------------- MODULE MCSimulator ----------------------------
(***************************************************************************)
(* Small simulators: two controls and three sensors, with formulas of many *)
(* shapes in one layout, and one set of formulas in many layouts.          *)
(***************************************************************************)
EXTENDS Simulator

\* Words of two bits: the sixteen patterns of a float are seven values of each
\* sign, further and further apart, zero, and NaN in the place of negative zero.
Magnitudes == <<0, 1, 2, 3, 4, 6, 8, 13>>
SmallFloats == ToSet(Magnitudes) \cup {-m : m \in ToSet(Magnitudes)}
               \cup {NaN}
SmallFloatBits ==
  [v \in SmallFloats |->
     IF v = NaN THEN 8
     ELSE (IF v < 0 THEN 8 ELSE 0)
          + (CHOOSE i \in DOMAIN Magnitudes : Magnitudes[i] = Abs(v)) - 1]

Controls(a1, a2) ==
  <<[name |-> "a", initial |-> 0, writable |-> TRUE, address |-> a1],
    [name |-> "b", initial |-> 2, writable |-> FALSE, address |-> a2]>>

NewSensor(name, short, refs, area, storage, address) ==
  [name |-> name, short |-> short, refs |-> refs, inputs |-> <<>>, constant |-> 1,
   area |-> area, storage |-> storage, encode |-> 2, address |-> address]

Side(in, out) == [input |-> in, output |-> out, auxiliary |-> <<>>]

\* References: a control, the time and a later sensor, a sensor and a name
\* that only y maps to one, a sensor twice with a read-only control.
RefLists == {<<"a">>, <<"t", "z">>, <<"y", "q">>, <<"x", "b", "x">>}

Shape(x, y, z) ==
  [controls |-> Controls(NoAddress, NoAddress),
   pri |-> Side(<<NewSensor("p.x", "x", x, "input", "f32", NoAddress)>>, <<>>),
   sec |-> Side(<<>>, <<[NewSensor("s.y", "y", y, "holding", "u16", NoAddress)
                           EXCEPT !.inputs = [q |-> "p.x"]]>>),
   sensors |-> <<NewSensor("z", "z", z, "coils", "u16", NoAddress)>>]

Layout(a1, a2, area, xa, storage, ya) ==
  [controls |-> Controls(a1, a2),
   pri |-> Side(<<NewSensor("p.x", "x", <<"a">>, area, "f32", xa)>>,
                <<NewSensor("p.y", "y", <<"t">>, area, storage, ya)>>),
   sec |-> Side(<<>>, <<>>),
   sensors |-> <<NewSensor("z", "z", <<"x">>, "coils", "f32", xa)>>]

Shapes == {Shape(x, y, z) : x, y, z \in RefLists}

Layouts ==
  {Layout(a[1], a[2], area, xa, storage, ya) :
     a \in {<<NoAddress, NoAddress>>, <<2, 3>>, <<4, NoAddress>>},
     area \in {"holding", "input"}, storage \in {"f32", "u16"},
     xa \in {NoAddress, 0, 1}, ya \in {NoAddress, 1, 2}}

WebValues == {-3, 5}

AllConfigs == Shapes \cup Layouts
=============================================================================
