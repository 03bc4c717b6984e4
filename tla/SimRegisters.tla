---------------------------- MODULE SimRegisters ----------------------------
(***************************************************************************)
(* The register map of the simulator: which control or sensor stands at    *)
(* which address, and what a read of an address gives.  A map is a partial *)
(* function from addresses to slots for each area.                         *)
(*                                                                         *)
(* NextStays and FirstIsHigh are faulty variants of the definitions below  *)
(* them; nothing uses one.                                                 *)
(***************************************************************************)
EXTENDS SimModel

SimAreas == {"holding", "input", "coils"}

\* A coil takes one address in any storage.
Taken(item) == IF item.area = "coils" THEN 1 ELSE item.width

\* An explicit address does not change where the next item goes.
NextStays(acc, item) ==
  LET addr == IF item.address = NoAddress THEN acc.next ELSE item.address
  IN  [next |-> IF item.address = NoAddress THEN addr + 1 ELSE acc.next,
       slots |-> Put(acc.slots, addr..(addr + Taken(item) - 1), item.slot)]

\* An item without an address follows the item before it; what stood at its
\* addresses is overwritten.
PlaceItem(acc, item) ==
  LET addr == IF item.address = NoAddress THEN acc.next ELSE item.address
  IN  [next |-> addr + Taken(item),
       slots |-> Put(acc.slots, addr..(addr + Taken(item) - 1), item.slot)]

\* The loop over the items of one area skips the others.
PlaceIn(area, acc, item) == IF item.area = area THEN PlaceItem(acc, item) ELSE acc

BuildArea(sim, area) ==
  FoldLeft(LAMBDA acc, item : PlaceIn(area, acc, item),
           [next |-> 0, slots |-> <<>>], Items(sim)).slots

\* RegisterMap::build
Build(sim) == [area \in SimAreas |-> BuildArea(sim, area)]

-----------------------------------------------------------------------------
(* Reads *)

ValueFrom(values, name, otherwise) ==
  IF name \in DOMAIN values THEN values[name] ELSE otherwise

\* encode_raw: the encoding is a factor, 1 if none is given.
EncodeRaw(v, encode) == IF v = NaN THEN NaN ELSE v * encode

\* The first word read is the high one.
FirstIsHigh(bits, addr) == IF addr = 0 THEN bits \div Base ELSE bits % Base

\* Which half stands at an address depends on the address alone.
WordOf(bits, addr) == IF addr % 2 = 0 THEN bits \div Base ELSE bits % Base

ReadSensor(w, slot, addr) ==
  LET v == ValueFrom(EvalAll(w), slot.name, NaN)
  IN  IF slot.storage = "f32" THEN WordOf(FloatBits[Narrow(v)], addr)
      ELSE Cast(EncodeRaw(v, slot.encode), 0, Base - 1)

\* read_holding, read_input: nothing reads as 0.
ReadWord(w, slots, addr) ==
  IF addr \notin DOMAIN slots THEN 0
  ELSE IF slots[addr].kind = "control"
       THEN Cast(w.controls[slots[addr].name], 0, Base - 1)
  ELSE ReadSensor(w, slots[addr], addr)

\* read_coil: more than a half is on.
ReadCoil(w, slots, addr) ==
  /\ addr \in DOMAIN slots
  /\ LET v == ValueFrom(EvalAll(w), slots[addr].name, 0) IN v > 1 \/ v < -1

-----------------------------------------------------------------------------
(* The state that the web page shows *)

IsWide(slots, a) == slots[a].storage = "f32"

Entry(slots, words, a) ==
  [addr |-> a, name |-> slots[a].name, storage |-> slots[a].storage,
   bits |-> IF IsWide(slots, a) THEN Combine(<<words[a], words[a + 1]>>, "big")
            ELSE words[a]]

\* The turn of address a: acc.next is the first one that is not yet listed.
ListAddress(slots, words, acc, a) ==
  IF a < acc.next \/ a \notin DOMAIN slots THEN acc
  ELSE [next |-> IF IsWide(slots, a) THEN a + 2 ELSE a + 1,
        entries |-> Append(acc.entries, Entry(slots, words, a))]

\* Addresses from 0 to the last one in use.
Extent(slots) == IF DOMAIN slots = {} THEN 0 ELSE Max(DOMAIN slots) + 1

\* The input registers in turn: the words of 32-bit values are taken in pairs.
InputEntries(slots, words) ==
  FoldLeft(LAMBDA acc, i : ListAddress(slots, words, acc, i - 1),
           [next |-> 0, entries |-> <<>>], [i \in 1..Extent(slots) |-> i]).entries

\* The values are evaluated first, then each word for itself: those of the holding
\* area, of the input area with the one behind its end, and of the coils.
Moment(map, area, a) ==
  LET holding == Extent(map["holding"])
  IN  2 + a + CASE area = "holding" -> 0
                [] area = "input"   -> holding
                [] area = "coils"   -> holding + Extent(map["input"]) + 1

Moments(map) == Moment(map, "coils", Extent(map["coils"])) - 1

\* build_state_json, with the world at each moment.
StateJson(worlds, map) ==
  LET ReadAt(area, a) == ReadWord(worlds[Moment(map, area, a)], map[area], a)
      inputs == DOMAIN map["input"] \cup {a + 1 : a \in DOMAIN map["input"]}
  IN  [controls |-> worlds[1].controls,
       sensors  |-> EvalAll(worlds[1]),
       holding  |-> [a \in DOMAIN map["holding"] |-> ReadAt("holding", a)],
       inputs   |-> InputEntries(map["input"], [a \in inputs |-> ReadAt("input", a)]),
       coils    |-> [a \in DOMAIN map["coils"] |->
                       ReadCoil(worlds[Moment(map, "coils", a)], map["coils"], a)]]
=============================================================================
