---------------------------- MODULE MCHotConfig ----------------------------
(***************************************************************************)
(* A small instance of HotConfig: two devices, a computed                  *)
(* sensor, and registers to add that are valid, that overlap each other    *)
(* or a configured one, or that break a rule of validate.                  *)
(***************************************************************************)
EXTENDS HotConfig, TLC

CONSTANTS d1, d2, s1, s2, s3, s4, c1

TwoDevices == <<d1, d2>>

Reg(sensor, area, addr, words, access) ==
  [sensor |-> sensor, area |-> area, addr |-> addr, words |-> words,
   count |-> words, access |-> access]

\* Writable words with pipelines and a computed sensor on top of one.
Base == [regs |-> (d1 :> <<Reg(s1, "holding", 0, 1, "read_write")>>) @@
                  (d2 :> <<Reg(s2, "holding", 0, 1, "read_write")>>),
         pipes |-> {s1, s2},
         computed |-> <<[sensor |-> c1, inputs |-> <<s1>>]>>]

\* The same with a cycle: it does not load.
Cyclic == [Base EXCEPT !.computed = <<[sensor |-> c1, inputs |-> <<s1, c1>>]>>]

\* With a read-only word and a coil instead of the words.
Mixed == [Base EXCEPT !.regs[d1] = <<Reg(s1, "holding", 0, 1, "read")>>,
                      !.regs[d2] = <<Reg(s2, "coil", 0, 1, "read_write")>>]

InitialFiles == {Base, Mixed, Cyclic}

Add(device, register, pipe) ==
  [device |-> device, register |-> register, pipe |-> pipe]

\* s3 and s4 overlap on d1; c1 is taken; a pipeline for another sensor; an
\* unknown device; a count that is not the width; an access that is not
\* allowed; an address that does not fit.
Requests ==
  {Add(d1, Reg(s3, "holding", 1, 2, "read_write"), {s3}),
   Add(d1, Reg(s4, "holding", 2, 1, "read_write"), {}),
   Add(d2, Reg(s3, "input", 0, 2, "read"), {}),
   Add(d2, Reg(s4, "holding", 1, 1, "read_write"), {s4}),
   Add(d2, Reg(c1, "holding", 2, 1, "read"), {}),
   Add(d2, Reg(s3, "coil", 1, 1, "read_write"), {s2}),
   Add(c1, Reg(s3, "input", 0, 1, "read"), {}),
   Add(d2, [Reg(s3, "input", 0, 1, "read") EXCEPT !.count = 2], {}),
   Add(d2, Reg(s3, "input", 0, 1, "read_write"), {}),
   Add(d2, Reg(s3, "holding", 3, 2, "read"), {})}
=============================================================================
