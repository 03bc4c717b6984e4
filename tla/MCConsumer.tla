----------------------------- MODULE MCConsumer -----------------------------
(***************************************************************************)
(* A small instance of Consumer: two devices, a chain of computed sensors  *)
(* that the file lists in the wrong order, one working and one failing     *)
(* pipeline, a register to add with its pipeline and one whose identifier  *)
(* is that of a computed sensor.                                           *)
(***************************************************************************)
EXTENDS Consumer, TLC

CONSTANTS d1, d2, s1, s2, s3, s4, c1, c2

TwoDevices == <<d1, d2>>

Reg(sensor, addr) ==
  [sensor |-> sensor, area |-> "input", addr |-> addr, words |-> 1,
   count |-> 1, access |-> "read"]

InitialFiles ==
  {[regs |-> (d1 :> <<Reg(s1, 0), Reg(s2, 1)>>) @@ (d2 :> <<Reg(s3, 0)>>),
    pipes |-> {s1, s2},
    computed |-> <<[sensor |-> c2, inputs |-> <<c1, s3>>],
                   [sensor |-> c1, inputs |-> <<s1, s2>>]>>]}

Requests == {[device |-> d2, register |-> Reg(s4, 1), pipe |-> {s4}],
             [device |-> d2, register |-> Reg(c1, 2), pipe |-> {}]}
=============================================================================
