--------------------------- MODULE MCAcquisition ---------------------------
(***************************************************************************)
(* Small instances of Acquisition for TLC.                                 *)
(***************************************************************************)
EXTENDS Acquisition

CONSTANTS d1, d2, r1, r2, r3

\* All requests go to d1, or r1 to d1 and the others to d2.
OneDevice  == [r \in Reqs |-> d1]
TwoDevices == [r \in Reqs |-> IF r = r1 THEN d1 ELSE d2]

\* r1 and r2 name the first register, r3 one that is added at run time.
Registers == [r \in Reqs |-> IF r = r3 THEN 2 ELSE 1]

\* r2 names a sensor of another device.
Misaddressed == [r \in Reqs |-> IF r = r2 THEN 0 ELSE 1]

OneRegister == [d \in Devices |-> 1]
=============================================================================
