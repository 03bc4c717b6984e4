----------------------------- MODULE MCRedfish -----------------------------
(***************************************************************************)
(* The instance of MCHotConfig with both services; the added register s4   *)
(* of d2 has a pipeline whose scale is not the first stage.                *)
(***************************************************************************)
EXTENDS Redfish, MCHotConfig

CONSTANT w1

Units == [s \in Sensors |-> CASE s = s1 -> "Temperature" [] s = s2 -> "Fan"
                              [] s = s3 -> "Voltage" [] OTHER -> "Other"]

\* In halves: s1 is scaled by -1.5, s2 by 2 and the others by 1.
Factors == [s \in Sensors |-> CASE s = s1 -> -3 [] s = s2 -> 4 [] OTHER -> 2]
Offsets == [s \in Sensors |-> CASE s = s1 -> 2 [] s = s2 -> -1 [] OTHER -> 1]

\* s1 reads 2 and -1, s2 reads -1 and 3, one without a pipeline 0 and 2.
Asked == {-1, 3, 5}
FallShort == {<<s2, 3>>}
=============================================================================
