---------------------------- MODULE Dependencies ----------------------------
(***************************************************************************)
(* The computed (virtual) sensors of a configuration and what they depend  *)
(* on.  A list of computed sensors is a sequence of records with the       *)
(* identifier of the sensor and the sequence of the sensors it reads.  The *)
(* code keeps the inputs in a HashMap, whose order is arbitrary: which     *)
(* sequence a record holds stands for that order.                          *)
(***************************************************************************)
EXTENDS Naturals, Sequences

Ids(computed) == {computed[j].sensor : j \in DOMAIN computed}

InputsOf(c) == {c.inputs[i] : i \in DOMAIN c.inputs}

\* Among any computed sensors there is one that reads none of them.
Acyclic(computed) ==
  \A S \in SUBSET DOMAIN computed :
    S # {} => \E j \in S :
                InputsOf(computed[j]) \cap {computed[k].sensor : k \in S} = {}
=============================================================================
