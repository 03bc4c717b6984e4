---------------------------- MODULE MCObservers ----------------------------
(***************************************************************************)
(* The instance of MCConsumer with one client of the dashboard.            *)
(***************************************************************************)
EXTENDS Observers, MCConsumer

CONSTANT w1

EveryTick == [d \in DeviceSet |-> 1]
=============================================================================
