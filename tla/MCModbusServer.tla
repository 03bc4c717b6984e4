--------------------------- MODULE MCModbusServer ---------------------------
(***************************************************************************)
(* The instance of MCHotConfig with a master that writes.                  *)
(***************************************************************************)
EXTENDS ModbusServer, MCHotConfig

CONSTANT w1
=============================================================================
