-------------------------- MODULE MCBleTransaction --------------------------
(***************************************************************************)
(* BleTransaction with model values for the tasks.                         *)
(***************************************************************************)
EXTENDS BleTransaction
=============================================================================
