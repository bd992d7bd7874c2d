------------------------------ MODULE MCModbus ------------------------------
(* Bounded instances of Modbus on its own. *)
EXTENDS Modbus
=============================================================================
