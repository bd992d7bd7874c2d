------------------------------- MODULE MCFifo -------------------------------
(* The instance of Fifo that TLC checks: the constants are in MCFifo.cfg. *)
EXTENDS Fifo
=============================================================================
