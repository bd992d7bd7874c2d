----------------------------- MODULE MCDatabus ------------------------------
(* Bounded instances of Databus. *)
EXTENDS Databus

Both == {1, 2}
Longest == {2}
=============================================================================
