------------------------------ MODULE MCIracc -------------------------------
(* Bounded instances of Iracc. *)
EXTENDS Iracc

\* Every register of the units 0..MaxUnit.
AllRegs == IraccRegs

\* The connected units: what the bits of the connection response stand for.
OneUnit == {<<0>>}
SparsePairOrNone == {<< >>, <<0, 2>>}

\* Two commands for one unit.
TwoCommands == {[good |-> <<0, 0>>, lastGood |-> TRUE]}

\* The same, and a text whose last line is bad.
OneUnitBatches == {[good |-> <<0, 0>>, lastGood |-> TRUE],
                   [good |-> <<0>>, lastGood |-> FALSE]}
=============================================================================
