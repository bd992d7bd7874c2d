------------------------------ MODULE MCLaite ------------------------------
EXTENDS Laite

\* A board with a switch for one outlet and one for all, and a board with a switch
\* for the other outlet and one for an outlet that it does not have.
SomeSwitches == {[addr |-> "17 03", idx |-> 0], [addr |-> "17 03", idx |-> ALL],
                 [addr |-> "16 12", idx |-> 1], [addr |-> "16 12", idx |-> 16]}
=============================================================================
