---------------------------- MODULE MCMetabolism ----------------------------
(* Instances of Metabolism for TLC: relationships of one Thing. *)
EXTENDS Metabolism

CONSTANTS water, power, house

OfOneHouse == [r \in Rels |-> house]
Misstated  == {[quantity |-> Unreadable, frequencySeconds |-> 2]}
=============================================================================
