----------------------------- MODULE MCModelData -----------------------------
(* Instances of ModelData for TLC: the values and the states are alike. *)
EXTENDS ModelData, TLC

Alike == Permutations(Values) \union Permutations(Moods)
=============================================================================
