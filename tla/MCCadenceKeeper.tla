--------------------------- MODULE MCCadenceKeeper ---------------------------
(***************************************************************************)
(* What cadences state, for model checking CadenceKeeper.                  *)
(***************************************************************************)
EXTENDS CadenceKeeper

Every(interval, lastDue) == [interval |-> interval, lastDue |-> lastDue]

Several == {Every(2, Never), Every(3, 4), Every(0, 0)}
=============================================================================
