---------------------------- MODULE MCRunLifecycle ----------------------------
(***************************************************************************)
(* Drawings for model checking RunLifecycle.                               *)
(***************************************************************************)
EXTENDS RunLifecycle

CONSTANTS wait, work, beside, end \* nodes; end is the Output node

\* A service behind a wait that is retried, and one beside them that may be called again.
Marked == [wires |-> {<<wait, work>>, <<work, end>>, <<beside, end>>}, output |-> end,
           waits |-> {wait}, retried |-> {work}, again |-> {beside}]

\* Two waits beside each other, a service behind one of them; nothing is marked.
Waits == [Marked EXCEPT !.waits = {wait, beside}, !.retried = {}, !.again = {}]

Both == {Marked, Waits}
=============================================================================
