--------------------------- MODULE MCPipelineSweep ---------------------------
(***************************************************************************)
(* Drawings for model checking PipelineSweep, each small and each allowed  *)
(* by DagValidator: one Output node every node reaches, no cycle, every    *)
(* choice taken by a wire.                                                 *)
(***************************************************************************)
EXTENDS PipelineSweep

CONSTANTS a, b, c, end, \* nodes; end is the Output node of every drawing
          left, right   \* the two choices of a node that decides

Wire(from, to, outcomes) == [from |-> from, to |-> to, on |-> outcomes]

\* Services that rehearse, wired as given, with nothing else marked on them.
Plain(wires) == [wires |-> wires, output |-> end, inputs |-> {}, acts |-> {}, waits |-> {},
                 perItem |-> {}, goOn |-> {}, retried |-> {}, rehearses |-> {a, b, c},
                 choices |-> [n \in Nodes |-> {}], ruled |-> FALSE]

\* a decides between b and c, which meet at the end; b's failure is carried there too.
Decides == [Plain({Wire(a, b, {left}), Wire(a, c, {right}), Wire(b, end, {"success"}),
                   Wire(b, end, {"fail"}), Wire(c, end, {"success"})})
            EXCEPT !.choices = [n \in Nodes |-> IF n = a THEN {left, right} ELSE {}],
                   !.rehearses = {a, b}]

\* A start node, a retried service and a tell node meet at an Output node with a rule.
Meets == [Plain({Wire(a, b, {"success"}), Wire(a, c, {"success"}), Wire(b, end, {"success"}),
                 Wire(b, c, {"fail"}), Wire(c, end, {"success", "fail"})})
          EXCEPT !.inputs = {a}, !.acts = {c}, !.retried = {b}, !.ruled = TRUE]

\* Three services side by side, one of them once per item.
SideBySide == [Plain({Wire(a, end, {"success"}), Wire(b, end, {"success"}),
                      Wire(b, end, {"fail"}), Wire(c, end, {"success"})})
               EXCEPT !.perItem = {b}, !.goOn = {b}, !.retried = {c}]

\* Two waits, the second behind the first, beside a retried service.
WaitsTwice == [Plain({Wire(a, b, {"success"}), Wire(b, end, {"success"}),
                      Wire(a, c, {"success"}), Wire(c, end, {"success"})})
               EXCEPT !.waits = {a, b}, !.retried = {c}]

\* Two waits side by side, each followed by the same service.
WaitsBeside == [Plain({Wire(a, c, {"success"}), Wire(b, c, {"success"}), Wire(b, end, {"fail"}),
                       Wire(c, end, {"success"})})
                EXCEPT !.waits = {a, b}]

\* a decides while b waits; c takes what a left on its choice and what b leaves.
DecidesBesideAWait ==
    [Plain({Wire(a, c, {left}), Wire(a, end, {right}), Wire(b, c, {"success"}),
            Wire(c, end, {"success"})})
     EXCEPT !.waits = {b}, !.choices = [n \in Nodes |-> IF n = a THEN {left, right} ELSE {}]]

\* Two waits side by side, one of them followed by a retried service.
RetriesBesideAWait ==
    [Plain({Wire(a, c, {"success"}), Wire(b, end, {"success"}), Wire(c, end, {"success"})})
     EXCEPT !.waits = {a, b}, !.retried = {c}]

Branching == {Decides, Meets, SideBySide}
Holding   == {WaitsTwice, WaitsBeside, RetriesBesideAWait, DecidesBesideAWait}
Sweeps    == Branching \union Holding
=============================================================================
