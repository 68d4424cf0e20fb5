------------------------- MODULE MCPipelineEditor -------------------------
EXTENDS PipelineEditor

\* A pipeline of a start wired to a call, and one of a call on its own.
MCHeld == [pipelines |-> {1, 6}, nodes |-> {2, 4, 7}, starts |-> {2}, wires |-> {5}, ports |-> {3},
           rels |-> {<<1, "has", 2>>, <<1, "has", 4>>, <<2, "has", 3>>, <<2, "has", 5>>,
                     <<5, "wire", 4>>, <<5, "in", 3>>, <<5, "out", Service>>,
                     <<5, "taken", Success>>, <<6, "has", 7>>}]
=============================================================================
