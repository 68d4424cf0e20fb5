---------------------------- MODULE MCLiveStream ----------------------------
(* Instances of LiveStream for TLC: what the two pages ask for. *)
EXTENDS LiveStream

CONSTANTS list, board, narrow

OneNarrow == [p \in Pages |-> IF p = board THEN narrow ELSE WHOLE_MODEL]
BothNarrow == [p \in Pages |-> narrow]
=============================================================================
