--------------------------- MODULE PipelineEditor ---------------------------
(***************************************************************************)
(* The page a pipeline is drawn on: pages/PipelinePage.tsx and             *)
(* pipeline/history.ts of vos.Trellis.                                     *)
(*                                                                         *)
(* The person edits, undoes, opens another pipeline, starts a new one and  *)
(* saves.  A save is a list of requests that go out one after another      *)
(* while the person goes on; it ends at the first that fails.  The page    *)
(* plans it on the model as it has heard of it, which trails the model as  *)
(* it is.  Variants of an action that stand before it carry a plausible    *)
(* bug each.                                                               *)
(***************************************************************************)
EXTENDS PipelineDrawing

CONSTANTS Held,         \* what the model holds at the start
          MAX_HISTORY,
          MaxPlaced, MaxEdits, MaxOpens, MaxSaves, MaxFaults

ASSUME EditorAssumption == /\ {MaxPlaced, MaxEdits, MaxOpens, MaxSaves, MaxFaults} \subseteq Nat
                           /\ MAX_HISTORY \in Nat \ {0}

\* What earlier saves may have left: each Thing is of one archetype and of one pipeline, a node is one of a pipeline's,
\* and a wire has one node that holds it and one relationship of each kind.
ASSUME HeldAssumption ==
  /\ IsFiniteSet(ThingsOf(Held)) /\ ThingsOf(Held) = 1..Cardinality(ThingsOf(Held))
  /\ Held.pipelines \intersect (Held.nodes \union Held.wires \union Held.ports) = {}
  /\ Held.nodes \intersect (Held.wires \union Held.ports) = {}
  /\ Held.wires \intersect Held.ports = {}
  /\ Held.starts \subseteq Held.nodes
  /\ Held.rels \subseteq Relationships(Held.pipelines, Held.nodes, Held.starts, Held.wires, Held.ports)
  /\ \A r, s \in Held.rels : r[2] = s[2] =>
        /\ r[2] \in {"wire", "in", "out"} /\ r[1] = s[1] => r = s
        /\ r[2] = "has" /\ r[3] = s[3] /\ r[3] \in Held.wires => r = s
  /\ \A n \in Held.nodes : \E p \in Held.pipelines : <<p, "has", n>> \in Held.rels
  /\ \E own \in [ThingsOf(Held) -> Held.pipelines] :
        /\ \A p \in Held.pipelines : own[p] = p
        /\ \A r \in Held.rels : r[3] \in ThingsOf(Held) => own[r[3]] = own[r[1]]

VARIABLES canvas, past, baseline,        \* the drawing; what undo returns to; what a failed save does
          canUndo, dirty,
          savedId, editingPipelineId,
          thingIdByCanvasId,
          nodeSequence,                  \* nodes placed so far
          busy, save, todo,              \* a save in flight, what it saves and what it has yet to write
          model, heard,                  \* the model, and as the page has heard of it
          minted,                        \* Things named so far
          edits, opens, saves, faults,   \* bounds
          touched,                       \* history: the canvas changed since the save began
          crossed,                       \* history: another pipeline was opened during a save
          mingled,                       \* history: a save was sent of what was opened so
          left,                          \* history: the pipelines whose first save failed
          confirmed,                     \* history: the canvas is what the model was heard to hold
          written                        \* history: what the last sound save wrote

drawing == <<canvas, past, baseline, canUndo, dirty>>
opened  == <<savedId, editingPipelineId, thingIdByCanvasId>>
saving  == <<busy, save, todo>>
bounds  == <<edits, opens, saves, faults>>
history == <<touched, crossed, mingled, left, confirmed, written>>
vars    == <<drawing, opened, nodeSequence, saving, model, heard, minted, bounds, history>>

Empty   == [nodes |-> {}, edges |-> {}]
NoSave  == [attempt |-> Empty, pipeline |-> NoPipeline, to |-> <<>>, captured |-> NoPipeline,
            sound |-> FALSE]
Unwritten == [pipeline |-> NoPipeline, drawn |-> Empty]

Init ==
  /\ canvas = Empty /\ past = <<>> /\ baseline = Empty /\ canUndo = FALSE /\ dirty = FALSE
  /\ savedId = NoPipeline /\ editingPipelineId = NoPipeline /\ thingIdByCanvasId = <<>>
  /\ nodeSequence = 0
  /\ busy = FALSE /\ save = NoSave /\ todo = <<>>
  /\ model = Held /\ heard = Held /\ minted = Cardinality(ThingsOf(Held))
  /\ edits = 0 /\ opens = 0 /\ saves = 0 /\ faults = 0
  /\ touched = FALSE /\ crossed = FALSE /\ mingled = FALSE /\ left = {} /\ confirmed = FALSE
  /\ written = Unwritten

-----------------------------------------------------------------------------
(* The history of the editor.                                              *)

Recorded(p) == IF Len(p) < MAX_HISTORY THEN Append(p, canvas)
               ELSE Append(Tail(p), canvas)

CommitOnly(c) ==
  /\ baseline' = c
  /\ UNCHANGED past
  /\ canUndo' = FALSE /\ dirty' = FALSE

\* What was saved or loaded is what undo and a failed save stop at.
commitBaseline(c) ==
  /\ baseline' = c
  /\ past' = <<>>
  /\ canUndo' = FALSE /\ dirty' = FALSE

-----------------------------------------------------------------------------
(* Editing: the canvas before the edit is recorded, and what is drawn is   *)
(* no longer what was saved.                                               *)

EditedOnce(c, records) ==
  /\ edits < MaxEdits /\ edits' = edits + 1
  /\ canvas' = c
  /\ past' = IF records = 1 THEN Recorded(past) ELSE Recorded(Recorded(past))
  /\ canUndo' = TRUE /\ dirty' = TRUE
  /\ touched' = TRUE
  /\ UNCHANGED <<baseline, editingPipelineId, thingIdByCanvasId, saving, model, heard, opens,
                 saves, faults, crossed, mingled, left, confirmed, written>>

EditedUnmarked(c, records) ==
  /\ EditedOnce(c, records)
  /\ UNCHANGED savedId

Edited(c, records) ==
  /\ EditedOnce(c, records)
  /\ savedId' = NoPipeline

\* A start node comes with an out port of its own.
place(start) ==
  /\ nodeSequence < MaxPlaced
  /\ nodeSequence' = nodeSequence + 1
  /\ minted' = IF start THEN minted + 1 ELSE minted
  /\ Edited([canvas EXCEPT !.nodes = @ \union
       {[id |-> 0 - (nodeSequence + 1), start |-> start,
         ports |-> IF start THEN {minted + 1} ELSE {Service}]}], 1)

onConnect ==
  /\ \E s, t \in canvas.nodes : \E o \in outPorts(s), i \in inPorts(t) :
       LET e == [source |-> s.id, outPort |-> o, target |-> t.id, inPort |-> i, taken |-> {}]
       IN /\ \A d \in canvas.edges : wireKey(d) # wireKey(e)
          /\ Edited([canvas EXCEPT !.edges = @ \union {e}], 1)
  /\ UNCHANGED <<nodeSequence, minted>>

setEdgeTakenOn ==
  /\ \E e \in canvas.edges : \E taken \in {{Success}, {Fail}} :
       /\ taken # takenOnOf(e.taken)
       /\ Edited([canvas EXCEPT !.edges = (@ \ {e}) \union {[e EXCEPT !.taken = taken]}], 1)
  /\ UNCHANGED <<nodeSequence, minted>>

onEdgesDelete ==
  /\ \E e \in canvas.edges : Edited([canvas EXCEPT !.edges = @ \ {e}], 1)
  /\ UNCHANGED <<nodeSequence, minted>>

\* The wires of a node go with it, and each of the two is recorded.
onNodesDelete ==
  /\ \E n \in canvas.nodes :
       LET its == {e \in canvas.edges : n.id \in {e.source, e.target}}
       IN Edited([nodes |-> canvas.nodes \ {n}, edges |-> canvas.edges \ its],
                 IF its = {} THEN 1 ELSE 2)
  /\ UNCHANGED <<nodeSequence, minted>>

\* A drag is recorded, and the position is not what a pipeline is.
onNodeDragStart ==
  /\ canvas.nodes # {}
  /\ EditedUnmarked(canvas, 1)
  /\ UNCHANGED <<nodeSequence, minted>>

onUndo ==
  /\ past # <<>>
  /\ canvas' = Last(past)
  /\ past' = Front(past)
  /\ canUndo' = (Len(past) > 1)
  /\ dirty' = TRUE
  /\ savedId' = NoPipeline
  /\ touched' = TRUE
  /\ UNCHANGED <<baseline, editingPipelineId, thingIdByCanvasId, nodeSequence, saving, model, heard,
                 minted, bounds, crossed, mingled, left, confirmed, written>>

-----------------------------------------------------------------------------
(* Opening a pipeline, or a new one, also while a save is in flight.       *)

OpensWith(p, c, editing) ==
  /\ opens < MaxOpens /\ opens' = opens + 1
  /\ canvas' = c
  /\ commitBaseline(c)
  /\ savedId' = p
  /\ editingPipelineId' = editing
  /\ thingIdByCanvasId' = [id \in {n.id : n \in c.nodes} |-> id]
  /\ touched' = TRUE
  /\ crossed' = busy
  /\ confirmed' = (heard = model /\ ~busy)
  /\ UNCHANGED <<nodeSequence, saving, model, heard, minted, edits, saves, faults, mingled, left, written>>

onLoad == \E p \in heard.pipelines : OpensWith(p, loadPipeline(heard, p), p)

onNew == OpensWith(NoPipeline, Empty, NoPipeline)

-----------------------------------------------------------------------------
(* Saving.                                                                 *)

\* What makes a save sound: the page has heard everything and shows nodes of the pipeline it saves; a start node has
\* the ports of its Thing, which no other has; and a wire is told from another by its ends, drawn and in the model.
Sound(c, pipeline) ==
  LET theirs(x) == Reached(heard, x, "has") \intersect heard.ports
      key(k)    == wireKey(WireRead(heard, k[1], k[2]))
  IN /\ heard = model
     /\ \A n \in c.nodes : n.id \in heard.nodes => n.id \in NodesOf(heard, pipeline)
     /\ \A n \in c.nodes, x \in heard.nodes :
           n.start => IF x = n.id THEN theirs(x) \subseteq n.ports ELSE theirs(x) \intersect n.ports = {}
     /\ \A e, f \in c.edges : wireKey(e) = wireKey(f) => e = f
     /\ \A k, l \in PersistedWires(heard, NodesOf(heard, pipeline)) : key(k) = key(l) => k = l
     /\ validatePipeline(c) = {}

onSave ==
  /\ ~busy /\ canvas.nodes # {}
  /\ saves < MaxSaves /\ saves' = saves + 1
  /\ LET known    == editingPipelineId # NoPipeline
         pipeline == IF known THEN editingPipelineId ELSE minted + 1
         to       == nodeThingId(canvas, heard, minted + 1)
         named    == Cardinality(canvas.nodes) + 1
         plan     == Writes(Drawn(canvas, to), heard, pipeline, known, minted + named)
     IN /\ save' = [attempt |-> canvas, pipeline |-> pipeline, to |-> to,
                    captured |-> editingPipelineId, sound |-> Sound(canvas, pipeline)]
        /\ todo' = plan
        /\ minted' = minted + named + Cardinality(canvas.edges)
  /\ busy' = TRUE
  /\ touched' = FALSE
  /\ mingled' = (mingled \/ crossed)
  /\ written' = Unwritten
  /\ UNCHANGED <<drawing, opened, nodeSequence, model, heard, edits, opens, faults, crossed, left,
                 confirmed>>

\* A request is answered and the next goes out.
Writing ==
  /\ busy /\ todo # <<>>
  /\ model' = Applied(model, Head(todo))
  /\ todo' = Tail(todo)
  /\ UNCHANGED <<drawing, opened, nodeSequence, busy, save, heard, minted, bounds, history>>

Saved ==
  /\ busy /\ todo = <<>>
  /\ editingPipelineId' = save.pipeline
  /\ savedId' = save.pipeline
  /\ thingIdByCanvasId' = save.to
  /\ commitBaseline(save.attempt)
  /\ busy' = FALSE /\ save' = NoSave
  /\ confirmed' = (save.sound /\ ~touched)
  /\ written' = IF save.sound THEN [pipeline |-> save.pipeline, drawn |-> Drawn(save.attempt, save.to)]
                ELSE Unwritten
  /\ UNCHANGED <<canvas, nodeSequence, todo, model, heard, minted, bounds, touched, crossed, mingled, left>>

\* A request fails, made or not: the canvas goes back to the last that was confirmed.
SaveFails ==
  /\ busy /\ todo # <<>>
  /\ faults < MaxFaults /\ faults' = faults + 1
  /\ model' \in {model, Applied(model, Head(todo))}
  /\ canvas' = baseline
  /\ canUndo' = FALSE /\ dirty' = FALSE
  /\ savedId' = save.captured
  /\ busy' = FALSE /\ save' = NoSave /\ todo' = <<>>
  /\ left' = IF save.captured = NoPipeline THEN left \union {save.pipeline} ELSE left
  /\ confirmed' = FALSE
  /\ UNCHANGED <<past, baseline, editingPipelineId, thingIdByCanvasId, nodeSequence, heard, minted,
                 edits, opens, saves, touched, crossed, mingled, written>>

\* External: the page hears of the model up to where it is.
Hears ==
  /\ heard # model
  /\ heard' = model
  /\ UNCHANGED <<drawing, opened, nodeSequence, saving, model, minted, bounds, history>>

Next == \/ \E start \in BOOLEAN : place(start)
        \/ onConnect \/ setEdgeTakenOn \/ onEdgesDelete \/ onNodesDelete \/ onNodeDragStart
        \/ onUndo \/ onLoad \/ onNew
        \/ onSave \/ Writing \/ Saved \/ SaveFails
        \/ Hears

Spec == Init /\ [][Next]_vars

-----------------------------------------------------------------------------
(* Properties.                                                             *)

Drawing(c) == /\ DOMAIN c = {"nodes", "edges"}
              /\ {n.id : n \in c.nodes} \subseteq Int
              /\ Cardinality({n.id : n \in c.nodes}) = Cardinality(c.nodes)
              /\ \A e \in c.edges : {e.source, e.target} \subseteq {n.id : n \in c.nodes}

\* Every drawing the page holds is one: its wires join its nodes, and no two nodes are one.
TypeOK ==
  /\ \A c \in {canvas, baseline} \union Range(past) : Drawing(c)
  /\ Len(past) <= MAX_HISTORY
  /\ {canUndo, dirty, busy, touched, crossed, mingled, confirmed} \subseteq BOOLEAN
  /\ {savedId, editingPipelineId} \subseteq Nat \union {NoPipeline}
  /\ busy <=> save # NoSave
  /\ todo # <<>> => busy
  /\ nodeSequence \in 0..MaxPlaced
  /\ ThingsOf(model) \union ThingsOf(heard) \subseteq 1..minted

\* savePipeline: what a sound save wrote reads back as the drawing it was asked to save, whatever
\* the person did meanwhile and whatever earlier saves left half written.
SavedReadsAsDrawn ==
  written # Unwritten => loadPipeline(model, written.pipeline) = written.drawn

\* onSave: a save of the pipeline the page shows writes and removes nothing of another.
OthersKept ==
  [][~mingled /\ save.pipeline \notin left =>
       \A p \in model.pipelines \ (left \union {save.pipeline}) :
          loadPipeline(model', p) = loadPipeline(model, p)]_vars

\* onLoad, onNew and onUndo: the Things on the canvas are of the pipeline that is edited, so that a
\* save never moves them into another, unless one was opened while another was being saved.
ShownIsEdited ==
  ~crossed /\ ~mingled => \A n \in canvas.nodes : n.id \in model.nodes => n.id \in NodesOf(model, editingPipelineId)

\* onRun: a run that may be started runs what the canvas shows, where the canvas was confirmed.
RunsWhatIsShown ==
  /\ savedId # NoPipeline /\ ~busy /\ validatePipeline(canvas) = {}
  /\ confirmed
  => /\ {n.id : n \in canvas.nodes} \subseteq DOMAIN thingIdByCanvasId
     /\ Marked(loadPipeline(model, savedId)) = Drawn(canvas, thingIdByCanvasId)

=============================================================================
