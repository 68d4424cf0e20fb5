--------------------------- MODULE PipelineDrawing ---------------------------
(***************************************************************************)
(* A pipeline as Things and relationships, and how a drawing of it is      *)
(* saved and loaded: pipeline/serialize.ts of vos.Trellis, with the walks  *)
(* of pipeline/model.ts it uses.                                           *)
(*                                                                         *)
(* A drawing is a set of nodes and a set of wires.  A node is a start of   *)
(* the run, with an out port of its own, or calls a service, whose ports   *)
(* are the service's.  A save is the list of writes it will make, one      *)
(* request each, worked out from the model as the page holds it.  Names,   *)
(* positions, paths, bindings and choices are left out, and a write        *)
(* repeated is the write made once.                                        *)
(***************************************************************************)
EXTENDS Integers, SequencesExt

CONSTANTS Service,         \* the port of the one service
          Success, Fail,   \* results a wire carries on
          NoPipeline

ASSUME DrawingAssumption == {Service, Success, Fail, NoPipeline} \cap Int = {}

-----------------------------------------------------------------------------
(* What the model holds: Things of each archetype, and relationships.      *)

Nothing == [pipelines |-> {}, nodes |-> {}, starts |-> {}, wires |-> {}, ports |-> {},
            rels |-> {}]

ThingsOf(m) == UNION {m.pipelines, m.nodes, m.wires, m.ports}

\* The relationships Things of each archetype are in.
Relationships(pipelines, nodes, starts, wires, ports) ==
  UNION {pipelines \X {"has"} \X nodes, nodes \X {"has"} \X wires, starts \X {"has"} \X ports,
         wires \X {"wire"} \X nodes, wires \X {"in"} \X (ports \union {Service}),
         wires \X {"out"} \X {Service}, wires \X {"taken"} \X {Success, Fail}}

\* Removing a Thing takes its relationships with it.
Without(m, things) ==
  [pipelines |-> m.pipelines \ things, nodes |-> m.nodes \ things,
   starts |-> m.starts \ things, wires |-> m.wires \ things, ports |-> m.ports \ things,
   rels |-> {r \in m.rels : r[1] \notin things /\ r[3] \notin things}]

With(m, n) ==
  [pipelines |-> m.pipelines \union n.pipelines, nodes |-> m.nodes \union n.nodes,
   starts |-> m.starts \union n.starts, wires |-> m.wires \union n.wires,
   ports |-> m.ports \union n.ports, rels |-> m.rels \union n.rels]

\* One request: what it adds, the Things it removes, the relationships it retracts.
Adds(n)     == [added |-> n, removed |-> {}, retracted |-> {}]
Relates(r)  == Adds([Nothing EXCEPT !.rels = {r}])
Retracts(r) == [added |-> Nothing, removed |-> {}, retracted |-> {r}]
Removes(x)  == [added |-> Nothing, removed |-> {x}, retracted |-> {}]

Applied(m, w) ==
  With([Without(m, w.removed) EXCEPT !.rels = @ \ w.retracted], w.added)

-----------------------------------------------------------------------------
(* Reading.                                                                *)

Reached(m, s, predicate) == {r[3] : r \in {q \in m.rels : q[1] = s /\ q[2] = predicate}}

NodesOf(m, p) == Reached(m, p, "has") \intersect m.nodes
PortsOf(m, n) == IF n \in m.starts THEN Reached(m, n, "has") \intersect m.ports ELSE {Service}

\* A wire a node holds that has its target and both ports.
outgoingWires(m, n) ==
  {w \in Reached(m, n, "has") \intersect m.wires :
     /\ Reached(m, w, "wire") \intersect m.nodes # {}
     /\ Reached(m, w, "in") # {}
     /\ Reached(m, w, "out") # {}}

The(S) == CHOOSE x \in S : TRUE

WireRead(m, n, w) ==
  [source |-> n, outPort |-> The(Reached(m, w, "in")),
   target |-> The(Reached(m, w, "wire") \intersect m.nodes),
   inPort |-> The(Reached(m, w, "out")), taken |-> Reached(m, w, "taken")]

loadPipeline(m, p) ==
  [nodes |-> {[id |-> n, start |-> n \in m.starts, ports |-> PortsOf(m, n)] : n \in NodesOf(m, p)},
   edges |-> {e \in UNION {{WireRead(m, n, w) : w \in outgoingWires(m, n)} : n \in NodesOf(m, p)} :
                e.target \in NodesOf(m, p)}]

\* A wire nobody marked carries on success.
takenOnOf(taken) == IF taken = {} THEN {Success} ELSE taken

Marked(d) == [d EXCEPT !.edges = {[e EXCEPT !.taken = takenOnOf(@)] : e \in @}]

-----------------------------------------------------------------------------
(* What is wrong with a drawing: a wire that ends nowhere, an input of a   *)
(* service that nothing fills.                                             *)

outPorts(n) == n.ports
inPorts(n)  == IF n.start THEN {} ELSE n.ports

wellFormed(c, e) ==
  \E s, t \in c.nodes : /\ s.id = e.source /\ e.outPort \in outPorts(s)
                        /\ t.id = e.target /\ e.inPort \in inPorts(t)

validatePipeline(c) ==
  {<<"dangling-wire", e>> : e \in {d \in c.edges : ~wellFormed(c, d)}}
    \union {<<"unbound-required-input", n>> :
              n \in {k \in c.nodes : \E q \in inPorts(k) :
                       ~\E e \in c.edges : wellFormed(c, e) /\ e.target = k.id /\ e.inPort = q}}

-----------------------------------------------------------------------------
(* Saving.                                                                 *)

\* The Thing each node on the canvas becomes: a node the model holds keeps its own.
nodeThingId(c, m, minted) ==
  LET new == {n.id : n \in c.nodes} \ m.nodes
  IN [id \in {n.id : n \in c.nodes} |->
        IF id \in m.nodes THEN id ELSE minted + 1 + Cardinality({k \in new : k < id})]

\* The drawing in terms of the Things it becomes.
Drawn(c, to) ==
  [nodes |-> {[n EXCEPT !.id = to[n.id]] : n \in c.nodes},
   edges |-> {[e EXCEPT !.source = to[@], !.target = to[@], !.taken = takenOnOf(@)] :
                e \in {d \in c.edges : {d.source, d.target} \subseteq DOMAIN to}}]

\* The pipeline, its nodes and their own ports, in one request.
Fragment(d, p) ==
  LET started == {n \in d.nodes : n.start}
  IN Adds([Nothing EXCEPT
       !.pipelines = {p}, !.nodes = {n.id : n \in d.nodes}, !.starts = {n.id : n \in started},
       !.ports = UNION {n.ports : n \in started},
       !.rels = {<<p, "has", n.id>> : n \in d.nodes}
                  \union UNION {{<<n.id, "has", q>> : q \in n.ports} : n \in started}])

\* What tells a wire from another.
wireKey(e) == <<e.source, e.outPort, e.target, e.inPort>>

relateToTaken(w, held, wanted) ==
  [i \in 1..Cardinality(wanted \ held) |-> Relates(<<w, "taken", SetToSeq(wanted \ held)[i]>>)]

retractTaken(w, held, wanted) ==
  [i \in 1..Cardinality(held \ wanted) |-> Retracts(<<w, "taken", SetToSeq(held \ wanted)[i]>>)]

\* A new wire is written a piece at a time.
NewWire(w, e) ==
  <<Adds([Nothing EXCEPT !.wires = {w}]), Relates(<<e.source, "has", w>>),
    Relates(<<w, "wire", e.target>>), Relates(<<w, "in", e.outPort>>),
    Relates(<<w, "out", e.inPort>>)>> \o relateToTaken(w, {}, e.taken)

PersistedWires(m, nodes) == UNION {{<<n, w>> : w \in outgoingWires(m, n)} : n \in nodes}

WireWritesAdding(m, persisted, e, w) ==
  LET known == {k \in persisted : wireKey(WireRead(m, k[1], k[2])) = wireKey(e)}
      held(k) == WireRead(m, k[1], k[2]).taken
  IN IF known = {} THEN NewWire(w, e)
     ELSE LET k == The(known) IN relateToTaken(k[2], held(k), e.taken)

WireWrites(m, persisted, e, w) ==
  LET known == {k \in persisted : wireKey(WireRead(m, k[1], k[2])) = wireKey(e)}
      held(k) == WireRead(m, k[1], k[2]).taken
  IN IF known = {} THEN NewWire(w, e)
     ELSE LET k == The(known)
          IN relateToTaken(k[2], held(k), e.taken) \o retractTaken(k[2], held(k), e.taken)

RemovesAll(things) == [i \in 1..Cardinality(things) |-> Removes(SetToSeq(things)[i])]

AnyNodes(m, p, known) == IF known THEN m.nodes ELSE {}

\* The nodes a save may find on the canvas no longer: those of the pipeline it updates.
persistedNodeIds(m, p, known) == IF known THEN NodesOf(m, p) ELSE {}

\* Everything a save of the drawing d into the pipeline p will write.
Writes(d, m, p, known, free) ==
  LET persistedNodes == persistedNodeIds(m, p, known)
      persisted == PersistedWires(m, persistedNodes)
      edges     == SetToSeq(d.edges)
      undesired == {k[2] : k \in {j \in persisted :
                     \A e \in d.edges : wireKey(e) # wireKey(WireRead(m, j[1], j[2]))}}
      gone      == SetToSeq(persistedNodes \ {n.id : n \in d.nodes})
      theirs(n) == Reached(m, n, "has") \intersect m.ports
  IN <<Fragment(d, p)>>
       \o FlattenSeq([i \in 1..Len(edges) |-> WireWrites(m, persisted, edges[i], free + i)])
       \o RemovesAll(undesired)
       \o FlattenSeq([i \in 1..Len(gone) |-> RemovesAll(theirs(gone[i])) \o <<Removes(gone[i])>>])
=============================================================================
