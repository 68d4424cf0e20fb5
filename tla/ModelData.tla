------------------------------ MODULE ModelData ------------------------------
(***************************************************************************)
(* What the pages of the Trellis client hold of the model:                 *)
(* hooks/useModelData.ts and stores/modelStore.ts of vos.Trellis.          *)
(*                                                                         *)
(* A subscription that opens answers with a snapshot, which is the load of *)
(* a page about a few Things; a page about the whole model is loaded by a  *)
(* read of the model instead.  Changes that arrive afterwards wait in a    *)
(* buffer and are applied together.  Loads and buffer cross: a load        *)
(* replaces what is held, not what is buffered; and a read answers with    *)
(* the model as it was when it was read.                                   *)
(*                                                                         *)
(* A Thing is one property and its state; relationships are held as Things *)
(* are.  How subscriptions open and reconnect is LiveStream's: here an     *)
(* open is asked, read and answered.  The changes of covered Things come   *)
(* in order and again from the position reached; the states come on the    *)
(* events stream, which repeats nothing.  Variants of an action that stand *)
(* before it carry a plausible bug each.                                   *)
(***************************************************************************)
EXTENDS Integers, Sequences

CONSTANTS Things, InPage,  \* those the page about a few is about
          Values, Moods,   \* what the property and the state may be
          Unset,           \* the property is not there
          Absent,          \* no Thing, nothing buffered
          None,            \* a read not made yet
          MaxChanges, MaxMoves, MaxOpens

ASSUME DataAssumption == /\ InPage \subseteq Things
                         /\ Unset \notin Values
                         /\ Absent \notin Values \union Moods \union {Unset}
                         /\ {MaxChanges, MaxMoves, MaxOpens} \subseteq Nat

VARIABLES model, mood,    \* the broker: the property and the state of each Thing
          head,           \* the last change committed
          unheard,        \* the changes after the position, on the object stream
          moods,          \* the changes of state on the events stream
          covers,         \* what the subscription is opened for
          opening,        \* the open under way: from a fresh position or again from the one reached
          snapshot,       \* its answer
          attached,       \* the streams are
          start, heard,   \* where the position started, and the position
          reads,          \* the reads of the model under way
          held, states,   \* the store: things, thingStates
          loaded, holdsWholeModel,
          upserts, removals, changes, stateUpdates,  \* the buffer
          oldest,         \* history: the first change in the buffer
          flushed,        \* history: the last change applied
          spoiled,        \* history: what crossed since the last load
          moves,          \* changes of state so far
          opens           \* further opens and reads so far

broker == <<model, mood, head, moves>>
stream == <<covers, opening, snapshot, attached, start, opens>>
store  == <<held, states, loaded, holdsWholeModel>>
buffer == <<upserts, removals, changes, stateUpdates, oldest>>
vars   == <<broker, unheard, moods, stream, heard, reads, store, buffer, flushed, spoiled>>

Property == Values \union {Unset}

Held == [Things -> Property \union {Absent}]

HeldStates == [Things -> Moods \union {Absent}]

Events == [kind : {"arrived"}, of : Things, to : Property, state : Moods, at : Nat]
          \union [kind : {"gone"}, of : Things, at : Nat]
          \union [kind : {"changed"}, of : Things, to : Property, at : Nat]

Snapshot == [things : Held, states : HeldStates]

\* The broker, the streams, the opens and reads, the store and its buffer have their types.
TypeOK == /\ model \in Held
          /\ mood \in [Things -> Moods]
          /\ unheard \in Seq(Events)
          /\ moods \in Seq([of : Things, to : Moods])
          /\ covers \in {"page", "whole"}
          /\ opening \in {"none", "fresh", "again", "answered"}
          /\ snapshot \in Snapshot
          /\ {attached, loaded, holdsWholeModel} \subseteq BOOLEAN
          /\ {head, start, heard, oldest, flushed, moves, opens} \subseteq Nat
          /\ reads \subseteq [things : Held, at : Nat] \union {None}
          /\ held \in Held
          /\ states \in HeldStates
          /\ upserts \in Held
          /\ removals \subseteq Things
          /\ changes \in Held
          /\ stateUpdates \in HeldStates
          /\ spoiled \subseteq {"window", "buffer", "read", "failed", "gap", "crossed"}

Empty == [t \in Things |-> Absent]

NoSnapshot == [things |-> Empty, states |-> Empty]

Covered(t) == covers = "whole" \/ t \in InPage

CoveredThings == [t \in Things |-> IF Covered(t) THEN model[t] ELSE Absent]

CoveredStates == [t \in Things |-> IF Covered(t) /\ model[t] # Absent THEN mood[t] ELSE Absent]

Buffered == upserts # Empty \/ removals # {} \/ changes # Empty \/ stateUpdates # Empty

Init == /\ model \in [Things -> Values \union {Absent}] /\ mood \in {[t \in Things |-> m] : m \in Moods} /\ head = 0
        /\ unheard = <<>> /\ moods = <<>>
        /\ covers \in {"page", "whole"} /\ opening = "fresh" /\ snapshot = NoSnapshot /\ attached = FALSE /\ start = 0 /\ heard = 0
        /\ reads = {}
        /\ held = Empty /\ states = Empty /\ loaded = FALSE /\ holdsWholeModel = FALSE
        /\ upserts = Empty /\ removals = {} /\ changes = Empty /\ stateUpdates = Empty
        /\ oldest = 0 /\ flushed = 0 /\ spoiled = {} /\ moves = 0 /\ opens = 0

-----------------------------------------------------------------------------
(* The model changes *)

\* A change of a covered Thing goes on the object stream.
Commit(t, property, event) ==
    /\ head < MaxChanges
    /\ head' = head + 1
    /\ model' = [model EXCEPT ![t] = property]
    /\ unheard' = IF Covered(t) /\ opening # "fresh" THEN Append(unheard, event) ELSE unheard
    /\ UNCHANGED <<mood, moves, moods, stream, heard, reads, store, buffer, flushed, spoiled>>

Arrives(t, v) == /\ model[t] = Absent
                 /\ Commit(t, v, [kind |-> "arrived", of |-> t, to |-> v, state |-> mood[t], at |-> head + 1])

Goes(t) == /\ model[t] # Absent
           /\ Commit(t, Absent, [kind |-> "gone", of |-> t, at |-> head + 1])

Changes(t, v) == /\ model[t] \notin {Absent, v}
                 /\ Commit(t, v, [kind |-> "changed", of |-> t, to |-> v, at |-> head + 1])

\* A change of state is missed where no events stream is attached; what follows a snapshot is then not told again.
StateMoves(t, m) == /\ model[t] # Absent
                    /\ mood[t] # m
                    /\ moves < MaxMoves
                    /\ moves' = moves + 1
                    /\ mood' = [mood EXCEPT ![t] = m]
                    /\ moods' = IF attached THEN Append(moods, [of |-> t, to |-> m]) ELSE moods
                    /\ spoiled' = spoiled \union (IF opening = "answered" THEN {"gap"} ELSE {})
                                          \union (IF \E i \in 1..Len(unheard) : unheard[i].of = t THEN {"crossed"} ELSE {})
                    /\ UNCHANGED <<model, head, unheard, stream, heard, reads, store, buffer, flushed>>

-----------------------------------------------------------------------------
(* Opening *)

holdsNarrowedSet == loaded /\ ~holdsWholeModel

clear == /\ held' = Empty /\ states' = Empty
         /\ loaded' = FALSE /\ holdsWholeModel' = FALSE

Opens(next, position) == /\ opens < MaxOpens
                         /\ opens' = opens + 1
                         /\ attached' = FALSE
                         /\ moods' = <<>>
                         /\ covers' = next
                         /\ opening' = position /\ snapshot' = NoSnapshot
                         /\ unheard' = IF position = "fresh" THEN <<>> ELSE unheard
                         /\ UNCHANGED <<broker, start, heard, reads, buffer, flushed>>

\* Another page asks for something else: what is held of a page goes before the whole model is asked for.
leaveANarrowedSet(next) == /\ next # covers
                           /\ Opens(next, "fresh")
                           /\ IF next = "whole" /\ holdsNarrowedSet THEN clear ELSE UNCHANGED store
                           /\ UNCHANGED spoiled

\* The model was replaced under the subscription: ModelChanged comes on the events stream.
ModelChanged == /\ attached
                /\ Opens(covers, "fresh")
                /\ UNCHANGED <<store, spoiled>>

\* The model was emptied, which the events stream says: the pages hold nothing until the next load.  The platform is
\* taken to tell nothing more of what was before; start and heard are moved past it, for the histories that ask what
\* a load or a read crossed, where the page itself only clears its store.
ModelCleared == /\ attached
                /\ head < MaxChanges
                /\ head' = head + 1 /\ start' = head + 1 /\ heard' = head + 1
                /\ model' = Empty
                /\ unheard' = <<>>
                /\ clear
                /\ UNCHANGED <<mood, moves, moods, covers, opening, snapshot, attached, opens, reads, buffer, flushed, spoiled>>

\* The streams break, and are opened again from the position reached.
Reconnects == /\ attached
              /\ Opens(covers, "again")
              /\ UNCHANGED <<store, spoiled>>

\* The platform reads what the selector covers.
Resolved == /\ opening \in {"fresh", "again"}
            /\ opening' = "answered"
            /\ snapshot' = [things |-> CoveredThings, states |-> CoveredStates]
            /\ start' = IF opening = "fresh" THEN head ELSE start
            /\ heard' = IF opening = "fresh" THEN head ELSE heard
            /\ spoiled' = spoiled \ (IF opening = "fresh" THEN {"gap", "crossed"} ELSE {"gap"})
            /\ UNCHANGED <<broker, unheard, moods, covers, attached, opens, reads, store, buffer, flushed>>

\* A load replaces what is held; what it crossed is told by what is buffered from before the position.
Loads(things, whole, crossing) == /\ held' = things
                                  /\ loaded' = TRUE
                                  /\ holdsWholeModel' = whole
                                  /\ spoiled' = crossing \union (IF Buffered THEN spoiled ELSE spoiled \cap {"gap", "crossed"})
                                                \union (IF Buffered /\ oldest <= start THEN {"buffer"} ELSE {})
                                                \union (IF stateUpdates # Empty THEN {"crossed"} ELSE {})

loadWhatOpened == /\ opening = "answered"
                  /\ opening' = "none" /\ snapshot' = NoSnapshot
                  /\ attached' = TRUE
                  /\ IF covers = "page"
                     THEN /\ Loads(snapshot.things, FALSE, {})
                          /\ states' = snapshot.states
                          /\ UNCHANGED reads
                     ELSE /\ reads' = reads \union {None}
                          /\ UNCHANGED <<store, spoiled>>
                  /\ UNCHANGED <<broker, unheard, moods, covers, start, opens, heard, buffer, flushed>>

-----------------------------------------------------------------------------
(* The read of the whole model *)

\* A page that changed the model reads it again.
reloadModelData == /\ covers = "whole"
                   /\ reads = {}
                   /\ opens < MaxOpens
                   /\ opens' = opens + 1
                   /\ reads' = {None}
                   /\ UNCHANGED <<broker, unheard, moods, covers, opening, snapshot, attached, start, heard, store, buffer,
                                  flushed, spoiled>>

ReadIsMade == /\ None \in reads
              /\ reads' = (reads \ {None}) \union {[things |-> model, at |-> head]}
              /\ UNCHANGED <<broker, unheard, moods, stream, heard, store, buffer, flushed, spoiled>>

\* It crossed what was applied since it was made, a new start of the position, and a page that asked for less.
Overtaken(read) == flushed > read.at \/ start > read.at \/ covers # "whole" \/ opening # "none"

ReadAnswers(read) == /\ reads' = reads \ {read}
                     /\ Loads(read.things, TRUE, IF Overtaken(read) THEN {"read"} ELSE {})
                     /\ states' = Empty
                     /\ UNCHANGED <<broker, unheard, moods, stream, heard, buffer, flushed>>

ReadFails(read) == /\ reads' = reads \ {read}
                   /\ spoiled' = spoiled \union {"failed"}
                   /\ UNCHANGED <<broker, unheard, moods, stream, heard, store, buffer, flushed>>

-----------------------------------------------------------------------------
(* The buffer *)

Hear == /\ attached
        /\ unheard # <<>>
        /\ unheard' = Tail(unheard)
        /\ heard' = Head(unheard).at
        /\ oldest' = IF Buffered /\ oldest # 0 THEN oldest ELSE Head(unheard).at
        /\ UNCHANGED <<broker, moods, stream, reads, store, flushed>>

thingArrivedStateless ==
    /\ Hear
    /\ LET event == Head(unheard)
       IN /\ event.kind = "arrived"
          /\ removals' = removals \ {event.of}
          /\ upserts' = [upserts EXCEPT ![event.of] = event.to]
          /\ UNCHANGED stateUpdates
          /\ spoiled' = IF changes[event.of] # Absent THEN spoiled \union {"window"} ELSE spoiled
    /\ UNCHANGED changes

thingArrived ==
    /\ Hear
    /\ LET event == Head(unheard)
       IN /\ event.kind = "arrived"
          /\ removals' = removals \ {event.of}
          /\ upserts' = [upserts EXCEPT ![event.of] = event.to]
          /\ stateUpdates' = IF holdsNarrowedSet THEN [stateUpdates EXCEPT ![event.of] = event.state] ELSE stateUpdates
          /\ spoiled' = IF changes[event.of] # Absent THEN spoiled \union {"window"} ELSE spoiled
    /\ UNCHANGED changes

thingGone == /\ Hear
             /\ LET event == Head(unheard)
                IN /\ event.kind = "gone"
                   /\ upserts' = [upserts EXCEPT ![event.of] = Absent]
                   /\ removals' = removals \union {event.of}
             /\ UNCHANGED <<changes, stateUpdates, spoiled>>

onThingProperty == /\ Hear
                   /\ LET event == Head(unheard)
                      IN /\ event.kind = "changed"
                         /\ changes' = [changes EXCEPT ![event.of] = event.to]
                   /\ UNCHANGED <<upserts, removals, stateUpdates, spoiled>>

\* States are kept for a page's set only.
onStatesChanged == /\ attached
                   /\ moods # <<>>
                   /\ moods' = Tail(moods)
                   /\ stateUpdates' = IF holdsNarrowedSet THEN [stateUpdates EXCEPT ![Head(moods).of] = Head(moods).to]
                                      ELSE stateUpdates
                   /\ UNCHANGED <<broker, unheard, stream, heard, reads, store, upserts, removals, changes, oldest,
                                  flushed, spoiled>>

AppliedPropertiesFirst == [t \in Things |-> IF upserts[t] # Absent THEN upserts[t]
                                            ELSE IF t \in removals THEN Absent
                                            ELSE IF held[t] # Absent /\ changes[t] # Absent THEN changes[t]
                                            ELSE held[t]]

\* Removals, arrivals, then changes of what is held.
Applied == LET present == [t \in Things |-> IF upserts[t] # Absent THEN upserts[t]
                                            ELSE IF t \in removals THEN Absent ELSE held[t]]
           IN [t \in Things |-> IF present[t] # Absent /\ changes[t] # Absent THEN changes[t] ELSE present[t]]

\* A state is kept of what is held, and goes with it.
AppliedStates == [t \in Things |-> IF stateUpdates[t] # Absent /\ Applied[t] # Absent THEN stateUpdates[t]
                                   ELSE IF t \in removals THEN Absent ELSE states[t]]

flush == /\ Buffered
         /\ held' = Applied
         /\ states' = AppliedStates
         /\ upserts' = Empty /\ removals' = {} /\ changes' = Empty /\ stateUpdates' = Empty
         /\ oldest' = 0
         /\ flushed' = heard
         /\ UNCHANGED <<broker, unheard, moods, stream, heard, reads, loaded, holdsWholeModel, spoiled>>

-----------------------------------------------------------------------------

Next == \/ \E t \in Things : \/ Goes(t)
                             \/ \E v \in Property : Changes(t, v)
                             \/ \E v \in Values : Arrives(t, v)
                             \/ \E m \in Moods : StateMoves(t, m)
        \/ \E next \in {"page", "whole"} : leaveANarrowedSet(next)
        \/ ModelChanged \/ ModelCleared \/ Reconnects \/ Resolved \/ loadWhatOpened
        \/ reloadModelData \/ ReadIsMade
        \/ \E read \in reads \ {None} : ReadAnswers(read)
        \/ \E read \in reads : ReadFails(read)
        \/ thingArrived \/ thingGone \/ onThingProperty \/ onStatesChanged \/ flush

Spec == Init /\ [][Next]_vars

-----------------------------------------------------------------------------
(* Properties *)

Quiet == /\ attached /\ loaded
         /\ opening = "none" /\ reads = {}
         /\ unheard = <<>> /\ moods = <<>>
         /\ ~Buffered

\* When everything has been answered, heard and applied, and no load crossed the buffer or another read, the store
\* holds what the subscription covers as the broker holds it: whatever arrived, went, was loaded and replayed in
\* between, and says rightly whether that is the whole model.
StoreIsExact == Quiet /\ spoiled \subseteq {"gap", "crossed"} => held = CoveredThings /\ (holdsWholeModel <=> covers = "whole")

\* A page's set is drawn with the states its Things have, unless one moved between a snapshot and the streams.
StatesAreExact == Quiet /\ spoiled = {} /\ covers = "page" => states = CoveredStates

=============================================================================
