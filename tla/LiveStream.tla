----------------------------- MODULE LiveStream -----------------------------
(***************************************************************************)
(* The live streams of the Trellis client: hooks/useSse.ts of vos.Trellis  *)
(* with its watch for silence (hooks/streamSilence.ts).  Pages declare     *)
(* what the subscription is to cover; the client opens a subscription for  *)
(* it, attaches the object stream and the system stream, resumes where it  *)
(* left off after a failure, and hands every subscription back.            *)
(*                                                                         *)
(* A step is what the one thread of the browser does between two awaits,   *)
(* timers or events.  An open that a later one or the last reader's        *)
(* leaving overtook goes on to the end of the await it is at: stale holds  *)
(* these, where the code compares generations.  An open is named by the    *)
(* subscription it will be answered with.  Every change the broker commits *)
(* is one the subscription covers.  How long a reconnect waits is left     *)
(* out.  The variants of an action that stand before it carry a plausible  *)
(* bug each; no specification uses them.                                   *)
(***************************************************************************)
EXTENDS Integers, Sequences, FiniteSets

CONSTANTS Pages,        \* the declarations a page may make
          Selectors,    \* what a subscription may cover
          WHOLE_MODEL,
          Asks,         \* the selector of each page's declaration
          Ids,          \* subscriptions the platform may answer with
          None,         \* no subscription, no position, opened for nothing
          MaxReaders, MaxStale, MaxHead,
          MaxFaults     \* bound on what fails

ASSUME StreamAssumption == /\ WHOLE_MODEL \in Selectors
                           /\ Asks \in [Pages -> Selectors]
                           /\ None \notin Selectors \union Ids \union Nat
                           /\ IsFiniteSet(Ids)
                           /\ {MaxReaders, MaxStale, MaxHead, MaxFaults} \subseteq Nat

VARIABLES referenceCount,   \* components that use the streams
          declared,         \* the pages' declarations, innermost last
          defaultSelector,  \* the shell's declaration
          openedFor,        \* what the streams were opened with
          following,        \* a microtask will follow the declarations
          settling,         \* the timer that waits for the next page's declaration
          reconnectTimer,
          connectionState,
          opening,          \* the opens that nothing overtook: at most one
          stale,            \* the opens that were overtaken
          streams,          \* the state of the object stream and of the system stream
          watched,          \* the streams whose silence is waited for
          openSubscriptionId,
          subscriptions,    \* answered to this client and not asked back
          head,             \* the broker: the last change committed
          from, cursor,     \* the object stream: the position of its address, the last change sent on it
          consumedWatermark,
          coverage,         \* history: what the position's streams covered
          anchor,           \* history: the watermark of the answer its snapshot came with
          delivered,        \* history: changes handed to the pages since the streams cover that
          faults            \* failures so far

readers  == <<referenceCount, declared, defaultSelector>>
timers   == <<following, settling, reconnectTimer>>
attached == <<streams, watched, openSubscriptionId, from, cursor>>
position == <<consumedWatermark, coverage, anchor, delivered>>
vars == <<readers, timers, attached, position, openedFor, connectionState, opening, stale, subscriptions, head, faults>>

Streams == {"object", "system"}

\* The watermark is the broker's head when the subscription is asked for, then that of its answer.
Open == [at : {"token", "answer", "mint"}, id : Ids, watermark : Nat]

\* Readers, declarations, timers, opens, streams and positions have their types.
TypeOK == /\ {referenceCount, head, from, cursor, faults} \subseteq Nat
          /\ declared \in Seq(Pages)
          /\ defaultSelector \in Selectors
          /\ openedFor \in Selectors \union {None}
          /\ {following, settling, reconnectTimer} \subseteq BOOLEAN
          /\ connectionState \in {"connecting", "live", "lost"}
          /\ opening \subseteq Open
          /\ stale \subseteq Open
          /\ streams \in [Streams -> {"none", "connecting", "open", "dead"}]
          /\ watched \subseteq Streams
          /\ openSubscriptionId \in Ids \union {None}
          /\ subscriptions \subseteq Ids
          /\ {consumedWatermark, anchor} \subseteq Nat \union {None}
          /\ coverage \in Selectors \union {None}
          /\ delivered \subseteq Nat

Init == /\ referenceCount = 0 /\ declared = <<>> /\ defaultSelector = WHOLE_MODEL
        /\ openedFor = None
        /\ following = FALSE /\ settling = FALSE /\ reconnectTimer = FALSE
        /\ connectionState = "connecting"
        /\ opening = {} /\ stale = {}
        /\ streams = [s \in Streams |-> "none"] /\ watched = {}
        /\ openSubscriptionId = None /\ subscriptions = {}
        /\ head = 0 /\ from = 0 /\ cursor = 0
        /\ consumedWatermark = None /\ coverage = None /\ anchor = None /\ delivered = {}
        /\ faults = 0

effectiveSelector == IF declared = <<>> THEN defaultSelector ELSE Asks[declared[Len(declared)]]

Fault == /\ faults < MaxFaults
         /\ faults' = faults + 1

scheduleReconnect == /\ reconnectTimer' = TRUE
                     /\ connectionState' = IF reconnectTimer THEN connectionState ELSE "lost"

\* The subscription is handed back with its streams.
closeStreams == /\ streams' = [s \in Streams |-> "none"]
                /\ watched' = {}
                /\ openSubscriptionId' = None
                /\ subscriptions' = subscriptions \ {openSubscriptionId}
                /\ UNCHANGED <<from, cursor>>

\* The bound on the opens under way, which the end of a turn may pass by one.
HasRoom == Cardinality(stale \union opening) <= MaxStale

Overtake == stale' = stale \union opening

InUse == subscriptions \union {o.id : o \in opening \union stale}

openStreams == /\ Overtake
               /\ InUse # Ids
               /\ opening' = {[at |-> "token", id |-> CHOOSE i \in Ids : i \notin InUse, watermark |-> 0]}
               /\ closeStreams
               /\ openedFor' = effectiveSelector
               /\ connectionState' = IF connectionState = "live" THEN "connecting" ELSE connectionState

ForgetPosition == /\ consumedWatermark' = None /\ coverage' = None /\ anchor' = None
                  /\ delivered' = {}

followDeclarations == following' = (following \/ ~settling)

\* A microtask runs before the browser takes up a timer, an answer or an event.
TurnIsOver == ~following

-----------------------------------------------------------------------------
(* What the components do *)

acquire == /\ referenceCount < MaxReaders
           /\ referenceCount' = referenceCount + 1
           /\ IF referenceCount = 0 THEN followDeclarations ELSE UNCHANGED following
           /\ UNCHANGED <<declared, defaultSelector, settling, reconnectTimer, attached, position, openedFor,
                          connectionState, opening, stale, subscriptions, head, faults>>

\* Where the last reader goes everything is taken down, and what is still opening is overtaken.
release ==
    /\ referenceCount > 0
    /\ referenceCount' = referenceCount - 1
    /\ IF referenceCount > 1
       THEN UNCHANGED <<settling, reconnectTimer, attached, position, openedFor, connectionState, opening, stale, subscriptions>>
       ELSE /\ Overtake /\ opening' = {}
            /\ reconnectTimer' = FALSE /\ settling' = FALSE
            /\ ForgetPosition
            /\ openedFor' = None
            /\ closeStreams
            /\ connectionState' = "connecting"
    /\ UNCHANGED <<declared, defaultSelector, following, head, faults>>

Declare(p) == /\ \A i \in 1..Len(declared) : declared[i] # p
              /\ declared' = Append(declared, p)
              /\ followDeclarations
              /\ UNCHANGED <<referenceCount, defaultSelector, settling, reconnectTimer, attached, position, openedFor,
                             connectionState, opening, stale, subscriptions, head, faults>>

TakeBackTelling(p, telling) ==
    /\ \E i \in 1..Len(declared) :
           /\ declared[i] = p
           /\ declared' = SubSeq(declared, 1, i - 1) \o SubSeq(declared, i + 1, Len(declared))
    /\ telling
    /\ UNCHANGED <<referenceCount, defaultSelector, settling, reconnectTimer, attached, position, openedFor,
                   connectionState, opening, stale, subscriptions, head, faults>>

TakeBackUntold(p) == TakeBackTelling(p, UNCHANGED following)

TakeBack(p) == TakeBackTelling(p, followDeclarations)

\* Taking the shell's declaration back is declaring the whole model.
DeclareDefault(selector) ==
    /\ defaultSelector' = selector
    /\ followDeclarations
    /\ UNCHANGED <<referenceCount, declared, settling, reconnectTimer, attached, position, openedFor, connectionState,
                   opening, stale, subscriptions, head, faults>>

\* The model was replaced under the subscription.
resubscribe == /\ referenceCount > 0
               /\ settling' = FALSE
               /\ ForgetPosition
               /\ openStreams
               /\ UNCHANGED <<readers, following, reconnectTimer, head, faults>>

-----------------------------------------------------------------------------
(* Following the declarations *)

follow == IF referenceCount = 0 \/ effectiveSelector = openedFor
          THEN UNCHANGED <<attached, position, openedFor, connectionState, opening, stale, subscriptions>>
          ELSE ForgetPosition /\ openStreams

\* By the end of the turn no page may hold a declaration: then the next page's is waited for.
TurnEnds == /\ following
            /\ following' = FALSE
            /\ IF openedFor # None /\ declared = <<>>
               THEN /\ settling' = TRUE
                    /\ UNCHANGED <<attached, position, openedFor, connectionState, opening, stale, subscriptions>>
               ELSE /\ settling' = FALSE
                    /\ follow
            /\ UNCHANGED <<readers, reconnectTimer, head, faults>>

Settles == /\ settling /\ TurnIsOver /\ HasRoom
           /\ settling' = FALSE
           /\ follow
           /\ UNCHANGED <<readers, following, reconnectTimer, head, faults>>

ReconnectFires == /\ reconnectTimer /\ TurnIsOver /\ HasRoom
                  /\ reconnectTimer' = FALSE
                  /\ IF referenceCount > 0 THEN openStreams
                     ELSE UNCHANGED <<attached, openedFor, connectionState, opening, stale, subscriptions>>
                  /\ UNCHANGED <<readers, following, settling, position, head, faults>>

-----------------------------------------------------------------------------
(* An open, up to each of its awaits *)

Advance(o, to, watermark) == opening' = (opening \ {o}) \union {[o EXCEPT !.at = to, !.watermark = watermark]}

TokenGiven(o) == /\ o.at = "token"
                 /\ Advance(o, "answer", head)
                 /\ UNCHANGED <<readers, timers, attached, position, openedFor, connectionState, stale, subscriptions,
                                head, faults>>

\* The broker took its snapshot at some moment between the request and the answer.
Subscribed(o) == /\ o.at = "answer" /\ TurnIsOver
                 /\ \E watermark \in o.watermark..head : Advance(o, "mint", watermark)
                 /\ subscriptions' = subscriptions \union {o.id}
                 /\ UNCHANGED <<readers, timers, attached, position, openedFor, connectionState, stale, head, faults>>

AttachAt(o, resumeFrom) == /\ o.at = "mint" /\ TurnIsOver
                           /\ opening' = opening \ {o}
                           /\ consumedWatermark' = resumeFrom
                           /\ from' = resumeFrom /\ cursor' = resumeFrom
                           /\ streams' = [s \in Streams |-> "connecting"]
                           /\ watched' = Streams
                           /\ openSubscriptionId' = o.id
                           /\ coverage' = openedFor
                           /\ IF consumedWatermark = None \/ coverage # openedFor
                              THEN anchor' = o.watermark /\ delivered' = {}
                              ELSE UNCHANGED <<anchor, delivered>>
                           /\ UNCHANGED <<readers, timers, openedFor, connectionState, stale, subscriptions, head,
                                          faults>>

AttachAtHead(o) == AttachAt(o, head)

\* The streams are attached at the position reached, whatever they covered up to it, or else at the answer's watermark.
Attach(o) == AttachAt(o, IF consumedWatermark = None THEN o.watermark ELSE consumedWatermark)

OpenFailsQuietly(o) == /\ o.at = "token" \/ TurnIsOver
                       /\ Fault
                       /\ opening' = opening \ {o}
                       /\ subscriptions' = subscriptions \ {o.id}
                       /\ UNCHANGED <<readers, timers, connectionState, attached, position, openedFor, stale, head>>

\* The answer refuses, the call throws, or its answer is lost: what was granted is handed back.
OpenFails(o) == /\ o.at = "token" \/ TurnIsOver
                /\ Fault
                /\ opening' = opening \ {o}
                /\ subscriptions' = subscriptions \ {o.id}
                /\ scheduleReconnect
                /\ UNCHANGED <<readers, following, settling, attached, position, openedFor, stale, head>>

StaleEndsKeeping(o) == /\ o.at = "token" \/ TurnIsOver
                       /\ stale' = stale \ {o}
                       /\ subscriptions' = IF o.at = "answer" THEN subscriptions \union {o.id} ELSE subscriptions \ {o.id}
                       /\ UNCHANGED <<readers, timers, attached, position, openedFor, connectionState, opening, head, faults>>

\* An open that was overtaken sees so at the end of its await, and hands back what it was granted.
StaleEnds(o) == /\ o.at = "token" \/ TurnIsOver
                /\ stale' = stale \ {o}
                /\ subscriptions' = subscriptions \ {o.id}
                /\ UNCHANGED <<readers, timers, attached, position, openedFor, connectionState, opening, head, faults>>

\* One whose call throws schedules a reconnect all the same.
StaleThrows(o) == /\ o.at = "token" \/ TurnIsOver
                  /\ Fault
                  /\ stale' = stale \ {o}
                  /\ subscriptions' = subscriptions \ {o.id}
                  /\ scheduleReconnect
                  /\ UNCHANGED <<readers, following, settling, attached, position, openedFor, opening, head>>

-----------------------------------------------------------------------------
(* The streams *)

StreamUnchanged == UNCHANGED <<readers, following, settling, position, openedFor, opening, stale, subscriptions,
                               openSubscriptionId, from, head>>

StreamOpens(s) == /\ streams[s] = "connecting" /\ TurnIsOver
                  /\ streams' = [streams EXCEPT ![s] = "open"]
                  /\ connectionState' = IF s = "object" THEN "live" ELSE connectionState
                  /\ StreamUnchanged
                  /\ UNCHANGED <<reconnectTimer, watched, cursor, faults>>

\* The browser says that the stream broke, and tries the same address again unless it was refused.
StreamErrors(s) == /\ streams[s] \in {"connecting", "open"} /\ TurnIsOver
                   /\ Fault
                   /\ \E after \in {"connecting", "dead"} : streams' = [streams EXCEPT ![s] = after]
                   /\ cursor' \in (IF s = "object" THEN {from, cursor} ELSE {cursor})
                   /\ scheduleReconnect
                   /\ StreamUnchanged
                   /\ UNCHANGED watched

\* The platform goes and the connection stays open.
StreamDies(s) == /\ streams[s] \in {"connecting", "open"}
                 /\ Fault
                 /\ streams' = [streams EXCEPT ![s] = "dead"]
                 /\ StreamUnchanged
                 /\ UNCHANGED <<reconnectTimer, connectionState, watched, cursor>>

\* Two heartbeats are missed.
Silent(s) == /\ s \in watched /\ TurnIsOver
             /\ streams[s] = "dead"
             /\ watched' = watched \ {s}
             /\ scheduleReconnect
             /\ StreamUnchanged
             /\ UNCHANGED <<streams, cursor, faults>>

Commit == /\ head < MaxHead
          /\ head' = head + 1
          /\ UNCHANGED <<readers, timers, attached, position, openedFor, connectionState, opening, stale, subscriptions,
                         faults>>

\* The next change arrives on the object stream, again after a retry of the browser's.
Event == /\ streams["object"] = "open" /\ TurnIsOver
         /\ cursor < head
         /\ cursor' = cursor + 1
         /\ delivered' = delivered \union {cursor + 1}
         /\ consumedWatermark' = IF cursor + 1 > consumedWatermark THEN cursor + 1 ELSE consumedWatermark
         /\ watched' = watched \union {"object"}
         /\ UNCHANGED <<readers, timers, streams, openSubscriptionId, from, coverage, anchor, openedFor,
                        connectionState, opening, stale, subscriptions, head, faults>>

-----------------------------------------------------------------------------

PageActs == /\ HasRoom
            /\ \/ acquire \/ release \/ resubscribe
               \/ \E p \in Pages : Declare(p) \/ TakeBack(p)
               \/ \E selector \in Selectors \ {defaultSelector} : DeclareDefault(selector)

OpenGoesOn == \E o \in opening : TokenGiven(o) \/ Subscribed(o) \/ Attach(o)

StaleGoesOn == \E o \in stale : StaleEnds(o)

Fails == \/ \E o \in opening : OpenFails(o)
         \/ \E o \in stale : StaleThrows(o)
         \/ \E s \in Streams : StreamErrors(s) \/ StreamDies(s)

Next == \/ PageActs
        \/ TurnEnds \/ Settles \/ ReconnectFires
        \/ OpenGoesOn \/ StaleGoesOn \/ Fails
        \/ \E s \in Streams : StreamOpens(s) \/ Silent(s)
        \/ Commit \/ Event

Spec == Init /\ [][Next]_vars

\* Microtasks and timers run, calls are answered, the platform answers a stream and sends what it has.
Fairness == /\ WF_vars(TurnEnds) /\ WF_vars(Settles) /\ WF_vars(ReconnectFires)
            /\ WF_vars(OpenGoesOn) /\ WF_vars(StaleGoesOn)
            /\ \A s \in Streams : WF_vars(StreamOpens(s)) /\ WF_vars(Silent(s))
            /\ WF_vars(Event)

FairSpec == Spec /\ Fairness

-----------------------------------------------------------------------------
(* Properties *)

\* Every subscription answered to this client is the attached one's or that of an open still under way, however
\* opens overtake each other and fail: none is abandoned at the broker, which never expires one.
NoneAbandoned == subscriptions = {o.id : o \in {x \in opening \union stale : x.at = "mint"}}
                                 \union ({openSubscriptionId} \ {None})

\* Once the declarations have settled, the streams cover what the page on screen declared, or the shell's
\* declaration where no page has one, whatever reconnected or resubscribed meanwhile.
FollowsThePage == referenceCount > 0 /\ ~following /\ ~settling => openedFor = effectiveSelector

\* Each change between the snapshot of the answer that what is covered first came with, whose watermark waits for one
\* more call before the streams are attached, and the position was handed to the pages: neither that wait, however
\* many changes are committed meanwhile, nor any reconnect leaves a gap.
NoGap == consumedWatermark # None => \A p \in 1..MaxHead : anchor < p /\ p <= consumedWatermark => p \in delivered

\* When pages stop changing their minds and failures stop, the client comes to cover what the page asks for, live,
\* with every change handed over.
ComesLive == \/ []<><<PageActs>>_vars
             \/ <>[](referenceCount = 0)
             \/ <>[](/\ openedFor = effectiveSelector
                     /\ connectionState = "live"
                     /\ streams["object"] = "open"
                     /\ consumedWatermark = head)

=============================================================================
