---------------------------- MODULE CadenceKeeper ----------------------------
(***************************************************************************)
(* The keeper that starts runs as the model's clock passes the instants of *)
(* the cadences: Execution/CadenceKeeper.cs of vos.Service.Phloem over the *)
(* cadences its gateway holds (Model/HeldCadences.cs and the stream loop   *)
(* of Services/MyceliumGateway.cs), with the local model clock and what    *)
(* keeps it on the broker's (ModelClock.cs, ModelClockFollower.cs).        *)
(*                                                                         *)
(* A step is what one of them does between two of its awaits.  Real time   *)
(* passes a second at a time; instants of the model are integers.  What    *)
(* may go wrong is the set Troubles, at most MaxTroubles times in all.  The *)
(* variants of an action that stand before it carry a plausible bug each;  *)
(* no specification uses them.                                             *)
(***************************************************************************)
EXTENDS CadenceSchedule, Sequences

CONSTANTS Cadences,     \* the Things that may be cadences
          Unread,       \* no snapshot was taken yet
          None,         \* no look yet, no cadence at hand
          Drawn,        \* what a cadence may state when the system starts
          Speeds,       \* model instants the broker's clock may run through in a second
          Jump,         \* how far the broker's clock is moved ahead
          WallAhead,    \* how far this machine's clock is ahead of the broker's at the start
          ModelClockInterval, \* seconds between two readings of the broker's clock
          Prompt,       \* whether each reading of the broker's clock comes when it is due
          Troubles, MaxTroubles,
          MaxReal       \* bound on the seconds

ASSUME KeeperAssumption == /\ None \notin Cadences \union [model : Int, real : Nat]
                           /\ \A cs \in SUBSET Cadences : Unread \notin [cs -> Cadence]
                           /\ Drawn \subseteq Cadence
                           /\ Speeds \subseteq Nat
                           /\ Jump \in Nat
                           /\ WallAhead \in Int
                           /\ ModelClockInterval \in Nat \ {0}
                           /\ Prompt \in BOOLEAN
                           /\ MaxTroubles \in Nat
                           /\ MaxReal \in Nat

VARIABLES real,          \* seconds since the start
          model, speed,  \* the broker's clock: its instant and its instants a second
          clock, rate,   \* ModelClock: its instant and _anchor.Rate
          askAt,         \* when ModelClockFollower reads the broker's clock next
          kind, stored,  \* the broker: the Things of the cadences' kind, and what each states
          following,     \* the gateway's stream loop
          snapshot,      \* the answer of the subscription
          stream,        \* changes on the way to the gateway
          held, failed,  \* HeldCadences: _held, and the kind of _failure
          phase,         \* the keeper's place in LookAsync
          lastLook,      \* _lastLook
          coveredFrom,   \* LookAsync's local
          todo,          \* the list of cadences the look has still to handle
          at, due,       \* the cadence at hand and its due instants
          failuresInARow,
          lookAt,        \* when the delay before the next look ends
          runs,          \* history: <<cadence, instant>> of each run started
          twice,         \* history: those started again
          edited,        \* history: the cadences whose instant last due was edited
          unheard,       \* history: those marked while what the broker had sent was still to be held
          ran,           \* history: instants the broker's clock ran through, no look having passed them when they
                         \* came, since the keeper's first look and since a change of others was heard, the clock
                         \* was moved, or a mark or a look failed
          troubles       \* troubles so far

clocks  == <<real, model, speed, clock, rate, askAt, ran>>
broker  == <<kind, stored>>
gateway == <<following, snapshot, held, failed>>
keeper  == <<lastLook, coveredFrom, todo, at, due, failuresInARow, lookAt>>
started == <<runs, twice, edited, unheard>>
vars    == <<clocks, broker, gateway, stream, phase, keeper, started, troubles>>

\* Cadences by their ids.
IsList(h) == DOMAIN h \subseteq Cadences /\ h \in [DOMAIN h -> Cadence]

Changes == [event : {"ThingEntered"}, of : Cadences, to : Cadence]
           \union [event : {"ThingLeft"}, of : Cadences]
           \union [event : {"intervalMinutes"}, of : Cadences, to : Int]
           \union [event : {"lastDue"}, of : Cadences, to : Int \union {Never}]

\* A call that fails throws, or is cancelled when its time is over (HttpClient's timeout).
Failures == {"thrown", "cancelled"}

\* Real and model time, what the broker keeps, what the gateway holds and where the keeper is have their types.
TypeOK == /\ {real, askAt, lookAt, speed, rate, failuresInARow, troubles} \subseteq Nat
          /\ {model, clock} \subseteq Int
          /\ kind \subseteq Cadences
          /\ stored \in [Cadences -> Cadence]
          /\ following \in {"off", "away", "asking", "opened", "streaming"}
          /\ IsList(snapshot)
          /\ stream \in Seq(Changes)
          /\ held = Unread \/ IsList(held)
          /\ failed \in Failures \union {"none"}
          /\ phase \in {"idle", "waiting", "looking", "marking", "marked", "resolving", "ended"} \union Failures
          /\ lastLook \in [model : Int, real : Nat] \union {None}
          /\ coveredFrom \in Int
          /\ IsList(todo)
          /\ at \in Cadences \union {None}
          /\ due \subseteq Int
          /\ runs \subseteq Cadences \X Int
          /\ twice \subseteq runs
          /\ edited \union unheard \subseteq Cadences
          /\ ran \subseteq Int

Nothing == [c \in {} |-> None]

\* What a snapshot shows: CadenceOf each of the kind.
InKind == [c \in kind |-> stored[c]]

Init == /\ real = 0 /\ model = 0 /\ speed \in Speeds
        /\ clock = WallAhead /\ rate = 1 /\ askAt = 0 /\ ran = {}
        /\ kind \in SUBSET Cadences /\ stored \in [Cadences -> Drawn]
        /\ following = "off" /\ snapshot = Nothing /\ held = Unread /\ failed = "none"
        /\ stream = <<>>
        /\ phase = "idle"
        /\ lastLook = None /\ coveredFrom = 0 /\ todo = Nothing /\ at = None /\ due = {}
        /\ failuresInARow = 0 /\ lookAt = 1
        /\ runs = {} /\ twice = {} /\ edited = {} /\ unheard = {}
        /\ troubles = 0

\* One of the things that may go wrong does.
Trouble(what) == /\ what \in Troubles
                 /\ troubles < MaxTroubles
                 /\ troubles' = troubles + 1
-----------------------------------------------------------------------------
\* A second passes for both clocks, where readings are prompt before the next one is due.
Tick == /\ real < MaxReal
        /\ Prompt => real < askAt
        /\ real' = real + 1
        /\ model' = model + speed
        /\ clock' = clock + rate
        /\ ran' = ran \union {t \in model + 1 .. model + speed : lastLook # None => t > lastLook.model}
        /\ UNCHANGED <<speed, rate, askAt, broker, gateway, stream, phase, keeper, started, troubles>>

\* ModelClockFollower takes a reading, which took no time, and anchors the clock to it.
FollowOnce ==
    /\ real >= askAt
    /\ clock' = model
    /\ rate' = speed
    /\ askAt' = real + ModelClockInterval
    /\ UNCHANGED <<real, model, speed, ran, broker, gateway, stream, phase, keeper, started, troubles>>

\* The broker's clock is given another speed, or moved ahead.
ChangeSpeed == /\ \E s \in Speeds : /\ \/ s > speed /\ Trouble("faster")
                                       \/ s < speed /\ Trouble("slower")
                                    /\ speed' = s
               /\ UNCHANGED <<real, model, clock, rate, askAt, ran, broker, gateway, stream, phase, keeper, started>>

JumpAhead == /\ Trouble("jump")
             /\ model' = model + Jump
             /\ ran' = {}
             /\ UNCHANGED <<real, speed, clock, rate, askAt, broker, gateway, stream, phase, keeper, started>>
-----------------------------------------------------------------------------
\* The broker sends a change to who subscribed before it.
Publish(change) == stream' = IF following \in {"opened", "streaming"} THEN Append(stream, change)
                                                                      ELSE stream

\* What a cadence states is edited, or a Thing becomes a cadence or stops to be one.
EditInterval(c, i) ==
    /\ Trouble("interval")
    /\ stored[c].interval # i
    /\ stored' = [stored EXCEPT ![c].interval = i]
    /\ IF c \in kind THEN Publish([event |-> "intervalMinutes", of |-> c, to |-> i]) ELSE UNCHANGED stream
    /\ UNCHANGED <<clocks, kind, gateway, phase, keeper, started>>

EditLastDue(c, t) ==
    /\ Trouble("lastDue")
    /\ stored[c].lastDue # t
    /\ stored' = [stored EXCEPT ![c].lastDue = t]
    /\ IF c \in kind THEN Publish([event |-> "lastDue", of |-> c, to |-> t]) ELSE UNCHANGED stream
    /\ edited' = edited \union {c}
    /\ UNCHANGED <<clocks, kind, gateway, phase, keeper, runs, twice, unheard>>

EnterKind(c) ==
    /\ c \notin kind
    /\ Trouble("kind")
    /\ kind' = kind \union {c}
    /\ Publish([event |-> "ThingEntered", of |-> c, to |-> stored[c]])
    /\ UNCHANGED <<clocks, stored, gateway, phase, keeper, started>>

LeaveKind(c) ==
    /\ c \in kind
    /\ Trouble("kind")
    /\ kind' = kind \ {c}
    /\ Publish([event |-> "ThingLeft", of |-> c])
    /\ UNCHANGED <<clocks, stored, gateway, phase, keeper, started>>
-----------------------------------------------------------------------------
\* FollowCadencesAsync asks for a subscription, once the delay since the last one is over.
Ask == /\ following = "away"
       /\ following' = "asking"
       /\ UNCHANGED <<clocks, broker, snapshot, held, failed, stream, phase, keeper, started, troubles>>

\* The broker opens it: the snapshot is taken as the stream's watermark is.
Subscribe == /\ following = "asking"
             /\ following' = "opened"
             /\ snapshot' = InKind
             /\ stream' = <<>>
             /\ UNCHANGED <<clocks, broker, held, failed, phase, keeper, started, troubles>>

\* A failure of its own kind: a timeout is one of the things that may go wrong.
FailsAs(how) == \/ how = "thrown" /\ UNCHANGED troubles
                \/ how = "cancelled" /\ Trouble("timeout")

\* The subscription fails.  NoteFailure keeps it where nothing is held and hands it to a look that waits.
NoteFailure == \E how \in Failures :
    /\ following = "asking"
    /\ FailsAs(how)
    /\ following' = "away"
    /\ failed' = IF held = Unread THEN how ELSE failed
    /\ phase' = IF held = Unread /\ phase = "waiting" THEN how ELSE phase
    /\ UNCHANGED <<clocks, broker, snapshot, held, stream, keeper, started>>

LastOf(S) == CHOOSE t \in S : \A u \in S : u <= t

MarkedHeld(h, c, t) == IF h = Unread THEN h
                       ELSE [d \in DOMAIN h |-> IF d = c THEN [h[d] EXCEPT !.lastDue = t] ELSE h[d]]

\* The history, where what is held is no longer what it was but for the mark of the look that goes on: what ran
\* before says nothing of what others changed, nor of a mark that failed and was heard after all.
ChangeHeard == ran' = IF \/ held' = held \/ held = Unread
                         \/ phase = "marked" /\ held' = MarkedHeld(held, at, LastOf(due))
                      THEN ran ELSE {}

\* The snapshot arrives and replaces what is held.
Replace == /\ following = "opened"
           /\ following' = "streaming"
           /\ held' = snapshot
           /\ snapshot' = Nothing
           /\ failed' = "none"
           /\ ChangeHeard
           /\ UNCHANGED <<real, model, speed, clock, rate, askAt, broker, stream, phase, keeper, started, troubles>>

AppliedKnown(h, change) == \* a Thing that enters is held only where it was held before
    CASE change.event = "ThingLeft" -> [c \in DOMAIN h \ {change.of} |-> h[c]]
      [] change.event # "ThingLeft" ->
            [c \in DOMAIN h |-> CASE c # change.of -> h[c]
                                  [] c = change.of /\ change.event = "ThingEntered" -> change.to
                                  [] c = change.of /\ change.event = "intervalMinutes" -> [h[c] EXCEPT !.interval = change.to]
                                  [] c = change.of /\ change.event = "lastDue" -> [h[c] EXCEPT !.lastDue = change.to]]

Applied(h, change) ==
    CASE change.event = "ThingEntered" ->
            [c \in DOMAIN h \union {change.of} |-> IF c = change.of THEN change.to ELSE h[c]]
      [] change.event = "ThingLeft" ->
            [c \in DOMAIN h \ {change.of} |-> h[c]]
      [] change.event = "intervalMinutes" ->
            [c \in DOMAIN h |-> IF c = change.of THEN [h[c] EXCEPT !.interval = change.to] ELSE h[c]]
      [] change.event = "lastDue" ->
            [c \in DOMAIN h |-> IF c = change.of THEN [h[c] EXCEPT !.lastDue = change.to] ELSE h[c]]

\* A change of the stream is applied to what is held.
Apply == /\ following = "streaming"
         /\ stream # <<>>
         /\ held' = Applied(held, Head(stream))
         /\ stream' = Tail(stream)
         /\ ChangeHeard
         /\ UNCHANGED <<real, model, speed, clock, rate, askAt, broker, following, snapshot, failed, phase, keeper,
                        started, troubles>>

\* The stream ends or fails, with a NoteFailure that what is held makes idle: the loop subscribes again.
StreamEnds == /\ following = "streaming"
              /\ Trouble("stream")
              /\ following' = "away"
              /\ stream' = <<>>
              /\ UNCHANGED <<clocks, broker, snapshot, held, failed, phase, keeper, started>>
-----------------------------------------------------------------------------
\* LookAsync up to its first wait: the time covered, and CurrentAsync before any wait of its own.
LookCovering(from) ==
    /\ phase = "idle"
    /\ real >= lookAt
    /\ coveredFrom' = from
    /\ lastLook' = [model |-> clock, real |-> real]
    /\ ran' = IF lastLook = None THEN {} ELSE ran
    /\ following' = IF following = "off" THEN "away" ELSE following
    /\ \/ /\ held # Unread
          /\ todo' = held
          /\ phase' = "looking"
       \/ /\ held = Unread
          /\ phase' = IF failed = "none" THEN "waiting" ELSE failed
          /\ UNCHANGED todo
    /\ UNCHANGED <<real, model, speed, clock, rate, askAt, broker, snapshot, stream, held, failed,
                   at, due, failuresInARow, lookAt, started, troubles>>

\* Twice what the clock's speed covers since the last look and between two readings of the broker's clock.
Window(factor) == factor * (real - lastLook.real + ModelClockInterval) * rate

LookNarrow == LookCovering(IF lastLook = None THEN clock
                           ELSE Larger(lastLook.model, clock - (real - lastLook.real) * rate))

Look == LookCovering(IF lastLook = None THEN clock ELSE Larger(lastLook.model, clock - Window(2)))

\* CurrentAsync goes on after the first snapshot.
ReadHeld == /\ phase = "waiting"
            /\ held # Unread
            /\ todo' = held
            /\ phase' = "looking"
            /\ UNCHANGED <<clocks, broker, gateway, stream, lastLook, coveredFrom, at, due, failuresInARow,
                           lookAt, started, troubles>>

Without(c) == [d \in DOMAIN todo \ {c} |-> todo[d]]

\* The next cadence of the list: where it is due, its write is sent.
Handle(c) ==
    /\ phase = "looking"
    /\ c \in DOMAIN todo
    /\ LET instants == DueAt(todo[c], lastLook.model, coveredFrom) IN
          \/ /\ instants = {}
             /\ todo' = Without(c)
             /\ UNCHANGED <<phase, at, due>>
          \/ /\ instants # {}
             /\ at' = c
             /\ due' = instants
             /\ phase' = "marking"
             /\ UNCHANGED todo
    /\ UNCHANGED <<clocks, broker, gateway, stream, lastLook, coveredFrom, failuresInARow, lookAt,
                   started, troubles>>

\* All that the broker sent so far has reached what is held.
Heard == following = "streaming" /\ stream = <<>>

\* SetLastDueAsync: the broker takes the write and sends the change.
LandMark ==
    /\ phase = "marking"
    /\ phase' = "marked"
    /\ stored' = [stored EXCEPT ![at].lastDue = LastOf(due)]
    /\ IF at \in kind THEN Publish([event |-> "lastDue", of |-> at, to |-> LastOf(due)]) ELSE UNCHANGED stream
    /\ unheard' = IF Heard THEN unheard ELSE unheard \union {at}
    /\ UNCHANGED <<clocks, kind, gateway, keeper, runs, twice, edited, troubles>>

\* SetLastDueAsync: it was answered, and MarkDue changes what is held.
MarkDueWith(h) ==
    /\ phase = "marked"
    /\ phase' = "resolving"
    /\ held' = h
    /\ UNCHANGED <<clocks, broker, following, snapshot, failed, stream, keeper, started, troubles>>

MarkDueNowhere == MarkDueWith(held)

MarkDue == MarkDueWith(MarkedHeld(held, at, LastOf(due)))

NextCadence == /\ phase' = "looking"
               /\ todo' = Without(at)
               /\ at' = None
               /\ due' = {}

\* The write fails, whether it arrived or not: nothing is started from this cadence.
MarkFails == /\ phase \in {"marking", "marked"}
             /\ Trouble("mark")
             /\ NextCadence
             /\ ran' = {}
             /\ UNCHANGED <<real, model, speed, clock, rate, askAt, broker, gateway, stream, lastLook, coveredFrom,
                            failuresInARow, lookAt, started>>

\* The runs of the due instants start beside the look.
Start == /\ phase = "resolving"
         /\ runs' = runs \union ({at} \X due)
         /\ twice' = twice \union (runs \intersect ({at} \X due))
         /\ NextCadence
         /\ UNCHANGED <<clocks, broker, gateway, stream, lastLook, coveredFrom, failuresInARow, lookAt, edited, unheard,
                         troubles>>

\* The model starts nothing from the cadence.
Refuse == /\ phase = "resolving"
          /\ Trouble("refuse")
          /\ NextCadence
          /\ UNCHANGED <<clocks, broker, gateway, stream, lastLook, coveredFrom, failuresInARow, lookAt, started>>

\* ResolveAsync throws, or the write is cancelled, and with it the look.
LookBreaks == /\ \/ phase = "resolving" /\ Trouble("throw") /\ phase' = "thrown"
                 \/ phase \in {"marking", "marked", "resolving"} /\ Trouble("timeout") /\ phase' = "cancelled"
              /\ UNCHANGED <<clocks, broker, gateway, stream, keeper, started>>

\* WaitBeforeLook, in seconds: twice as long with each failure, up to a minute.
WaitBeforeLook(failures) == IF failures = 0 THEN 1
                            ELSE <<2, 4, 8, 16, 32, 60>>[Smaller(failures, 6)]

EndLook(failures) == /\ phase' = "idle"
                     /\ failuresInARow' = failures
                     /\ lookAt' = real + WaitBeforeLook(failures)
                     /\ todo' = Nothing /\ at' = None /\ due' = {}
                     /\ ran' = IF failures = 0 THEN ran ELSE {}
                     /\ UNCHANGED <<real, model, speed, clock, rate, askAt, broker, gateway, stream, lastLook, coveredFrom, started, troubles>>

LookEnds == /\ phase = "looking"
            /\ todo = Nothing
            /\ EndLook(0)

LookFails == /\ phase = "thrown"
             /\ EndLook(failuresInARow + 1)

\* ExecuteAsync takes a cancelled call for its own stop and returns.
KeeperEnds == /\ phase = "cancelled"
              /\ phase' = "ended"
              /\ UNCHANGED <<clocks, broker, gateway, stream, keeper, started, troubles>>

\* The process stops and starts anew: what it kept in memory is gone and its clock is the machine's.
Crash == /\ Trouble("crash")
         /\ clock' = real + WallAhead
         /\ rate' = 1
         /\ askAt' = real
         /\ following' = "off" /\ snapshot' = Nothing /\ held' = Unread /\ failed' = "none"
         /\ stream' = <<>>
         /\ phase' = "idle"
         /\ lastLook' = None /\ coveredFrom' = 0 /\ todo' = Nothing /\ at' = None /\ due' = {}
         /\ failuresInARow' = 0 /\ lookAt' = real + 1
         /\ UNCHANGED <<real, model, speed, ran, broker, started>>
-----------------------------------------------------------------------------
ClockStep  == Tick \/ FollowOnce \/ ChangeSpeed \/ JumpAhead
EditStep   == \E c \in Cadences : \/ \E e \in Drawn : EditInterval(c, e.interval) \/ EditLastDue(c, e.lastDue)
                                  \/ EnterKind(c)
                                  \/ LeaveKind(c)
FollowStep == Ask \/ Subscribe \/ NoteFailure \/ Replace \/ Apply
LookStep   == \/ ReadHeld
              \/ \E c \in Cadences : Handle(c)
              \/ LandMark \/ MarkDue \/ MarkFails
              \/ Start \/ Refuse \/ LookBreaks
              \/ LookEnds \/ LookFails \/ KeeperEnds

Next == ClockStep \/ EditStep \/ FollowStep \/ StreamEnds \/ Look \/ LookStep \/ Crash

Spec == Init /\ [][Next]_vars

\* The loop that follows the cadences and a look that began go on.
FairSpec == Spec /\ WF_vars(FollowStep) /\ WF_vars(LookStep)
-----------------------------------------------------------------------------
\* A cadence starts no run twice for one instant, unless someone edited its instant last due or it was marked before
\* the stream had told what was sent earlier: SetLastDueAsync marks before a run starts, starts nothing where the mark
\* failed, and changes what is held at once, over restarts, lost answers, refusals and clocks moved ahead.
StartedOnce == \A s \in twice : s[1] \in edited \union unheard

\* What a look takes up of a cadence is, of the instants it missed, those in the covered time and the latest.
DueAsSaid == phase = "marking" /\ todo[at].lastDue # Never /\ todo[at].lastDue <= lastLook.model
                => due = TakenUp(todo[at], lastLook.model, coveredFrom)

\* Each instant the clock ran through since the keeper's first look that the cadence missed is one the look takes
\* up, unless a change of others was heard, the clock moved, or a mark or a look failed since: the window tells a
\* clock that ran fast from one that was moved.
RanThroughIsDue == phase = "marking" /\ todo[at].lastDue # Never
                      => \A t \in ran : Missed(todo[at], t, lastLook.model) => t \in due

\* What a cadence keeps, but for the instant last due where someone edited it: an edit that a mark answered late
\* overwrites in what is held is not told again.
Alike(c, one, other) == /\ one.interval = other.interval
                        /\ c \in edited \/ one.lastDue = other.lastDue

\* Once the stream carried every change, what is held is what the broker keeps, whichever marks, edits and snapshots
\* crossed: MarkDue and the stream both change it, each without waiting for the other.
HeldIsStored == Heard => /\ DOMAIN held = kind
                         /\ \A c \in kind : Alike(c, held[c], stored[c])

\* A look that waits for the first snapshot gets it or its failure, and comes to its end, so that the next one is made
\* (CurrentAsync; "a look fails the way a failed read did and the keeper backs off as before").
LooksEnd == phase = "waiting" ~> phase = "idle"

=============================================================================
