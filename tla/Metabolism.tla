----------------------------- MODULE Metabolism -----------------------------
(***************************************************************************)
(* The service that lets resources flow: Services/Metabolism.cs and        *)
(* Services/MetabolismSubscriptionService.cs of vos.Service.Metabolism,    *)
(* with the endpoints that call them and the broker as they use it.        *)
(*                                                                         *)
(* A relationship has a simulation, a loop that ticks until it ends or is  *)
(* cancelled.  Requests start and cancel simulations, each on a thread of  *)
(* its own; one more thread reads the subscription's stream and starts a   *)
(* simulation again whose relationship was edited.  A dictionary holds     *)
(* what runs, and no lock spans its operations.  The subscription is to    *)
(* cover each relationship that has a simulation, through its subject.     *)
(* Variants of an operator that stand before it carry a plausible bug      *)
(* each.                                                                   *)
(***************************************************************************)
EXTENDS Naturals, Sequences, FiniteSets

CONSTANTS Rels,               \* relationships
          SubjectOf,          \* the Thing each is a relationship of
          Callers,            \* requests that may be under way at once
          Stream,             \* the thread that reads the stream
          Loops,              \* every simulation there may ever be
          None,
          Unreadable,         \* a value that converts to no number
          Huge,               \* a number no decimal holds
          Quantities, Frequencies,   \* what the properties may be set to
          Given,              \* what a relationship may state at first
          FarOff,             \* relationships whose start may lie further ahead than a delay can last
          Ending,             \* relationships whose end time comes while the service runs
          Edited,             \* relationships whose properties change
          MaxCalls, MaxEdits, MaxFaults

ShortestFrequencySeconds == 1
DefaultQuantity == 1

Threads == Callers \union {Stream}
Props   == {"quantity", "frequencySeconds"}
Stated  == [quantity: Nat \union {Unreadable, Huge}, frequencySeconds: Nat]   \* as the broker holds them
Configs == [quantity: Nat, frequencySeconds: Nat]                             \* as a simulation goes by them

ASSUME MetabolismAssumption ==
  /\ Stream \notin Callers /\ None \notin Loops
  /\ Quantities \subseteq Nat \union {Unreadable, Huge} /\ Frequencies \subseteq Nat
  /\ Unreadable \notin Nat /\ Huge \notin Nat /\ Unreadable # Huge
  /\ Given \subseteq Stated /\ Edited \subseteq Rels
  /\ {MaxCalls, MaxEdits, MaxFaults} \subseteq Nat

VARIABLES simulations,   \* _simulations: the loop each relationship has, or None
          entry, state, cancelled,     \* of loops: what each was started for, where it is, its Cts
          doing,         \* what each thread has in hand
          subscription,  \* "none", "held", "caught up" (line 78 is through), "followed", "broken", "over"
          toCover,       \* the simulations of line 78 still to be covered
          requests,      \* membership requests on their way
          stop, awaited, \* StopAllAsync: where it is, and the loops it waits for
          stated,        \* the broker: the properties of each relationship
          members,       \* the broker: the relationships the subscription covers
          changes,       \* the broker: committed changes the stream has yet to hand over
          calls, edits, faults,        \* bounds
          astray,        \* history: relationships whose requests may have crossed or failed
          missed,        \* history: <<r, p>> the service cannot know of
          overlapped,    \* history: relationships two threads started at once
          late           \* history: the loops started after the stop had cancelled

engine  == <<simulations, entry, state, cancelled>>
covered == <<subscription, toCover, requests, members, astray>>
broker  == <<stated, changes>>
bounds  == <<calls, edits, faults>>
vars    == <<engine, doing, covered, stop, awaited, broker, bounds, missed, overlapped, late>>

Idle == [step |-> "idle"]
NoEntry == [rel |-> None, config |-> None]

Entries  == [rel: Rels \union {None}, config: Configs \union {None}]
Tasks    == {Idle} \union [step: {"called", "starts", "announces"}, rel: Rels, config: Configs]
                   \union [step: {"drops"}, rel: Rels, config: {None}]
Requests == [adds: BOOLEAN, rels: SUBSET Rels]
Changes  == [rel: Rels, prop: Props, value: Quantities \union Frequencies]

TypeOK ==
  /\ simulations \in [Rels -> Loops \union {None}]
  /\ entry \in [Loops -> Entries] /\ state \in [Loops -> {"unused", "runs", "broken", "over"}]
  /\ cancelled \subseteq Loops
  /\ doing \in [Threads -> Tasks]
  /\ subscription \in {"none", "held", "caught up", "followed", "broken", "over"}
  /\ toCover \subseteq Rels /\ requests \subseteq Requests /\ members \subseteq Rels /\ astray \subseteq Rels
  /\ stop \in {"no", "cancelled", "waits", "failed", "over"} /\ awaited \subseteq Loops
  /\ stated \in [Rels -> Stated] /\ changes \in Seq(Changes)
  /\ {calls, edits, faults} \subseteq Nat
  /\ missed \subseteq Rels \X Props /\ overlapped \subseteq Rels /\ late \subseteq Loops

Init ==
  /\ simulations = [r \in Rels |-> None]
  /\ entry = [l \in Loops |-> NoEntry] /\ state = [l \in Loops |-> "unused"] /\ cancelled = {}
  /\ doing = [t \in Threads |-> Idle]
  /\ subscription = "none" /\ toCover = {} /\ requests = {} /\ members = {}
  /\ stop = "no" /\ awaited = {}
  /\ stated \in [Rels -> Given] /\ changes = <<>>
  /\ calls = 0 /\ edits = 0 /\ faults = 0
  /\ astray = {} /\ missed = {} /\ overlapped = {} /\ late = {}

HasId     == subscription # "none"     \* _subscriptionId
Kept      == {r \in Rels : simulations[r] # None}
GetAll    == {simulations[r] : r \in Kept}
Sharing(r) == {q \in Rels : SubjectOf[q] = SubjectOf[r]}
About(r)  == {t \in Threads : doing[t] # Idle /\ doing[t].rel = r}
Steps(r, s) == {t \in About(r) : doing[t].step = s}
Runs(l)   == state[l] = "runs" /\ l \notin cancelled

RefusalOfFrequency(f) == f < ShortestFrequencySeconds

-----------------------------------------------------------------------------
(* The broker, as the service uses it.                                     *)

\* A change is committed, and handed to the stream where the subscription covers the relationship.
Edit(r, p, v) ==
  /\ edits < MaxEdits /\ edits' = edits + 1
  /\ stop = "no"
  /\ v # stated[r][p]
  /\ stated' = [stated EXCEPT ![r][p] = v]
  /\ changes' = IF r \in members THEN Append(changes, [rel |-> r, prop |-> p, value |-> v]) ELSE changes
  /\ missed' = IF r \in members THEN missed ELSE missed \union {<<r, p>>}
  /\ UNCHANGED <<engine, doing, covered, stop, awaited, calls, faults, overlapped, late>>

\* A membership request arrives, in whatever order.  Two alike count as one.
Arrives(q) ==
  /\ q \in requests
  /\ requests' = requests \ {q}
  /\ members' = IF q.adds THEN members \union q.rels ELSE members \ q.rels
  /\ UNCHANGED <<engine, doing, subscription, toCover, astray, stop, awaited, broker, bounds, missed,
                 overlapped, late>>

\* One fails, is logged, and is not sent again.
Fails(q) ==
  /\ q \in requests
  /\ faults < MaxFaults /\ faults' = faults + 1
  /\ requests' = requests \ {q}
  /\ astray' = IF q.adds THEN astray \union q.rels ELSE astray
  /\ UNCHANGED <<engine, doing, subscription, toCover, members, stop, awaited, broker, calls, edits,
                 missed, overlapped, late>>

-----------------------------------------------------------------------------
(* A simulation is started: RegisterCore, for a request or for an edit.    *)

\* What a request is sent with; the defaults stand in for what is no number.
ConfigOf(s) ==
  [s EXCEPT !.quantity = IF @ \in Nat THEN @ ELSE DefaultQuantity]

\* A call to /handle, composed by the broker.  One with a number no decimal holds is answered 500.
Handle(c, r) ==
  /\ doing[c] = Idle
  /\ calls < MaxCalls /\ calls' = calls + 1
  /\ stop = "no"
  /\ stated[r].quantity # Huge
  /\ doing' = [doing EXCEPT ![c] = [step |-> "called", rel |-> r, config |-> ConfigOf(stated[r])]]
  /\ UNCHANGED <<engine, covered, stop, awaited, broker, edits, faults, missed, overlapped, late>>

\* 400, or 503 where the call's token was not swapped.
Refused(c) ==
  /\ doing[c] # Idle /\ doing[c].step = "called"
  /\ doing' = [doing EXCEPT ![c] = Idle]
  /\ UNCHANGED <<engine, covered, stop, awaited, broker, bounds, missed, overlapped, late>>

TakesOut(t, cancels) ==
  LET r == doing[t].rel IN
  /\ doing[t] # Idle /\ doing[t].step = "called"
  /\ ~RefusalOfFrequency(doing[t].config.frequencySeconds)
  /\ simulations' = [simulations EXCEPT ![r] = None]
  /\ cancelled' = IF cancels /\ simulations[r] # None THEN cancelled \union {simulations[r]} ELSE cancelled
  /\ doing' = [doing EXCEPT ![t].step = "starts"]
  /\ overlapped' = IF Steps(r, "starts") # {} THEN overlapped \union {r} ELSE overlapped
  /\ UNCHANGED <<entry, state, covered, stop, awaited, broker, bounds, missed, late>>

TakeOutUncancelled(t) == TakesOut(t, FALSE)

TakeOut(t) == TakesOut(t, TRUE)

\* The stream has not yet handed over everything that was said of a property.
ToBeHeard(r, p) ==
  \/ \E i \in DOMAIN changes : changes[i].rel = r /\ changes[i].prop = p
  \/ doing[Stream] # Idle /\ doing[Stream].rel = r

\* A request that brings less than was said, when nothing is left to be heard, leaves it missed.
MissedBy(r, config) ==
  {m \in missed : m[1] # r \/ ToBeHeard(r, m[2])}
    \union {<<r, p>> : p \in {p \in Props : ~ToBeHeard(r, p) /\ config[p] # stated[r][p]}}

PutIn(t) ==
  /\ doing[t] # Idle /\ doing[t].step = "starts"
  /\ \E l \in Loops : state[l] = "unused"
  /\ LET r == doing[t].rel
         l == CHOOSE l \in Loops : state[l] = "unused"
     IN
     /\ simulations' = [simulations EXCEPT ![r] = l]
     /\ entry' = [entry EXCEPT ![l] = [rel |-> r, config |-> doing[t].config]]
     /\ \E s \in {"runs"} \union IF r \in FarOff THEN {"broken"} ELSE {} :
          state' = [state EXCEPT ![l] = s]
     /\ doing' = [doing EXCEPT ![t] = IF t = Stream THEN Idle ELSE [@ EXCEPT !.step = "announces"]]
     /\ missed' = IF t = Stream THEN missed ELSE MissedBy(r, doing[t].config)
     /\ late' = IF stop = "no" THEN late ELSE late \union {l}
  /\ UNCHANGED <<cancelled, covered, stop, awaited, broker, bounds, overlapped>>

\* Membership is asked for where there is a subscription.  A removal still on its way may come after.
Announce(c) ==
  LET r == doing[c].rel IN
  /\ doing[c] # Idle /\ doing[c].step = "announces"
  /\ doing' = [doing EXCEPT ![c] = Idle]
  /\ IF HasId /\ subscription # "over"
     THEN /\ requests' = requests \union {[adds |-> TRUE, rels |-> Sharing(r)]}
          /\ astray' = IF \E q \in requests : ~q.adds /\ r \in q.rels
                       THEN astray \union {r} ELSE astray \ {r}
     ELSE UNCHANGED <<requests, astray>>
  /\ UNCHANGED <<engine, subscription, toCover, members, stop, awaited, broker, bounds, missed,
                 overlapped, late>>

-----------------------------------------------------------------------------
(* A simulation is cancelled.                                              *)

Cancel(c, r) ==
  /\ doing[c] = Idle
  /\ calls < MaxCalls /\ calls' = calls + 1
  /\ stop = "no"
  /\ simulations[r] # None
  /\ simulations' = [simulations EXCEPT ![r] = None]
  /\ cancelled' = cancelled \union {simulations[r]}
  /\ doing' = [doing EXCEPT ![c] = [step |-> "drops", rel |-> r, config |-> None]]
  /\ UNCHANGED <<entry, state, covered, stop, awaited, broker, edits, faults, missed, overlapped, late>>

AnotherSimulationShares(r) == \E q \in Kept \ {r} : SubjectOf[q] = SubjectOf[r]

\* What is to be left out, and what of it may be wanted: the relationship itself where it has a
\* simulation again, and any that another thread has in hand.
Removes(c, rels) ==
  LET r == doing[c].rel IN
  /\ doing[c] # Idle /\ doing[c].step = "drops"
  /\ doing' = [doing EXCEPT ![c] = Idle]
  /\ IF HasId /\ subscription # "over"
     THEN /\ requests' = requests \union {[adds |-> FALSE, rels |-> rels]}
          /\ astray' = astray \union ({r} \intersect Kept) \union {q \in rels : About(q) \ {c} # {}}
     ELSE UNCHANGED <<requests, astray>>
  /\ UNCHANGED <<engine, subscription, toCover, members, stop, awaited, broker, bounds, missed,
                 overlapped, late>>

RemoveBoth(c) == Removes(c, {doing[c].rel} \union Sharing(doing[c].rel))

\* A subject covers all its relationships: it stays while another has a simulation.
RemoveMembership(c) ==
  Removes(c, {doing[c].rel}
               \union IF AnotherSimulationShares(doing[c].rel) THEN {} ELSE Sharing(doing[c].rel))

-----------------------------------------------------------------------------
(* The subscription and its stream: RunAsync.                              *)

\* From here on the broker keeps what it commits for the stream.
Subscribe ==
  /\ subscription = "none" /\ stop # "over"
  /\ subscription' = "held"
  /\ UNCHANGED <<engine, doing, toCover, requests, members, astray, stop, awaited, broker, bounds,
                 missed, overlapped, late>>

\* The simulations there are, which were registered before there was a subscription.
CatchUp ==
  /\ subscription = "held"
  /\ subscription' = "caught up" /\ toCover' = Kept
  /\ UNCHANGED <<engine, doing, requests, members, astray, stop, awaited, broker, bounds, missed,
                 overlapped, late>>

\* One at a time; one that fails is logged.
CatchUpWith(r) ==
  /\ subscription = "caught up" /\ r \in toCover
  /\ toCover' = toCover \ {r}
  /\ \/ members' = members \union Sharing(r) /\ UNCHANGED <<faults, astray>>
     \/ /\ faults < MaxFaults /\ faults' = faults + 1
        /\ astray' = astray \union {r}
        /\ UNCHANGED members
  /\ UNCHANGED <<engine, doing, subscription, requests, stop, awaited, broker, calls, edits, missed,
                 overlapped, late>>

FollowsWith(unheard) ==
  /\ subscription = "caught up" /\ toCover = {}
  /\ subscription' = "followed" /\ changes' = unheard
  /\ UNCHANGED <<engine, doing, toCover, requests, members, astray, stop, awaited, stated, bounds,
                 missed, overlapped, late>>

FollowFromHere == FollowsWith(<<>>)

\* From where the subscription was taken.
Follow == FollowsWith(changes)

\* An edit is heard: UpdateProperty up to its restart.  A value that does not convert, or would have
\* the simulation tick too often, leaves it as it is.  A number no decimal holds is thrown out of
\* the loop that reads the stream.
Hear ==
  /\ subscription = "followed" /\ doing[Stream] = Idle /\ changes # <<>>
  /\ LET c == Head(changes)
         old == entry[simulations[c.rel]].config
     IN
     /\ changes' = Tail(changes)
     /\ IF simulations[c.rel] = None \/ c.value = Unreadable
        THEN UNCHANGED <<doing, subscription>>
        ELSE IF c.value = Huge
        THEN subscription' = "broken" /\ UNCHANGED doing
        ELSE /\ IF RefusalOfFrequency([old EXCEPT ![c.prop] = c.value].frequencySeconds)
                THEN UNCHANGED doing
                ELSE doing' = [doing EXCEPT ![Stream] =
                       [step |-> "called", rel |-> c.rel, config |-> [old EXCEPT ![c.prop] = c.value]]]
             /\ UNCHANGED subscription
  /\ UNCHANGED <<engine, toCover, requests, members, astray, stop, awaited, stated, bounds, missed,
                 overlapped, late>>

-----------------------------------------------------------------------------
(* Loops end, and all of them are stopped.                                 *)

\* A loop that was cancelled ends, and one whose end time came.
Ends(l) ==
  /\ state[l] = "runs"
  /\ l \in cancelled \/ entry[l].rel \in Ending
  /\ state' = [state EXCEPT ![l] = "over"]
  /\ UNCHANGED <<simulations, entry, cancelled, doing, covered, stop, awaited, broker, bounds, missed,
                 overlapped, late>>

StopsAll(all) ==
  /\ stop = "no"
  /\ calls < MaxCalls /\ calls' = calls + 1
  /\ stop' = "cancelled" /\ cancelled' = cancelled \union all
  /\ UNCHANGED <<simulations, entry, state, doing, covered, awaited, broker, edits, faults, missed,
                 overlapped, late>>

StopAllUncancelled == StopsAll({})

\* A call to /shutdown: StopAllAsync cancels what there is.
StopAll == StopsAll(GetAll)

\* What it waits for is looked up anew.
StopWaits ==
  /\ stop = "cancelled"
  /\ stop' = "waits" /\ awaited' = GetAll
  /\ UNCHANGED <<engine, doing, covered, broker, bounds, missed, overlapped, late>>

\* A loop that broke is thrown out of the stop, which ends short of the application.
StopEnds ==
  /\ stop = "waits" /\ \A l \in awaited : state[l] \in {"over", "broken"}
  /\ IF \E l \in awaited : state[l] = "broken"
     THEN stop' = "failed" /\ UNCHANGED simulations
     ELSE stop' = "over" /\ simulations' = [r \in Rels |-> None]
  /\ UNCHANGED <<entry, state, cancelled, doing, covered, awaited, broker, bounds, missed, overlapped,
                 late>>

\* The host stops: the stream is cancelled and the subscription given up.
StopAsync ==
  /\ stop = "over" /\ subscription # "over"
  /\ subscription' = "over" /\ toCover' = {} /\ requests' = {} /\ members' = {} /\ changes' = <<>>
  /\ doing' = [doing EXCEPT ![Stream] = Idle]
  /\ UNCHANGED <<engine, astray, stop, awaited, stated, bounds, missed, overlapped, late>>

Next ==
  \/ \E r \in Edited, p \in Props : \E v \in Quantities \union Frequencies :
       v \in (IF p = "quantity" THEN Quantities ELSE Frequencies) /\ Edit(r, p, v)
  \/ \E q \in requests : Arrives(q) \/ Fails(q)
  \/ \E c \in Callers :
       \/ \E r \in Rels : Handle(c, r) \/ Cancel(c, r)
       \/ Refused(c) \/ Announce(c) \/ RemoveMembership(c)
  \/ \E t \in Threads : TakeOut(t) \/ PutIn(t)
  \/ Subscribe \/ CatchUp \/ Follow \/ Hear \/ \E r \in Rels : CatchUpWith(r)
  \/ \E l \in Loops : Ends(l)
  \/ StopAll \/ StopWaits \/ StopEnds \/ StopAsync

\* A loop passes on a cancellation, and a stop carries on once its loops have ended.
Fairness == WF_vars(\E l \in Loops : Ends(l)) /\ WF_vars(StopWaits) /\ WF_vars(StopEnds)

Spec     == Init /\ [][Next]_vars
FairSpec == Spec /\ Fairness

-----------------------------------------------------------------------------
(* What the service promises.                                              *)

\* A simulation that runs can be found, and so cancelled, by its relationship: no replacement, restart or
\* cancellation leaves a loop behind that ticks and that nothing knows of, and none that was started before
\* a stop cancelled what there was still ticks once the stop has forgotten them all (Metabolism.cs:44-62,
\* 205-228).  Two do get away: the loop of two threads that start one relationship at once, and one put in
\* between the two looks a stop takes and the Clear it ends with, which is forgotten uncancelled.
LoopsAreFound ==
  \A l \in Loops : Runs(l) /\ entry[l].rel \notin overlapped /\ (stop = "over" => l \notin late)
                    => simulations[entry[l].rel] = l

\* "If a relationship is registered again, the previous simulation is cancelled and replaced"
\* (docs/METABOLISM.md:113): no relationship has two loops that tick.
OneLoopEach ==
  \A k, l \in Loops : Runs(k) /\ Runs(l) /\ entry[k].rel = entry[l].rel => k = l

Coming(r) == \/ r \in toCover
             \/ Steps(r, "announces") # {}
             \/ \E q \in requests : q.adds /\ r \in q.rels

\* Once the service has caught up, the subscription covers each relationship with a simulation, or is
\* about to: one registered before there was a subscription is not passed over, and no cancellation
\* takes the subject away that another simulation needs (MetabolismSubscriptionService.cs:78-134).  Left
\* out are the relationships astray, where the code does fail: those one of whose requests was not heard,
\* and those cancelled beside a registration or a restart, whose removal may arrive after what adds them.
Watched ==
  subscription \in {"caught up", "followed", "broken"} /\ stop # "over" =>
    \A r \in Kept \ astray : r \in members \/ Coming(r)

Acceptable(p, v) == v \in Nat /\ (p = "frequencySeconds" => ~RefusalOfFrequency(v))

\* A simulation goes by what its relationship states, in each property that may be gone by, once the
\* stream has handed over what was said: no edit is undone by one read before it, and none is lost
\* between the subscription and its stream (Metabolism.cs:163-201).
ConfigFollows ==
  subscription = "followed" =>
    \A r \in Kept, p \in Props :
      Acceptable(p, stated[r][p]) /\ ~ToBeHeard(r, p) /\ <<r, p>> \notin missed
        => entry[simulations[r]].config[p] = stated[r][p]

\* A service told to shut down stops, unless a simulation was started behind its back or has a start no
\* delay can wait for (Metabolism.cs:218-228).
StopComes == stop # "no" ~> (stop = "over" \/ late # {} \/ \E l \in Loops : state[l] = "broken")
=============================================================================
