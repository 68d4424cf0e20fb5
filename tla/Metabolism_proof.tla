-------------------------- MODULE Metabolism_proof --------------------------
(***************************************************************************)
(* Proofs about Metabolism for any relationships and subjects, any number  *)
(* of requests at once, of edits and of failures: that every loop that     *)
(* ticks can be found where no two threads start one relationship at once  *)
(* and none was put in during a stop that is over, that the subscription   *)
(* covers what has a simulation, and that a simulation goes by what its    *)
(* relationship states.                                                    *)
(***************************************************************************)
EXTENDS Metabolism, SequenceTheorems, TLAPS

EntriesAreStarted ==
  \A l \in Loops : state[l] # "unused" => entry[l].rel \in Rels /\ entry[l].config \in Configs

SimsAreEntries ==
  \A r \in Rels : simulations[r] # None =>
    state[simulations[r]] # "unused" /\ entry[simulations[r]].rel = r

TypeInv == TypeOK /\ EntriesAreStarted /\ SimsAreEntries

\* Between the two halves of a start the relationship has no simulation, unless two threads start it.
OutToStart ==
  \A t \in Threads : doing[t].step = "starts" /\ doing[t].rel \notin overlapped
                       => simulations[doing[t].rel] = None

TwoStarting ==
  \A t, u \in Threads :
    doing[t].step = "starts" /\ doing[u].step = "starts" /\ doing[t].rel = doing[u].rel /\ t # u
      => doing[t].rel \in overlapped

\* From when a stop has cancelled, only what is started later runs.
StoppedRuns == stop # "no" => \A l \in Loops : Runs(l) /\ entry[l].rel \notin overlapped => l \in late

FoundInv == OutToStart /\ TwoStarting /\ StoppedRuns /\ LoopsAreFound

\* A relationship the stream has in hand needs to be covered as one does that has a simulation.
Needed == Kept \union {r \in Rels : Stream \in About(r)}

StreamIsOpen == doing[Stream] # Idle => subscription \in {"followed", "broken", "over"}

NeededIsCovered ==
  subscription \in {"caught up", "followed", "broken"} /\ stop # "over" =>
    \A r \in Needed \ astray : r \in members \/ Coming(r)

\* What a removal on its way would leave out is not needed, or an announcement will see it.
RemovalsAreSpare ==
  \A q \in requests, r \in Needed : ~q.adds /\ r \in q.rels => r \in astray \/ Steps(r, "announces") # {}

ClosedAsksNothing == subscription \in {"none", "over"} => requests = {}

CoverInv == StreamIsOpen /\ ClosedAsksNothing /\ NeededIsCovered /\ RemovalsAreSpare

-----------------------------------------------------------------------------
(* What the steps share *)

LEMMA NoneIsNothing == /\ \A l \in Loops : l # None
                       /\ Stream \in Threads /\ \A c \in Callers : c \in Threads /\ c # Stream
BY MetabolismAssumption DEF Threads

\* What a thread has in hand is one of two kinds of record.
LEMMA InHand ==
    ASSUME TypeOK, NEW t \in Threads, doing[t] # Idle
    PROVE  /\ doing[t].rel \in Rels
           /\ doing[t].step \in {"called", "starts", "announces", "drops"}
           /\ doing[t].step # "drops" => doing[t] \in [step: {"called", "starts", "announces"}, rel: Rels, config: Configs]
BY DEF TypeOK, Tasks

LEMMA IdleStep == Idle.step = "idle"
BY DEF Idle

\* A simulation is kept in a loop that was not used before.
LEMMA FreshLoop ==
    ASSUME NEW t \in Threads, PutIn(t)
    PROVE  \E l \in Loops :
             /\ state[l] = "unused"
             /\ simulations' = [simulations EXCEPT ![doing[t].rel] = l]
             /\ entry' = [entry EXCEPT ![l] = [rel |-> doing[t].rel, config |-> doing[t].config]]
             /\ \E s \in {"runs", "broken"} : state' = [state EXCEPT ![l] = s]
             /\ late' = IF stop = "no" THEN late ELSE late \union {l}
<1>1. \E l \in Loops : state[l] = "unused"
  BY DEF PutIn
<1> DEFINE l == CHOOSE l \in Loops : state[l] = "unused"
<1>2. l \in Loops /\ state[l] = "unused"
  BY <1>1
<1>3. /\ simulations' = [simulations EXCEPT ![doing[t].rel] = l]
      /\ entry' = [entry EXCEPT ![l] = [rel |-> doing[t].rel, config |-> doing[t].config]]
      /\ \E s \in {"runs"} \union IF doing[t].rel \in FarOff THEN {"broken"} ELSE {} :
           state' = [state EXCEPT ![l] = s]
      /\ late' = IF stop = "no" THEN late ELSE late \union {l}
  BY DEF PutIn
<1> HIDE DEF l
<1> QED BY <1>2, <1>3

-----------------------------------------------------------------------------
(* Types *)

LEMMA InitTypeInv == Init => TypeInv
<1> SUFFICES ASSUME Init PROVE TypeInv
  OBVIOUS
<1>1. TypeOK
  <2>1. NoEntry \in Entries
    BY DEF NoEntry, Entries
  <2>2. stated \in [Rels -> Stated]
    BY MetabolismAssumption DEF Init
  <2>3. changes \in Seq(Changes)
    BY DEF Init
  <2>4. late \subseteq Loops
    BY DEF Init
  <2>5. {calls, edits, faults} \subseteq Nat
    BY DEF Init
  <2> QED BY <2>1, <2>2, <2>3, <2>4, <2>5, Zenon DEF Init, TypeOK, Tasks
<1>2. EntriesAreStarted /\ SimsAreEntries
  BY DEF Init, EntriesAreStarted, SimsAreEntries
<1> QED BY <1>1, <1>2 DEF TypeInv

\* A step of the engine on the dictionary and its loops.
LEMMA KeepsEntries ==
    ASSUME TypeInv, NEW r \in Rels,
           simulations' = [simulations EXCEPT ![r] = None],
           UNCHANGED <<entry, state>>
    PROVE  EntriesAreStarted' /\ SimsAreEntries' /\ simulations' \in [Rels -> Loops \union {None}]
BY DEF TypeInv, TypeOK, EntriesAreStarted, SimsAreEntries

LEMMA EditType == ASSUME TypeInv, NEW r \in Edited, NEW p \in Props, NEW v \in Quantities \union Frequencies,
                         v \in (IF p = "quantity" THEN Quantities ELSE Frequencies), Edit(r, p, v)
                  PROVE  TypeInv'
<1> USE DEF TypeInv
<1>0. r \in Rels
  BY MetabolismAssumption
<1>1. stated' \in [Rels -> Stated]
  <2>1. [stated[r] EXCEPT ![p] = v] \in Stated
    BY <1>0, MetabolismAssumption DEF TypeOK, Stated, Props
  <2>2. stated' = [stated EXCEPT ![r] = [stated[r] EXCEPT ![p] = v]]
    BY <1>0 DEF Edit, TypeOK
  <2> QED BY <2>1, <2>2 DEF TypeOK
<1>2. changes' \in Seq(Changes)
  <2>1. [rel |-> r, prop |-> p, value |-> v] \in Changes
    BY <1>0 DEF Changes
  <2> QED BY <2>1, AppendProperties DEF Edit, TypeOK
<1>3. missed' \subseteq Rels \X Props
  <2>1. missed \subseteq Rels \X Props /\ <<r, p>> \in Rels \X Props
    BY <1>0 DEF TypeOK
  <2>2. missed' \in {missed, missed \union {<<r, p>>}}
    BY DEF Edit
  <2> HIDE DEF TypeInv
  <2> QED BY <2>1, <2>2
<1>a. edits' \in Nat
  <2>1. edits \in Nat
    BY DEF TypeOK
  <2>2. edits' = edits + 1
    BY DEF Edit
  <2> QED BY <2>1, <2>2
<1>4. TypeOK'
  BY <1>1, <1>2, <1>3, <1>a DEF Edit, TypeOK, engine, covered
<1>5. EntriesAreStarted' /\ SimsAreEntries'
  BY DEF Edit, engine, EntriesAreStarted, SimsAreEntries
<1> QED BY <1>4, <1>5

LEMMA HandType == ASSUME TypeInv, NEW c \in Callers, NEW r \in Rels, Handle(c, r) PROVE TypeInv'
<1>1. ConfigOf(stated[r]) \in Configs
  <2>1. stated[r] \in Stated
    BY DEF TypeInv, TypeOK
  <2>2. stated[r].quantity # Huge /\ DefaultQuantity \in Nat
    BY DEF Handle, DefaultQuantity
  <2>3. CASE stated[r].quantity \in Nat
    BY <2>1, <2>3 DEF Stated, Configs, ConfigOf
  <2>4. CASE stated[r].quantity \notin Nat
    BY <2>1, <2>2, <2>4 DEF Stated, Configs, ConfigOf
  <2> QED BY <2>3, <2>4
<1>2. [step |-> "called", rel |-> r, config |-> ConfigOf(stated[r])] \in Tasks
  BY <1>1 DEF Tasks
<1>3. doing' \in [Threads -> Tasks]
  BY <1>2, NoneIsNothing DEF Handle, TypeInv, TypeOK
<1>4. calls \in Nat /\ calls' = calls + 1
  BY DEF Handle, TypeInv, TypeOK
<1>5. calls' \in Nat
  BY <1>4
<1>6. TypeOK'
  BY <1>3, <1>5 DEF Handle, TypeInv, TypeOK, engine, covered, broker
<1>7. EntriesAreStarted' /\ SimsAreEntries'
  BY DEF Handle, engine, TypeInv, EntriesAreStarted, SimsAreEntries
<1> QED BY <1>6, <1>7 DEF TypeInv

LEMMA RefusedType == ASSUME TypeInv, NEW c \in Callers, Refused(c) PROVE TypeInv'
<1>1. doing' \in [Threads -> Tasks]
  BY NoneIsNothing DEF Refused, TypeInv, TypeOK, Tasks
<1>2. TypeOK'
  BY <1>1 DEF Refused, TypeInv, TypeOK, engine, covered, broker, bounds
<1>3. EntriesAreStarted' /\ SimsAreEntries'
  BY DEF Refused, engine, TypeInv, EntriesAreStarted, SimsAreEntries
<1> QED BY <1>2, <1>3 DEF TypeInv

LEMMA TakeOutType == ASSUME TypeInv, NEW t \in Threads, TakeOut(t) PROVE TypeInv'
<1> DEFINE r == doing[t].rel
<1>1. doing[t] # Idle /\ doing[t].step = "called" /\ doing' = [doing EXCEPT ![t].step = "starts"]
  BY DEF TakeOut, TakesOut
<1>2. r \in Rels /\ doing[t] \in [step: {"called", "starts", "announces"}, rel: Rels, config: Configs]
  BY <1>1, InHand DEF TypeInv
<1>3. [doing[t] EXCEPT !.step = "starts"] \in Tasks
  BY <1>2 DEF Tasks
<1>4. doing' \in [Threads -> Tasks]
  BY <1>1, <1>3 DEF TypeInv, TypeOK
<1>5. simulations' = [simulations EXCEPT ![r] = None] /\ UNCHANGED <<entry, state>>
  BY DEF TakeOut, TakesOut
<1>6. cancelled' \subseteq Loops
  BY <1>2 DEF TakeOut, TakesOut, TypeInv, TypeOK
<1>7. overlapped' \subseteq Rels
  BY <1>2 DEF TakeOut, TakesOut, TypeInv, TypeOK
<1> HIDE DEF r
<1>8. EntriesAreStarted' /\ SimsAreEntries' /\ simulations' \in [Rels -> Loops \union {None}]
  BY <1>2, <1>5, KeepsEntries
<1>9. TypeOK'
  BY <1>4, <1>6, <1>7, <1>8 DEF TakeOut, TakesOut, TypeInv, TypeOK, covered, broker, bounds
<1> QED BY <1>8, <1>9 DEF TypeInv

LEMMA PutInType == ASSUME TypeInv, NEW t \in Threads, PutIn(t) PROVE TypeInv'
<1> DEFINE r == doing[t].rel
           config == doing[t].config
<1>1. doing[t] # Idle /\ doing[t].step = "starts"
  BY DEF PutIn
<1>2. r \in Rels /\ config \in Configs
      /\ doing[t] \in [step: {"called", "starts", "announces"}, rel: Rels, config: Configs]
  BY <1>1, InHand DEF TypeInv
<1>3. PICK l \in Loops : /\ state[l] = "unused"
                         /\ simulations' = [simulations EXCEPT ![r] = l]
                         /\ entry' = [entry EXCEPT ![l] = [rel |-> r, config |-> config]]
                         /\ \E s \in {"runs", "broken"} : state' = [state EXCEPT ![l] = s]
                         /\ late' = IF stop = "no" THEN late ELSE late \union {l}
  BY FreshLoop
<1>4. doing' \in [Threads -> Tasks]
  <2>1. [doing[t] EXCEPT !.step = "announces"] \in Tasks /\ Idle \in Tasks
    BY <1>2 DEF Tasks
  <2>2. doing' = [doing EXCEPT ![t] = IF t = Stream THEN Idle ELSE [doing[t] EXCEPT !.step = "announces"]]
    BY DEF PutIn, TypeInv, TypeOK
  <2> QED BY <2>1, <2>2 DEF TypeInv, TypeOK
<1>5. missed' \subseteq Rels \X Props
  <2>1. missed \subseteq Rels \X Props
    BY DEF TypeInv, TypeOK
  <2>2. missed' \in {missed, MissedBy(r, config)}
    BY DEF PutIn
  <2>3. MissedBy(r, config) \subseteq Rels \X Props
    BY <1>2, <2>1 DEF MissedBy
  <2> QED BY <2>1, <2>2, <2>3
<1>6. late' \subseteq Loops
  BY <1>3 DEF TypeInv, TypeOK
<1> HIDE DEF r, config
<1>7. [rel |-> r, config |-> config] \in Entries
  BY <1>2 DEF Entries
<1>8. /\ simulations' \in [Rels -> Loops \union {None}] /\ entry' \in [Loops -> Entries]
      /\ state' \in [Loops -> {"unused", "runs", "broken", "over"}]
  BY <1>2, <1>3, <1>7 DEF TypeInv, TypeOK
<1>9. EntriesAreStarted'
  BY <1>2, <1>3 DEF TypeInv, TypeOK, EntriesAreStarted
<1>10. SimsAreEntries'
  BY <1>2, <1>3, NoneIsNothing DEF TypeInv, TypeOK, SimsAreEntries
<1>11. TypeOK'
  BY <1>4, <1>5, <1>6, <1>8, Zenon DEF PutIn, TypeInv, TypeOK, covered, broker, bounds
<1> QED BY <1>9, <1>10, <1>11 DEF TypeInv

LEMMA CancelType == ASSUME TypeInv, NEW c \in Callers, NEW r \in Rels, Cancel(c, r) PROVE TypeInv'
<1>1. [step |-> "drops", rel |-> r, config |-> None] \in Tasks
  BY DEF Tasks
<1>2. doing' \in [Threads -> Tasks]
  BY <1>1, NoneIsNothing DEF Cancel, TypeInv, TypeOK
<1>3. EntriesAreStarted' /\ SimsAreEntries' /\ simulations' \in [Rels -> Loops \union {None}]
  BY KeepsEntries DEF Cancel
<1>4. cancelled' \subseteq Loops
  BY DEF Cancel, TypeInv, TypeOK
<1>5. calls \in Nat /\ calls' = calls + 1
  BY DEF Cancel, TypeInv, TypeOK
<1>6. calls' \in Nat
  BY <1>5
<1>7. TypeOK'
  BY <1>2, <1>3, <1>4, <1>6 DEF Cancel, TypeInv, TypeOK, covered, broker
<1> QED BY <1>3, <1>7 DEF TypeInv

\* Requests and what the subscription covers.
LEMMA MembershipType ==
    ASSUME TypeInv,
           \/ \E q \in requests : Arrives(q) \/ Fails(q)
           \/ \E c \in Callers : Announce(c) \/ RemoveMembership(c)
           \/ Subscribe \/ CatchUp \/ Follow \/ \E r \in Rels : CatchUpWith(r)
    PROVE  TypeInv'
<1>1. UNCHANGED engine
  BY DEF Arrives, Fails, Announce, RemoveMembership, Removes, Subscribe, CatchUp, Follow, FollowsWith, CatchUpWith
<1>2. EntriesAreStarted' /\ SimsAreEntries'
  BY <1>1 DEF engine, TypeInv, EntriesAreStarted, SimsAreEntries
<1>3. \A r : Sharing(r) \subseteq Rels
  BY DEF Sharing
<1>4. \A c \in Callers : doing[c] # Idle => doing[c].rel \in Rels
  BY NoneIsNothing, InHand DEF TypeInv
<1>5. \A c \in Callers : [doing EXCEPT ![c] = Idle] \in [Threads -> Tasks]
  BY NoneIsNothing DEF TypeInv, TypeOK, Tasks
<1>6. TypeOK'
  <2>1. ASSUME NEW q \in requests, Arrives(q) PROVE TypeOK'
    <3>1. q.rels \subseteq Rels
      BY DEF TypeInv, TypeOK, Requests
    <3> QED BY <2>1, <3>1 DEF Arrives, TypeInv, TypeOK, engine, broker, bounds
  <2>2. ASSUME NEW q \in requests, Fails(q) PROVE TypeOK'
    <3>1. q.rels \subseteq Rels
      BY DEF TypeInv, TypeOK, Requests
    <3>2. faults \in Nat /\ faults' = faults + 1
      BY <2>2 DEF Fails, TypeInv, TypeOK
    <3>3. faults' \in Nat
      BY <3>2
    <3> QED BY <2>2, <3>1, <3>3 DEF Fails, TypeInv, TypeOK, engine, broker
  <2>3. ASSUME NEW c \in Callers, Announce(c) PROVE TypeOK'
    <3> DEFINE r == doing[c].rel
    <3>1. r \in Rels
      BY <2>3, <1>4 DEF Announce
    <3>2. requests' \in {requests, requests \union {[adds |-> TRUE, rels |-> Sharing(r)]}}
          /\ astray' \in {astray, astray \union {r}, astray \ {r}}
      BY <2>3 DEF Announce
    <3> HIDE DEF r
    <3>3. requests' \subseteq Requests
      <4>1. [adds |-> TRUE, rels |-> Sharing(r)] \in Requests
        BY <1>3 DEF Requests
      <4>2. requests \subseteq Requests
        BY DEF TypeInv, TypeOK
      <4> QED BY <3>2, <4>1, <4>2
    <3>4. astray' \subseteq Rels
      BY <3>1, <3>2 DEF TypeInv, TypeOK
    <3> QED BY <2>3, <3>3, <3>4, <1>5 DEF Announce, TypeInv, TypeOK, engine, broker, bounds
  <2>4. ASSUME NEW c \in Callers, RemoveMembership(c) PROVE TypeOK'
    <3> DEFINE r == doing[c].rel
               rels == {r} \union IF AnotherSimulationShares(r) THEN {} ELSE Sharing(r)
    <3>1. r \in Rels
      BY <2>4, <1>4 DEF RemoveMembership, Removes
    <3>2. rels \subseteq Rels
      BY <3>1, <1>3
    <3>3. Removes(c, rels)
      BY <2>4 DEF RemoveMembership
    <3> HIDE DEF rels
    <3>4. requests' \subseteq Requests
      <4>1. [adds |-> FALSE, rels |-> rels] \in Requests
        BY <3>2 DEF Requests
      <4>2. requests \subseteq Requests
        BY DEF TypeInv, TypeOK
      <4>3. requests' \in {requests, requests \union {[adds |-> FALSE, rels |-> rels]}}
        BY <3>3 DEF Removes
      <4> QED BY <4>1, <4>2, <4>3
    <3>5. astray' \subseteq Rels
      BY <3>1, <3>2, <3>3 DEF Removes, TypeInv, TypeOK
    <3> QED BY <3>3, <3>4, <3>5, <1>5 DEF Removes, TypeInv, TypeOK, engine, broker, bounds
  <2>5. ASSUME Subscribe \/ CatchUp PROVE TypeOK'
    BY <2>5 DEF Subscribe, CatchUp, Kept, TypeInv, TypeOK, engine, broker, bounds
  <2>6. ASSUME Follow PROVE TypeOK'
    BY <2>6 DEF Follow, FollowsWith, TypeInv, TypeOK, engine, bounds
  <2>7. ASSUME NEW r \in Rels, CatchUpWith(r) PROVE TypeOK'
    <3>1. members' \subseteq Rels /\ astray' \subseteq Rels /\ toCover' \subseteq Rels
      BY <2>7, <1>3 DEF CatchUpWith, TypeInv, TypeOK
    <3>2. faults \in Nat /\ faults' \in {faults, faults + 1}
      BY <2>7 DEF CatchUpWith, TypeInv, TypeOK
    <3>3. faults' \in Nat
      BY <3>2
    <3> QED BY <2>7, <3>1, <3>3 DEF CatchUpWith, TypeInv, TypeOK, engine, broker
  <2> QED BY <2>1, <2>2, <2>3, <2>4, <2>5, <2>6, <2>7
<1> QED BY <1>2, <1>6 DEF TypeInv

\* What a change that is heard has the stream do.
LEMMA HearCases ==
    ASSUME TypeInv, Hear
    PROVE  /\ doing[Stream] = Idle /\ subscription = "followed"
           /\ changes' \in Seq(Changes)
           /\ \/ UNCHANGED doing /\ subscription' \in {"followed", "broken"}
              \/ /\ UNCHANGED subscription
                 /\ \E r \in Kept, config \in Configs :
                      doing' = [doing EXCEPT ![Stream] = [step |-> "called", rel |-> r, config |-> config]]
<1> DEFINE c == Head(changes)
           old == entry[simulations[c.rel]].config
<1>1. changes # <<>> /\ changes \in Seq(Changes)
  BY DEF Hear, TypeInv, TypeOK
<1>2. c \in Changes /\ changes' \in Seq(Changes)
  BY <1>1, HeadTailProperties DEF Hear
<1>3. CASE simulations[c.rel] = None \/ c.value = Unreadable
  BY <1>2, <1>3 DEF Hear
<1>4. CASE ~(simulations[c.rel] = None \/ c.value = Unreadable) /\ c.value = Huge
  BY <1>2, <1>4 DEF Hear
<1>5. CASE ~(simulations[c.rel] = None \/ c.value = Unreadable) /\ c.value # Huge
  <2> DEFINE new == [old EXCEPT ![c.prop] = c.value]
  <2>1. c.rel \in Kept /\ c.prop \in Props /\ c.value \in Nat
    BY <1>2, <1>5, MetabolismAssumption DEF Changes, Kept
  <2>2. old \in Configs
    <3> DEFINE l == simulations[c.rel]
    <3>1. c.rel \in Rels /\ l # None /\ l \in Loops
      <4>1. c.rel \in Rels /\ simulations[c.rel] # None
        BY <2>1 DEF Kept
      <4>2. simulations \in [Rels -> Loops \union {None}]
        BY DEF TypeInv, TypeOK
      <4> HIDE DEF c
      <4> QED BY <4>1, <4>2
    <3>2. SimsAreEntries /\ EntriesAreStarted
      BY DEF TypeInv
    <3> HIDE DEF c
    <3>3. state[l] # "unused"
      BY <3>1, <3>2 DEF SimsAreEntries
    <3> HIDE DEF l
    <3>4. entry[l].config \in Configs
      BY <3>1, <3>2, <3>3 DEF EntriesAreStarted
    <3> QED BY <3>4 DEF l
  <2>3. new \in Configs
    BY <2>1, <2>2 DEF Configs, Props
  <2>4. /\ UNCHANGED subscription
        /\ \/ UNCHANGED doing
           \/ doing' = [doing EXCEPT ![Stream] = [step |-> "called", rel |-> c.rel, config |-> new]]
    BY <1>5 DEF Hear
  <2>5. doing[Stream] = Idle /\ subscription = "followed"
    BY DEF Hear
  <2> HIDE DEF new, c
  <2> QED BY <1>2, <2>1, <2>3, <2>4, <2>5
<1> QED BY <1>3, <1>4, <1>5

LEMMA HearType == ASSUME TypeInv, Hear PROVE TypeInv'
<1>1. doing' \in [Threads -> Tasks]
  <2>1. ASSUME NEW r \in Kept, NEW config \in Configs
        PROVE  [doing EXCEPT ![Stream] = [step |-> "called", rel |-> r, config |-> config]] \in [Threads -> Tasks]
    <3>1. [step |-> "called", rel |-> r, config |-> config] \in Tasks
      BY <2>1 DEF Tasks, Kept
    <3> QED BY <3>1, NoneIsNothing DEF TypeInv, TypeOK
  <2>2. doing \in [Threads -> Tasks]
    BY DEF TypeInv, TypeOK
  <2> QED BY <2>1, <2>2, HearCases
<1>2. changes' \in Seq(Changes) /\ subscription' \in {"followed", "broken"}
  BY HearCases
<1>3. TypeOK'
  BY <1>1, <1>2 DEF Hear, TypeInv, TypeOK, engine, bounds
<1>4. EntriesAreStarted' /\ SimsAreEntries'
  BY DEF Hear, engine, TypeInv, EntriesAreStarted, SimsAreEntries
<1> QED BY <1>3, <1>4 DEF TypeInv

LEMMA StoppingType ==
    ASSUME TypeInv, (\E l \in Loops : Ends(l)) \/ StopAll \/ StopWaits \/ StopEnds \/ StopAsync
    PROVE  TypeInv'
<1>1. GetAll \subseteq Loops
  BY DEF GetAll, Kept, TypeInv, TypeOK
<1>2. ASSUME NEW l \in Loops, Ends(l) PROVE TypeInv'
  <2>1. TypeOK'
    BY <1>2 DEF Ends, TypeInv, TypeOK, covered, broker, bounds
  <2>2. EntriesAreStarted' /\ SimsAreEntries'
    BY <1>2 DEF Ends, TypeInv, TypeOK, EntriesAreStarted, SimsAreEntries
  <2> QED BY <2>1, <2>2 DEF TypeInv
<1>3. ASSUME StopAll PROVE TypeInv'
  <2>1. calls \in Nat /\ calls' = calls + 1
    BY <1>3 DEF StopAll, StopsAll, TypeInv, TypeOK
  <2>2. calls' \in Nat
    BY <2>1
  <2>3. TypeOK'
    BY <1>1, <1>3, <2>2 DEF StopAll, StopsAll, TypeInv, TypeOK, covered, broker
  <2>4. EntriesAreStarted' /\ SimsAreEntries'
    BY <1>3 DEF StopAll, StopsAll, TypeInv, EntriesAreStarted, SimsAreEntries
  <2> QED BY <2>3, <2>4 DEF TypeInv
<1>4. ASSUME StopWaits PROVE TypeInv'
  <2>1. TypeOK'
    BY <1>1, <1>4 DEF StopWaits, TypeInv, TypeOK, engine, covered, broker, bounds
  <2>2. EntriesAreStarted' /\ SimsAreEntries'
    BY <1>4 DEF StopWaits, engine, TypeInv, EntriesAreStarted, SimsAreEntries
  <2> QED BY <2>1, <2>2 DEF TypeInv
<1>5. ASSUME StopEnds PROVE TypeInv'
  <2>1. simulations' \in {simulations, [r \in Rels |-> None]} /\ stop' \in {"failed", "over"}
    BY <1>5 DEF StopEnds
  <2>2. TypeOK'
    BY <1>5, <2>1 DEF StopEnds, TypeInv, TypeOK, covered, broker, bounds
  <2>3. EntriesAreStarted' /\ SimsAreEntries'
    BY <1>5, <2>1 DEF StopEnds, TypeInv, EntriesAreStarted, SimsAreEntries
  <2> QED BY <2>2, <2>3 DEF TypeInv
<1>6. ASSUME StopAsync PROVE TypeInv'
  <2>1. doing' \in [Threads -> Tasks]
    BY <1>6 DEF StopAsync, TypeInv, TypeOK, Tasks
  <2>a. changes' \in Seq(Changes)
    BY <1>6 DEF StopAsync
  <2>2. TypeOK'
    BY <1>6, <2>1, <2>a DEF StopAsync, TypeInv, TypeOK, engine, bounds
  <2>3. EntriesAreStarted' /\ SimsAreEntries'
    BY <1>6 DEF StopAsync, engine, TypeInv, EntriesAreStarted, SimsAreEntries
  <2> QED BY <2>2, <2>3 DEF TypeInv
<1> QED BY <1>2, <1>3, <1>4, <1>5, <1>6

LEMMA NextTypeInv == TypeInv /\ [Next]_vars => TypeInv'
<1> SUFFICES ASSUME TypeInv, [Next]_vars PROVE TypeInv'
  OBVIOUS
<1>1. CASE UNCHANGED vars
  <2>1. TypeOK'
    BY <1>1, Zenon DEF vars, engine, covered, broker, bounds, TypeInv, TypeOK
  <2>2. EntriesAreStarted' /\ SimsAreEntries'
    BY <1>1, Zenon DEF vars, engine, TypeInv, EntriesAreStarted, SimsAreEntries
  <2> QED BY <2>1, <2>2 DEF TypeInv
<1>2. CASE Next
  BY <1>2, EditType, HandType, RefusedType, TakeOutType, PutInType, CancelType, MembershipType, HearType,
     StoppingType DEF Next
<1> QED BY <1>1, <1>2

-----------------------------------------------------------------------------
(* Loops are found *)

LEMMA InitFoundInv == Init => FoundInv
BY IdleStep DEF Init, FoundInv, OutToStart, TwoStarting, StoppedRuns, LoopsAreFound, Runs

\* A step that starts nothing, takes nothing out and keeps who is between the halves of a start.
LEMMA FoundInvKept ==
    ASSUME FoundInv, UNCHANGED <<simulations, entry, overlapped, late>>,
           \A l \in Loops : Runs(l)' => Runs(l),
           stop' = stop \/ stop \notin {"no", "over"},
           \A t \in Threads : doing'[t].step = "starts" => doing'[t] = doing[t]
    PROVE  FoundInv'
<1>1. OutToStart'
  BY DEF FoundInv, OutToStart
<1>2. TwoStarting'
  BY DEF FoundInv, TwoStarting
<1>3. LoopsAreFound'
  BY DEF FoundInv, LoopsAreFound, StoppedRuns
<1>4. StoppedRuns'
  BY DEF FoundInv, StoppedRuns
<1> QED BY <1>1, <1>2, <1>3, <1>4 DEF FoundInv

LEMMA TakeOutFound == ASSUME TypeInv, FoundInv, NEW t \in Threads, TakeOut(t) PROVE FoundInv'
<1> DEFINE r == doing[t].rel
<1>1. /\ doing[t] # Idle /\ doing' = [doing EXCEPT ![t].step = "starts"]
      /\ simulations' = [simulations EXCEPT ![r] = None]
      /\ cancelled' = IF simulations[r] # None THEN cancelled \union {simulations[r]} ELSE cancelled
      /\ overlapped' = IF Steps(r, "starts") # {} THEN overlapped \union {r} ELSE overlapped
      /\ UNCHANGED <<entry, state, stop, late>>
  BY DEF TakeOut, TakesOut
<1>2. r \in Rels /\ doing[t].step \in {"called", "starts", "announces"}
      /\ doing[t] \in [step: {"called", "starts", "announces"}, rel: Rels, config: Configs]
  BY <1>1, InHand DEF TypeInv, TakeOut, TakesOut
<1>3. /\ doing'[t].step = "starts" /\ doing'[t].rel = r
      /\ \A u \in Threads : u # t => doing'[u] = doing[u]
  BY <1>1, <1>2 DEF TypeInv, TypeOK
<1>4. \A u \in Threads : doing[u].step = "starts" /\ doing[u].rel = r => r \in overlapped'
  <2> SUFFICES ASSUME NEW u \in Threads, doing[u].step = "starts", doing[u].rel = r PROVE r \in overlapped'
    OBVIOUS
  <2>1. doing[u] # Idle
    BY IdleStep
  <2>2. u \in Steps(r, "starts")
    BY <2>1 DEF Steps, About
  <2> QED BY <1>1, <2>2
<1> HIDE DEF r
<1>5. overlapped \subseteq overlapped' /\ simulations \in [Rels -> Loops \union {None}]
  BY <1>1 DEF TypeInv, TypeOK
<1>6. OutToStart'
  <2> SUFFICES ASSUME NEW u \in Threads, doing'[u].step = "starts", doing'[u].rel \notin overlapped'
               PROVE  simulations'[doing'[u].rel] = None
    BY DEF OutToStart
  <2>1. CASE doing'[u].rel = r
    BY <1>1, <1>2, <1>5, <2>1
  <2>2. CASE doing'[u].rel # r
    <3>1. doing'[u] = doing[u] /\ simulations[doing[u].rel] = None
      BY <1>3, <1>5, <2>2 DEF FoundInv, OutToStart
    <3>2. doing[u].rel \in Rels
      BY <3>1, InHand, IdleStep DEF TypeInv
    <3> QED BY <1>1, <1>5, <2>2, <3>1, <3>2
  <2> QED BY <2>1, <2>2
<1>7. TwoStarting'
  BY <1>3, <1>4, <1>5 DEF FoundInv, TwoStarting
<1>8. LoopsAreFound'
  <2> SUFFICES ASSUME NEW l \in Loops, Runs(l)', entry'[l].rel \notin overlapped', stop' = "over" => l \notin late'
               PROVE  simulations'[entry'[l].rel] = l
    BY DEF LoopsAreFound
  <2>1. state[l] = "runs" /\ l \notin cancelled'
    BY <1>1 DEF Runs
  <2>2. Runs(l) /\ entry[l].rel \in Rels /\ entry[l].rel \notin overlapped
    BY <1>1, <1>5, <2>1 DEF Runs, TypeInv, EntriesAreStarted
  <2>3. simulations[entry[l].rel] = l
    BY <1>1, <2>2 DEF FoundInv, LoopsAreFound
  <2>4. entry[l].rel # r
    BY <1>1, <2>1, <2>3, NoneIsNothing
  <2> QED BY <1>1, <1>5, <2>2, <2>3, <2>4
<1>9. StoppedRuns'
  <2>1. \A l \in Loops : Runs(l)' => Runs(l) /\ entry'[l] = entry[l]
    BY <1>1 DEF Runs
  <2> QED BY <1>1, <1>5, <2>1 DEF FoundInv, StoppedRuns
<1> QED BY <1>6, <1>7, <1>8, <1>9 DEF FoundInv

LEMMA PutInFound == ASSUME TypeInv, FoundInv, NEW t \in Threads, PutIn(t) PROVE FoundInv'
<1> DEFINE r == doing[t].rel
<1>1. /\ doing[t] # Idle /\ doing[t].step = "starts"
      /\ doing' = [doing EXCEPT ![t] = IF t = Stream THEN Idle ELSE [doing[t] EXCEPT !.step = "announces"]]
      /\ UNCHANGED <<cancelled, overlapped, stop>>
  BY DEF PutIn, TypeInv, TypeOK
<1>2. r \in Rels /\ doing[t] \in [step: {"called", "starts", "announces"}, rel: Rels, config: Configs]
  BY <1>1, InHand DEF TypeInv
<1>3. PICK l \in Loops : /\ state[l] = "unused"
                         /\ simulations' = [simulations EXCEPT ![r] = l]
                         /\ entry' = [entry EXCEPT ![l] = [rel |-> r, config |-> doing[t].config]]
                         /\ \E s \in {"runs", "broken"} : state' = [state EXCEPT ![l] = s]
                         /\ late' = IF stop = "no" THEN late ELSE late \union {l}
  BY FreshLoop
<1>4. /\ doing'[t].step # "starts"
      /\ \A u \in Threads : u # t => doing'[u] = doing[u]
  BY <1>1, <1>2, IdleStep DEF TypeInv, TypeOK
<1>5. /\ simulations \in [Rels -> Loops \union {None}] /\ entry \in [Loops -> Entries]
      /\ state \in [Loops -> {"unused", "runs", "broken", "over"}]
  BY DEF TypeInv, TypeOK
<1>6. OutToStart'
  <2> SUFFICES ASSUME NEW u \in Threads, doing'[u].step = "starts", doing'[u].rel \notin overlapped'
               PROVE  simulations'[doing'[u].rel] = None
    BY DEF OutToStart
  <2>1. u # t /\ doing'[u] = doing[u] /\ doing[u].rel \notin overlapped
    BY <1>1, <1>4
  <2>2. simulations[doing[u].rel] = None /\ doing[u].rel # r
    BY <1>1, <2>1 DEF FoundInv, OutToStart, TwoStarting
  <2>3. doing[u].rel \in Rels
    BY <2>1, InHand, IdleStep DEF TypeInv
  <2> QED BY <1>3, <1>5, <2>1, <2>2, <2>3
<1>7. TwoStarting'
  BY <1>1, <1>4 DEF FoundInv, TwoStarting
<1>8. LoopsAreFound'
  <2> SUFFICES ASSUME NEW k \in Loops, Runs(k)', entry'[k].rel \notin overlapped', stop' = "over" => k \notin late'
               PROVE  simulations'[entry'[k].rel] = k
    BY DEF LoopsAreFound
  <2>1. CASE k = l
    BY <1>2, <1>3, <1>5, <2>1
  <2>2. CASE k # l
    <3>1. entry'[k] = entry[k] /\ state'[k] = state[k]
      BY <1>3, <1>5, <2>2
    <3>2. Runs(k) /\ entry[k].rel \in Rels /\ entry[k].rel \notin overlapped
      BY <1>1, <3>1 DEF Runs, TypeInv, EntriesAreStarted
    <3>3. simulations[entry[k].rel] = k
      BY <1>1, <1>3, <3>2 DEF FoundInv, LoopsAreFound
    <3>4. entry[k].rel # r
      BY <1>1, <3>2, <3>3, NoneIsNothing DEF FoundInv, OutToStart
    <3> QED BY <1>3, <1>5, <3>1, <3>2, <3>3, <3>4
  <2> QED BY <2>1, <2>2
<1>9. StoppedRuns'
  <2>1. \A k \in Loops \ {l} : Runs(k)' => Runs(k) /\ entry'[k] = entry[k]
    BY <1>1, <1>3, <1>5 DEF Runs
  <2> QED BY <1>1, <1>3, <2>1 DEF FoundInv, StoppedRuns
<1> QED BY <1>6, <1>7, <1>8, <1>9 DEF FoundInv

LEMMA CancelFound == ASSUME TypeInv, FoundInv, NEW c \in Callers, NEW r \in Rels, Cancel(c, r) PROVE FoundInv'
<1>1. /\ simulations' = [simulations EXCEPT ![r] = None]
      /\ cancelled' = cancelled \union {simulations[r]}
      /\ UNCHANGED <<entry, state, stop, overlapped, late>>
      /\ simulations \in [Rels -> Loops \union {None}]
  BY DEF Cancel, TypeInv, TypeOK
<1>2. \A t \in Threads : doing'[t].step = "starts" => doing'[t] = doing[t]
  BY NoneIsNothing DEF Cancel, TypeInv, TypeOK
<1>3. OutToStart'
  <2> SUFFICES ASSUME NEW u \in Threads, doing'[u].step = "starts", doing'[u].rel \notin overlapped'
               PROVE  simulations'[doing'[u].rel] = None
    BY DEF OutToStart
  <2>1. doing'[u] = doing[u] /\ simulations[doing[u].rel] = None
    BY <1>1, <1>2 DEF FoundInv, OutToStart
  <2>2. doing[u].rel \in Rels
    BY <2>1, InHand, IdleStep DEF TypeInv
  <2> QED BY <1>1, <2>1, <2>2
<1>4. TwoStarting'
  BY <1>1, <1>2 DEF FoundInv, TwoStarting
<1>5. LoopsAreFound'
  <2> SUFFICES ASSUME NEW l \in Loops, Runs(l)', entry'[l].rel \notin overlapped', stop' = "over" => l \notin late'
               PROVE  simulations'[entry'[l].rel] = l
    BY DEF LoopsAreFound
  <2>1. Runs(l) /\ l # simulations[r] /\ entry[l].rel \in Rels /\ entry[l].rel \notin overlapped
    BY <1>1 DEF Runs, TypeInv, EntriesAreStarted
  <2>2. simulations[entry[l].rel] = l
    BY <1>1, <2>1 DEF FoundInv, LoopsAreFound
  <2> QED BY <1>1, <2>1, <2>2
<1>6. StoppedRuns'
  <2>1. \A l \in Loops : Runs(l)' => Runs(l)
    BY <1>1 DEF Runs
  <2> QED BY <1>1, <2>1 DEF FoundInv, StoppedRuns
<1> QED BY <1>3, <1>4, <1>5, <1>6 DEF FoundInv

\* What runs at a stop can be found, and is cancelled.
LEMMA StopAllFound == ASSUME TypeInv, FoundInv, StopAll PROVE FoundInv'
<1>1. /\ stop = "no" /\ cancelled' = cancelled \union GetAll
      /\ UNCHANGED <<simulations, entry, state, doing, overlapped, late>>
  BY DEF StopAll, StopsAll
<1>2. stop' # "over" /\ \A l \in Loops : Runs(l)' => Runs(l) /\ l \notin GetAll
  BY <1>1 DEF StopAll, StopsAll, Runs
<1>3. ASSUME NEW l \in Loops, Runs(l), entry[l].rel \notin overlapped PROVE l \in GetAll
  <2>1. entry[l].rel \in Rels
    BY <1>3 DEF Runs, TypeInv, EntriesAreStarted
  <2>2. simulations[entry[l].rel] = l
    BY <1>1, <1>3 DEF FoundInv, LoopsAreFound
  <2> QED BY <2>1, <2>2, NoneIsNothing DEF GetAll, Kept
<1>4. OutToStart' /\ TwoStarting'
  BY <1>1 DEF FoundInv, OutToStart, TwoStarting
<1>5. StoppedRuns' /\ LoopsAreFound'
  BY <1>1, <1>2, <1>3 DEF StoppedRuns, LoopsAreFound
<1> QED BY <1>4, <1>5 DEF FoundInv

LEMMA StopEndsFound == ASSUME TypeInv, FoundInv, StopEnds PROVE FoundInv'
<1>1. \/ UNCHANGED simulations /\ stop' = "failed"
      \/ simulations' = [r \in Rels |-> None] /\ stop' = "over"
  BY DEF StopEnds
<1>2. stop = "waits" /\ UNCHANGED <<entry, state, cancelled, doing, overlapped, late>>
  BY DEF StopEnds
<1>3. OutToStart'
  <2> SUFFICES ASSUME NEW u \in Threads, doing[u].step = "starts", doing[u].rel \notin overlapped
               PROVE  simulations'[doing[u].rel] = None
    BY <1>2 DEF OutToStart
  <2>1. doing[u].rel \in Rels
    BY InHand, IdleStep DEF TypeInv
  <2> QED BY <1>1, <2>1 DEF FoundInv, OutToStart
<1>4. TwoStarting'
  BY <1>2 DEF FoundInv, TwoStarting
<1>5. StoppedRuns'
  BY <1>1, <1>2 DEF FoundInv, StoppedRuns, Runs
<1>6. LoopsAreFound'
  BY <1>1, <1>2 DEF FoundInv, LoopsAreFound, StoppedRuns, Runs
<1> QED BY <1>3, <1>4, <1>5, <1>6 DEF FoundInv

LEMMA NextFoundInv == TypeInv /\ FoundInv /\ [Next]_vars => FoundInv'
<1> SUFFICES ASSUME TypeInv, FoundInv, [Next]_vars PROVE FoundInv'
  OBVIOUS
<1>1. ASSUME UNCHANGED <<engine, doing, overlapped, late>>, stop' = stop \/ stop \notin {"no", "over"} PROVE FoundInv'
  BY <1>1, FoundInvKept DEF engine, Runs
<1>2. ASSUME NEW c \in Callers, NEW task, task.step # "starts", doing' = [doing EXCEPT ![c] = task],
             UNCHANGED <<engine, overlapped, late, stop>>
      PROVE  FoundInv'
  <2>1. \A t \in Threads : doing'[t].step = "starts" => doing'[t] = doing[t]
    BY <1>2, NoneIsNothing DEF TypeInv, TypeOK
  <2> QED BY <1>2, <2>1, FoundInvKept DEF engine, Runs
<1>3. CASE UNCHANGED vars
  BY <1>1, <1>3 DEF vars
<1>4. ASSUME NEW r \in Edited, NEW p \in Props, NEW v \in Quantities \union Frequencies, Edit(r, p, v)
      PROVE  FoundInv'
  BY <1>1, <1>4 DEF Edit
<1>5. ASSUME NEW q \in requests, Arrives(q) \/ Fails(q) PROVE FoundInv'
  BY <1>1, <1>5 DEF Arrives, Fails
<1>6. ASSUME NEW c \in Callers, NEW r \in Rels, Handle(c, r) PROVE FoundInv'
  <2>1. [step |-> "called", rel |-> r, config |-> ConfigOf(stated[r])].step # "starts"
    OBVIOUS
  <2> QED BY <1>2, <1>6, <2>1 DEF Handle
<1>7. ASSUME NEW c \in Callers, Refused(c) \/ Announce(c) \/ RemoveMembership(c) PROVE FoundInv'
  BY <1>2, <1>7, IdleStep DEF Refused, Announce, RemoveMembership, Removes
<1>8. CASE Subscribe \/ CatchUp \/ Follow \/ \E r \in Rels : CatchUpWith(r)
  BY <1>1, <1>8 DEF Subscribe, CatchUp, Follow, FollowsWith, CatchUpWith
<1>9. CASE Hear
  <2>1. UNCHANGED <<engine, overlapped, late, stop>>
    BY <1>9 DEF Hear
  <2>2. \A t \in Threads : doing'[t].step = "starts" => doing'[t] = doing[t]
    <3>1. ASSUME NEW r \in Kept, NEW config \in Configs,
                 doing' = [doing EXCEPT ![Stream] = [step |-> "called", rel |-> r, config |-> config]]
          PROVE  \A t \in Threads : doing'[t].step = "starts" => doing'[t] = doing[t]
      BY <3>1, NoneIsNothing DEF TypeInv, TypeOK
    <3> QED BY <1>9, <3>1, HearCases
  <2> QED BY <2>1, <2>2, FoundInvKept DEF engine, Runs
<1>10. ASSUME NEW l \in Loops, Ends(l) PROVE FoundInv'
  <2>1. \A k \in Loops : Runs(k)' => Runs(k)
    BY <1>10 DEF Ends, Runs, TypeInv, TypeOK
  <2> QED BY <1>10, <2>1, FoundInvKept DEF Ends
<1>11. CASE StopAll
  BY <1>11, StopAllFound
<1>12. CASE StopWaits
  BY <1>1, <1>12 DEF StopWaits
<1>13. CASE StopAsync
  <2>1. \A t \in Threads : doing'[t].step = "starts" => doing'[t] = doing[t]
    BY <1>13, IdleStep DEF StopAsync, TypeInv, TypeOK
  <2> QED BY <1>13, <2>1, FoundInvKept DEF StopAsync, engine, Runs
<1> QED BY <1>3, <1>4, <1>5, <1>6, <1>7, <1>8, <1>9, <1>10, <1>11, <1>12, <1>13,
           TakeOutFound, PutInFound, CancelFound, StopEndsFound DEF Next

-----------------------------------------------------------------------------
(* What has a simulation is covered *)

LEMMA InitCoverInv == Init => CoverInv
BY NoneIsNothing DEF Init, CoverInv, StreamIsOpen, ClosedAsksNothing, NeededIsCovered, RemovalsAreSpare

\* A step that needs no more to be covered and leaves requests and members as they are.
LEMMA CoverInvKept ==
    ASSUME CoverInv, Needed' \subseteq Needed, UNCHANGED <<toCover, requests, members, astray>>,
           subscription' \in {"none", "over"} => subscription' = subscription,
           subscription' \in {"caught up", "followed", "broken"}
             => subscription \in {"caught up", "followed", "broken"},
           stop = "over" => stop' = "over",
           \A r \in Rels : Steps(r, "announces") # {} => Steps(r, "announces")' # {},
           StreamIsOpen'
    PROVE  CoverInv'
<1>1. Needed' \subseteq Rels
  BY DEF Needed, Kept
<1>2. ClosedAsksNothing'
  BY DEF CoverInv, ClosedAsksNothing
<1>3. NeededIsCovered'
  <2> SUFFICES ASSUME subscription' \in {"caught up", "followed", "broken"}, stop' # "over",
                      NEW r \in Needed' \ astray'
               PROVE  r \in members' \/ Coming(r)'
    BY DEF NeededIsCovered
  <2>1. r \in members \/ Coming(r)
    BY DEF CoverInv, NeededIsCovered
  <2> QED BY <1>1, <2>1 DEF Coming
<1>4. RemovalsAreSpare'
  BY <1>1 DEF CoverInv, RemovalsAreSpare
<1> QED BY <1>2, <1>3, <1>4 DEF CoverInv

\* A step of a request that neither announces before nor after it.
LEMMA CallerSteps ==
    ASSUME TypeInv, NEW c \in Callers, NEW task, doing' = [doing EXCEPT ![c] = task],
           doing[c].step # "announces"
    PROVE  /\ doing'[Stream] = doing[Stream]
           /\ \A r \in Rels : Stream \in About(r)' <=> Stream \in About(r)
           /\ \A r \in Rels : Steps(r, "announces") # {} => Steps(r, "announces")' # {}
<1>1. doing'[Stream] = doing[Stream] /\ \A t \in Threads : t # c => doing'[t] = doing[t]
  BY NoneIsNothing DEF TypeInv, TypeOK
<1>2. \A r \in Rels : Stream \in About(r)' <=> Stream \in About(r)
  BY <1>1, NoneIsNothing DEF About
<1>3. \A r \in Rels : Steps(r, "announces") \subseteq Steps(r, "announces")'
  BY <1>1 DEF Steps, About
<1> QED BY <1>1, <1>2, <1>3

LEMMA TakeOutCovered == ASSUME TypeInv, CoverInv, NEW t \in Threads, TakeOut(t) PROVE CoverInv'
<1> DEFINE r == doing[t].rel
<1>1. /\ doing[t] # Idle /\ doing[t].step = "called" /\ doing' = [doing EXCEPT ![t].step = "starts"]
      /\ simulations' = [simulations EXCEPT ![r] = None]
      /\ UNCHANGED <<covered, stop>>
  BY DEF TakeOut, TakesOut
<1>2. r \in Rels /\ doing[t] \in [step: {"called", "starts", "announces"}, rel: Rels, config: Configs]
  BY <1>1, InHand DEF TypeInv
<1>3. /\ doing'[t].rel = doing[t].rel
      /\ \A u \in Threads : u # t => doing'[u] = doing[u]
  BY <1>1, <1>2 DEF TypeInv, TypeOK
<1>4. \A q \in Rels : Stream \in About(q)' => Stream \in About(q)
  BY <1>1, <1>3, NoneIsNothing DEF About
<1>5. \A q \in Rels : Steps(q, "announces") \subseteq Steps(q, "announces")'
  BY <1>1, <1>3 DEF Steps, About
<1>6. doing'[Stream] # Idle => doing[Stream] # Idle
  BY <1>1, <1>3, NoneIsNothing
<1>7. Kept' \subseteq Kept
  BY <1>1, <1>2 DEF Kept, TypeInv, TypeOK
<1>8. Needed' \subseteq Needed
  BY <1>4, <1>7 DEF Needed
<1>9. StreamIsOpen'
  BY <1>1, <1>6 DEF CoverInv, StreamIsOpen, covered
<1> QED BY <1>1, <1>5, <1>8, <1>9, CoverInvKept DEF covered

LEMMA PutInCovered ==
    ASSUME TypeInv, CoverInv, NEW t \in Threads, PutIn(t), NEW r, r = doing[t].rel
    PROVE  CoverInv'
<1>1. /\ doing[t] # Idle /\ doing[t].step = "starts"
      /\ doing' = [doing EXCEPT ![t] = IF t = Stream THEN Idle ELSE [doing[t] EXCEPT !.step = "announces"]]
      /\ UNCHANGED <<covered, stop>>
  BY DEF PutIn, TypeInv, TypeOK
<1>2. r \in Rels /\ doing[t] \in [step: {"called", "starts", "announces"}, rel: Rels, config: Configs]
  BY <1>1, InHand DEF TypeInv
<1>3. /\ doing'[t] = IF t = Stream THEN Idle ELSE [doing[t] EXCEPT !.step = "announces"]
      /\ \A u \in Threads : u # t => doing'[u] = doing[u]
  BY <1>1 DEF TypeInv, TypeOK
<1>4. Kept' \subseteq Kept \union {r}
  <2>1. PICK l \in Loops : simulations' = [simulations EXCEPT ![r] = l]
    BY FreshLoop
  <2> QED BY <1>2, <2>1 DEF Kept, TypeInv, TypeOK
<1>5. \A q \in Rels : Steps(q, "announces") \subseteq Steps(q, "announces")'
  BY <1>1, <1>3 DEF Steps, About
<1>6. doing'[Stream] # Idle => doing'[Stream] = doing[Stream]
  BY <1>1, <1>3, NoneIsNothing
<1>7. \A q \in Rels : Stream \in About(q)' => Stream \in About(q)
  BY <1>6 DEF About
<1>10. StreamIsOpen'
  BY <1>1, <1>6 DEF covered, CoverInv, StreamIsOpen
<1>8. CASE t = Stream
  <2>1. r \in Needed
    BY <1>1, <1>2, <1>8, NoneIsNothing DEF Needed, About
  <2>2. Needed' \subseteq Needed
    BY <1>4, <1>7, <2>1 DEF Needed
  <2> QED BY <1>1, <1>5, <1>10, <2>2, CoverInvKept DEF covered
<1>9. CASE t # Stream
  <2>1. t \in Steps(r, "announces")'
    <3>1. doing'[t].step = "announces" /\ doing'[t].rel = r
      BY <1>2, <1>3, <1>9
    <3>2. doing'[t] # Idle
      BY <3>1, IdleStep
    <3> QED BY <3>1, <3>2 DEF Steps, About
  <2>2. Needed' \subseteq Needed \union {r} /\ Needed' \subseteq Rels
    BY <1>4, <1>7 DEF Needed, Kept
  <2>3. ClosedAsksNothing'
    BY <1>1 DEF covered, CoverInv, ClosedAsksNothing
  <2>4. NeededIsCovered'
    <3> SUFFICES ASSUME subscription' \in {"caught up", "followed", "broken"}, stop' # "over",
                        NEW q \in Needed' \ astray'
                 PROVE  q \in members' \/ Coming(q)'
      BY DEF NeededIsCovered
    <3>1. CASE q = r
      <4>1. Coming(r)'
        BY <2>1 DEF Coming
      <4> QED BY <3>1, <4>1
    <3>2. CASE q # r
      <4>1. q \in members \/ Coming(q)
        BY <1>1, <2>2, <3>2 DEF covered, CoverInv, NeededIsCovered
      <4> QED BY <1>1, <1>5, <2>2, <4>1 DEF covered, Coming
    <3> QED BY <3>1, <3>2
  <2>5. RemovalsAreSpare'
    <3> SUFFICES ASSUME NEW m \in requests', NEW q \in Needed', ~m.adds, q \in m.rels
                 PROVE  q \in astray' \/ Steps(q, "announces")' # {}
      BY DEF RemovalsAreSpare
    <3>1. CASE q = r
      <4>1. Steps(r, "announces")' # {}
        BY <2>1
      <4> QED BY <3>1, <4>1
    <3>2. CASE q # r
      <4>1. q \in astray \/ Steps(q, "announces") # {}
        BY <1>1, <2>2, <3>2 DEF covered, CoverInv, RemovalsAreSpare
      <4> QED BY <1>1, <1>5, <2>2, <4>1 DEF covered
    <3> QED BY <3>1, <3>2
  <2> QED BY <1>10, <2>3, <2>4, <2>5 DEF CoverInv
<1> QED BY <1>8, <1>9

LEMMA AnnounceCovered ==
    ASSUME TypeInv, CoverInv, NEW c \in Callers, Announce(c), NEW r, r = doing[c].rel
    PROVE  CoverInv'
<1> DEFINE new == [adds |-> TRUE, rels |-> Sharing(r)]
<1>1. /\ doing[c] # Idle /\ doing[c].step = "announces" /\ doing' = [doing EXCEPT ![c] = Idle]
      /\ UNCHANGED <<engine, subscription, toCover, members, stop>>
  BY DEF Announce
<1>2. /\ doing'[Stream] = doing[Stream] /\ \A t \in Threads : t # c => doing'[t] = doing[t]
  BY <1>1, NoneIsNothing DEF TypeInv, TypeOK
<1>3. Needed' = Needed /\ Needed \subseteq Rels
  BY <1>1, <1>2, NoneIsNothing DEF Needed, About, Kept, engine
<1>4. \A q \in Rels : q # r => Steps(q, "announces") \subseteq Steps(q, "announces")'
  BY <1>2 DEF Steps, About
<1>5. StreamIsOpen'
  BY <1>1, <1>2 DEF CoverInv, StreamIsOpen
<1>6. r \in Rels /\ r \in Sharing(r)
  BY <1>1, NoneIsNothing, InHand DEF TypeInv, Sharing
<1>7. CASE ~(HasId /\ subscription # "over")
  <2>1. NeededIsCovered'
    BY <1>1, <1>7 DEF HasId, NeededIsCovered
  <2>2. requests' = {}
    BY <1>7 DEF Announce, HasId, CoverInv, ClosedAsksNothing
  <2> QED BY <1>5, <2>1, <2>2 DEF CoverInv, ClosedAsksNothing, RemovalsAreSpare
<1>8. CASE HasId /\ subscription # "over"
  <2>1. /\ requests' = requests \union {new}
        /\ astray' = IF \E q \in requests : ~q.adds /\ r \in q.rels THEN astray \union {r} ELSE astray \ {r}
    BY <1>8 DEF Announce
  <2>2. new.adds /\ new.rels = Sharing(r)
    OBVIOUS
  <2> HIDE DEF new
  <2>3. NeededIsCovered'
    <3> SUFFICES ASSUME subscription' \in {"caught up", "followed", "broken"}, stop' # "over",
                        NEW q \in Needed' \ astray'
                 PROVE  q \in members' \/ Coming(q)'
      BY DEF NeededIsCovered
    <3>1. CASE q = r
      BY <1>6, <2>1, <2>2, <3>1 DEF Coming
    <3>2. CASE q # r
      <4>1. q \in members \/ Coming(q)
        BY <1>1, <1>3, <2>1, <3>2 DEF CoverInv, NeededIsCovered
      <4> QED BY <1>1, <1>3, <1>4, <2>1, <3>2, <4>1 DEF Coming
    <3> QED BY <3>1, <3>2
  <2>4. RemovalsAreSpare'
    <3> SUFFICES ASSUME NEW m \in requests', NEW q \in Needed, ~m.adds, q \in m.rels
                 PROVE  q \in astray' \/ Steps(q, "announces")' # {}
      BY <1>3 DEF RemovalsAreSpare
    <3>1. m \in requests
      BY <2>1, <2>2
    <3>2. CASE q = r
      BY <2>1, <3>1, <3>2
    <3>3. CASE q # r
      <4>1. q \in astray \/ Steps(q, "announces") # {}
        BY <3>1 DEF CoverInv, RemovalsAreSpare
      <4> QED BY <1>3, <1>4, <2>1, <3>3, <4>1
    <3> QED BY <3>2, <3>3
  <2>5. ClosedAsksNothing'
    BY <1>1, <1>8 DEF HasId, ClosedAsksNothing
  <2> QED BY <1>5, <2>3, <2>4, <2>5 DEF CoverInv
<1> QED BY <1>7, <1>8

\* A removal leaves out no simulation that shares the subject, and the stream's own is seen in hand.
LEMMA RemovalCovered ==
    ASSUME TypeInv, CoverInv, NEW c \in Callers, RemoveMembership(c), NEW r, r = doing[c].rel
    PROVE  CoverInv'
<1> DEFINE rels == {r} \union IF AnotherSimulationShares(r) THEN {} ELSE Sharing(r)
           new == [adds |-> FALSE, rels |-> rels]
<1>1. /\ doing[c] # Idle /\ doing[c].step = "drops" /\ doing' = [doing EXCEPT ![c] = Idle]
      /\ UNCHANGED <<engine, subscription, toCover, members, stop>>
  BY DEF RemoveMembership, Removes
<1>2. /\ doing'[Stream] = doing[Stream]
      /\ \A q \in Rels : Steps(q, "announces") # {} => Steps(q, "announces")' # {}
  BY <1>1, CallerSteps
<1>3. Needed' = Needed /\ Needed \subseteq Rels
  BY <1>1, <1>2, NoneIsNothing DEF Needed, About, Kept, engine
<1>4. StreamIsOpen'
  BY <1>1, <1>2 DEF CoverInv, StreamIsOpen
<1>5. CASE ~(HasId /\ subscription # "over")
  <2>1. UNCHANGED <<requests, astray>>
    BY <1>5 DEF RemoveMembership, Removes
  <2> QED BY <1>1, <1>2, <1>3, <1>4, <2>1, CoverInvKept
<1>6. CASE HasId /\ subscription # "over"
  <2>1. /\ requests' = requests \union {new}
        /\ astray' = astray \union ({r} \intersect Kept) \union {q \in rels : About(q) \ {c} # {}}
    BY <1>6 DEF RemoveMembership, Removes
  <2>2. \A q \in Needed : q \in rels => q \in astray'
    <3> SUFFICES ASSUME NEW q \in Needed, q \in rels PROVE q \in astray'
      OBVIOUS
    <3>1. CASE Stream \in About(q)
      BY <2>1, <3>1, NoneIsNothing
    <3>2. CASE q \in Kept
      <4>1. CASE q = r
        BY <2>1, <3>2, <4>1
      <4>2. CASE q # r
        BY <3>2, <4>2 DEF Sharing, AnotherSimulationShares
      <4> QED BY <4>1, <4>2
    <3> QED BY <3>1, <3>2 DEF Needed
  <2>3. ~new.adds /\ new.rels = rels
    OBVIOUS
  <2> HIDE DEF new, rels
  <2>4. NeededIsCovered'
    <3> SUFFICES ASSUME subscription' \in {"caught up", "followed", "broken"}, stop' # "over",
                        NEW q \in Needed' \ astray'
                 PROVE  q \in members' \/ Coming(q)'
      BY DEF NeededIsCovered
    <3>1. q \in members \/ Coming(q)
      BY <1>1, <1>3, <2>1 DEF CoverInv, NeededIsCovered
    <3> QED BY <1>1, <1>2, <1>3, <2>1, <3>1 DEF Coming
  <2>5. RemovalsAreSpare'
    <3> SUFFICES ASSUME NEW m \in requests', NEW q \in Needed, ~m.adds, q \in m.rels
                 PROVE  q \in astray' \/ Steps(q, "announces")' # {}
      BY <1>3 DEF RemovalsAreSpare
    <3>1. CASE m = new
      BY <2>2, <2>3, <3>1
    <3>2. CASE m \in requests
      <4>1. q \in astray \/ Steps(q, "announces") # {}
        BY <3>2 DEF CoverInv, RemovalsAreSpare
      <4> QED BY <1>2, <1>3, <2>1, <4>1
    <3> QED BY <2>1, <3>1, <3>2
  <2>6. ClosedAsksNothing'
    BY <1>1, <1>6 DEF HasId, ClosedAsksNothing
  <2> QED BY <1>4, <2>4, <2>5, <2>6 DEF CoverInv
<1> QED BY <1>5, <1>6

\* Membership requests that arrive or fail.
LEMMA ArrivesCovered == ASSUME TypeInv, CoverInv, NEW m \in requests, Arrives(m) \/ Fails(m) PROVE CoverInv'
<1>1. /\ UNCHANGED <<engine, doing, subscription, toCover, stop>> /\ requests' = requests \ {m}
      /\ astray \subseteq astray'
  BY DEF Arrives, Fails
<1>2. Needed' = Needed /\ Needed \subseteq Rels /\ \A r \in Rels : Steps(r, "announces")' = Steps(r, "announces")
  BY <1>1 DEF Needed, Kept, About, Steps, engine
<1>3. StreamIsOpen' /\ ClosedAsksNothing'
  BY <1>1 DEF CoverInv, StreamIsOpen, ClosedAsksNothing
<1>4. RemovalsAreSpare'
  BY <1>1, <1>2 DEF CoverInv, RemovalsAreSpare
<1>5. NeededIsCovered'
  <2> SUFFICES ASSUME subscription' \in {"caught up", "followed", "broken"}, stop' # "over",
                      NEW q \in Needed \ astray'
               PROVE  q \in members' \/ Coming(q)'
    BY <1>2 DEF NeededIsCovered
  <2>1. q \in members \/ Coming(q)
    BY <1>1 DEF CoverInv, NeededIsCovered
  <2>2. CASE m.adds /\ q \in m.rels
    BY <2>2 DEF Arrives, Fails
  <2>3. CASE ~(m.adds /\ q \in m.rels) /\ Coming(q)
    BY <1>1, <1>2, <2>3 DEF Coming
  <2>4. CASE q \in members /\ ~m.adds /\ q \in m.rels
    <3>1. Steps(q, "announces") # {}
      BY <1>1, <2>4 DEF CoverInv, RemovalsAreSpare
    <3> QED BY <1>2, <3>1 DEF Coming
  <2>5. CASE q \in members /\ q \notin m.rels
    BY <2>5 DEF Arrives, Fails
  <2> QED BY <2>1, <2>2, <2>3, <2>4, <2>5
<1> QED BY <1>3, <1>4, <1>5 DEF CoverInv

\* The catch-up looks at the dictionary when nothing of the stream is in hand yet.
LEMMA CatchUpCovered == ASSUME TypeInv, CoverInv, CatchUp PROVE CoverInv'
<1>1. /\ UNCHANGED <<engine, doing, requests, members, astray, stop>>
      /\ subscription = "held" /\ subscription' = "caught up" /\ toCover' = Kept
  BY DEF CatchUp
<1>2. doing[Stream] = Idle
  BY <1>1 DEF CoverInv, StreamIsOpen
<1>3. Needed' = Kept /\ Needed = Kept
  BY <1>1, <1>2 DEF Needed, About, Kept, engine
<1>4. StreamIsOpen' /\ ClosedAsksNothing'
  BY <1>1, <1>2 DEF StreamIsOpen, ClosedAsksNothing
<1>5. RemovalsAreSpare'
  BY <1>1, <1>3 DEF CoverInv, RemovalsAreSpare, Steps, About
<1>6. NeededIsCovered'
  BY <1>1, <1>3 DEF NeededIsCovered, Coming
<1> QED BY <1>4, <1>5, <1>6 DEF CoverInv

LEMMA CatchUpWithCovered == ASSUME TypeInv, CoverInv, NEW r \in Rels, CatchUpWith(r) PROVE CoverInv'
<1>1. /\ UNCHANGED <<engine, doing, subscription, requests, stop>> /\ toCover' = toCover \ {r}
      /\ members \subseteq members' /\ astray \subseteq astray' /\ r \in members' \union astray'
  BY DEF CatchUpWith, Sharing
<1>2. Needed' = Needed /\ Needed \subseteq Rels /\ \A q \in Rels : Steps(q, "announces")' = Steps(q, "announces")
  BY <1>1 DEF Needed, Kept, About, Steps, engine
<1>3. StreamIsOpen' /\ ClosedAsksNothing' /\ RemovalsAreSpare'
  BY <1>1, <1>2 DEF CoverInv, StreamIsOpen, ClosedAsksNothing, RemovalsAreSpare
<1>4. NeededIsCovered'
  <2> SUFFICES ASSUME subscription' \in {"caught up", "followed", "broken"}, stop' # "over",
                      NEW q \in Needed \ astray', q # r
               PROVE  q \in members' \/ Coming(q)'
    BY <1>1, <1>2 DEF NeededIsCovered
  <2>1. q \in members \/ Coming(q)
    BY <1>1 DEF CoverInv, NeededIsCovered
  <2> QED BY <1>1, <1>2, <2>1 DEF Coming
<1> QED BY <1>3, <1>4 DEF CoverInv

LEMMA HearCovered == ASSUME TypeInv, CoverInv, Hear PROVE CoverInv'
<1>1. UNCHANGED <<simulations, toCover, requests, members, astray, stop>>
  BY DEF Hear, engine
<1>2. doing[Stream] = Idle /\ subscription = "followed" /\ subscription' \in {"followed", "broken"}
  BY HearCases
<1>3. CASE UNCHANGED doing
  <2>1. Needed' = Needed /\ StreamIsOpen'
    BY <1>1, <1>2, <1>3 DEF Needed, Kept, About, StreamIsOpen
  <2> QED BY <1>1, <1>2, <1>3, <2>1, CoverInvKept DEF Steps, About
<1>4. ASSUME NEW r \in Kept, NEW config \in Configs,
             doing' = [doing EXCEPT ![Stream] = [step |-> "called", rel |-> r, config |-> config]]
      PROVE  CoverInv'
  <2>1. /\ doing'[Stream] = [step |-> "called", rel |-> r, config |-> config]
        /\ \A t \in Threads : t # Stream => doing'[t] = doing[t]
    BY <1>4, NoneIsNothing DEF TypeInv, TypeOK
  <2>2. Needed' \subseteq Needed
    BY <1>1, <2>1 DEF Needed, Kept, About
  <2>3. \A q \in Rels : Steps(q, "announces") \subseteq Steps(q, "announces")'
    BY <1>2, <2>1 DEF Steps, About
  <2>4. StreamIsOpen'
    BY <1>2 DEF StreamIsOpen
  <2> QED BY <1>1, <1>2, <2>2, <2>3, <2>4, CoverInvKept
<1> QED BY <1>3, <1>4, HearCases

\* What a request takes in hand when it comes in, and what it lets go of when it is refused.
LEMMA CallsCovered ==
    ASSUME TypeInv, CoverInv, NEW c \in Callers, NEW r \in Rels, Handle(c, r) \/ Cancel(c, r) \/ Refused(c)
    PROVE  CoverInv'
<1>1. UNCHANGED <<covered, stop>> /\ \E task : doing' = [doing EXCEPT ![c] = task]
  BY DEF Handle, Cancel, Refused
<1>2. doing[c].step # "announces"
  BY IdleStep DEF Handle, Cancel, Refused
<1>3. /\ doing'[Stream] = doing[Stream] /\ \A q \in Rels : Stream \in About(q)' <=> Stream \in About(q)
      /\ \A q \in Rels : Steps(q, "announces") # {} => Steps(q, "announces")' # {}
  <2>1. PICK task : doing' = [doing EXCEPT ![c] = task]
    BY <1>1
  <2> QED BY <1>2, <2>1, CallerSteps
<1>4. Kept' \subseteq Kept
  BY NoneIsNothing DEF Handle, Cancel, Refused, engine, Kept, TypeInv, TypeOK
<1>5. Needed' \subseteq Needed /\ StreamIsOpen'
  BY <1>1, <1>3, <1>4 DEF covered, Needed, CoverInv, StreamIsOpen
<1> QED BY <1>1, <1>3, <1>5, CoverInvKept DEF covered

LEMMA StopAsyncCovered == ASSUME TypeInv, CoverInv, StopAsync PROVE CoverInv'
<1>1. /\ subscription' = "over" /\ requests' = {} /\ doing'[Stream] = Idle
  BY NoneIsNothing DEF StopAsync, TypeInv, TypeOK
<1> QED BY <1>1 DEF CoverInv, StreamIsOpen, ClosedAsksNothing, NeededIsCovered, RemovalsAreSpare

LEMMA NextCoverInv == TypeInv /\ CoverInv /\ [Next]_vars => CoverInv'
<1> SUFFICES ASSUME TypeInv, CoverInv, [Next]_vars PROVE CoverInv'
  OBVIOUS
<1>1. ASSUME UNCHANGED <<simulations, doing, toCover, requests, members, astray>>,
             subscription' \in {"none", "over"} => subscription' = subscription,
             subscription' \in {"caught up", "followed", "broken"}
               => subscription \in {"caught up", "followed", "broken"},
             StreamIsOpen', stop = "over" => stop' = "over"
      PROVE  CoverInv'
  <2>1. Needed' = Needed
    BY <1>1 DEF Needed, Kept, About
  <2> QED BY <1>1, <2>1, CoverInvKept DEF Steps, About
<1>2. ASSUME UNCHANGED <<simulations, doing, covered>>, stop = "over" => stop' = "over" PROVE CoverInv'
  BY <1>1, <1>2 DEF covered, CoverInv, StreamIsOpen
<1>3. CASE UNCHANGED vars
  BY <1>2, <1>3 DEF vars, engine
<1>4. ASSUME NEW r \in Edited, NEW p \in Props, NEW v \in Quantities \union Frequencies, Edit(r, p, v)
      PROVE  CoverInv'
  BY <1>2, <1>4 DEF Edit, engine
<1>5. ASSUME NEW c \in Callers, Announce(c) \/ RemoveMembership(c) PROVE CoverInv'
  BY <1>5, AnnounceCovered, RemovalCovered
<1>6. ASSUME NEW l \in Loops, Ends(l) PROVE CoverInv'
  BY <1>2, <1>6 DEF Ends
<1>7. CASE StopAll \/ StopWaits
  BY <1>2, <1>7 DEF StopAll, StopsAll, StopWaits, engine
<1>8. CASE StopEnds
  <2>1. Kept' \subseteq Kept /\ UNCHANGED <<covered, doing>> /\ stop # "over"
    BY <1>8, NoneIsNothing DEF StopEnds, Kept
  <2>2. Needed' \subseteq Needed /\ StreamIsOpen'
    BY <2>1 DEF Needed, About, covered, CoverInv, StreamIsOpen
  <2> QED BY <2>1, <2>2, CoverInvKept DEF covered, Steps, About
<1>9. CASE Subscribe
  <2>1. doing[Stream] = Idle
    BY <1>9 DEF Subscribe, CoverInv, StreamIsOpen
  <2>2. StreamIsOpen'
    BY <1>9, <2>1 DEF Subscribe, StreamIsOpen
  <2> QED BY <1>1, <1>9, <2>2 DEF Subscribe, engine
<1>10. CASE Follow
  <2>1. StreamIsOpen'
    BY <1>10 DEF Follow, FollowsWith, StreamIsOpen
  <2> QED BY <1>1, <1>10, <2>1 DEF Follow, FollowsWith, engine
<1>11. ASSUME NEW t \in Threads, TakeOut(t) \/ PutIn(t) PROVE CoverInv'
  BY <1>11, TakeOutCovered, PutInCovered
<1>12. ASSUME NEW c \in Callers, NEW r \in Rels, Handle(c, r) \/ Cancel(c, r) PROVE CoverInv'
  BY <1>12, CallsCovered
<1>13. ASSUME NEW c \in Callers, Refused(c) PROVE CoverInv'
  <2>1. doing[c].rel \in Rels
    BY <1>13, NoneIsNothing, InHand DEF Refused, TypeInv
  <2> QED BY <1>13, <2>1, CallsCovered
<1>14. ASSUME NEW m \in requests, Arrives(m) \/ Fails(m) PROVE CoverInv'
  BY <1>14, ArrivesCovered
<1> QED BY <1>3, <1>4, <1>5, <1>6, <1>7, <1>8, <1>9, <1>10, <1>11, <1>12, <1>13, <1>14,
           CatchUpCovered, CatchUpWithCovered, HearCovered, StopAsyncCovered DEF Next

-----------------------------------------------------------------------------
(* What a simulation goes by, and what its relationship states *)

\* What is still on the stream of a property.
Said(r, p) == \E i \in DOMAIN changes : changes[i].rel = r /\ changes[i].prop = p

\* The last that is said of a property is what its relationship states.
LastIsStated ==
  \A i \in DOMAIN changes :
    /\ <<changes[i].rel, changes[i].prop>> \notin missed
    /\ \A j \in DOMAIN changes :
         j > i => ~(changes[j].rel = changes[i].rel /\ changes[j].prop = changes[i].prop)
    => changes[i].value = stated[changes[i].rel][changes[i].prop]

\* All that was said of a property was handed over, and it may be gone by.
Settled(r, p) == Acceptable(p, stated[r][p]) /\ ~Said(r, p) /\ <<r, p>> \notin missed

HandFollows ==
  doing[Stream] # Idle =>
    \A p \in Props : Settled(doing[Stream].rel, p)
                       => doing[Stream].config[p] = stated[doing[Stream].rel][p]

EntryFollows ==
  \A r \in Kept, p \in Props :
    Settled(r, p) /\ Stream \notin About(r) => entry[simulations[r]].config[p] = stated[r][p]

\* A simulation that was started ticks no more often than it may, so that an edit of its quantity is
\* not refused for its frequency.
EntriesMayTick == \A l \in Loops : state[l] # "unused" => ~RefusalOfFrequency(entry[l].config.frequencySeconds)
StartsMayTick  == \A t \in Threads : doing[t].step = "starts" => ~RefusalOfFrequency(doing[t].config.frequencySeconds)

FollowInv ==
  /\ EntriesMayTick /\ StartsMayTick
  /\ subscription # "over" => LastIsStated /\ HandFollows /\ EntryFollows

LEMMA InitFollowInv == Init => FollowInv
<1> SUFFICES ASSUME Init PROVE FollowInv
  OBVIOUS
<1>1. EntriesMayTick /\ StartsMayTick
  BY IdleStep DEF Init, EntriesMayTick, StartsMayTick
<1>2. LastIsStated
  BY DEF Init, LastIsStated
<1>3. HandFollows
  BY NoneIsNothing DEF Init, HandFollows
<1>4. EntryFollows
  BY DEF Init, EntryFollows, Kept
<1> QED BY <1>1, <1>2, <1>3, <1>4 DEF FollowInv

\* What changes none of these keeps it.
LEMMA FollowInvKept ==
    ASSUME TypeInv, FollowInv, EntriesMayTick', StartsMayTick',
           UNCHANGED <<stated, changes>>, missed \subseteq missed',
           subscription' # "over" => subscription # "over",
           doing'[Stream] = doing[Stream],
           \A r \in Kept' : r \in Kept /\ simulations'[r] = simulations[r]
                              /\ entry'[simulations[r]] = entry[simulations[r]]
    PROVE  FollowInv'
<1> SUFFICES ASSUME subscription' # "over" PROVE LastIsStated' /\ HandFollows' /\ EntryFollows'
  BY DEF FollowInv
<1>1. LastIsStated /\ HandFollows /\ EntryFollows
  BY DEF FollowInv
<1>2. LastIsStated'
  BY <1>1 DEF LastIsStated
<1>3. \A r, p : Settled(r, p)' => Settled(r, p) /\ stated'[r][p] = stated[r][p]
  BY DEF Settled, Said, Acceptable
<1>4. HandFollows'
  BY <1>1, <1>3 DEF HandFollows
<1>5. \A r \in Rels : Stream \in About(r) => Stream \in About(r)'
  BY NoneIsNothing DEF About
<1>6. EntryFollows'
  BY <1>1, <1>3, <1>5 DEF EntryFollows, Kept
<1> QED BY <1>2, <1>4, <1>6

LEMMA EditFollowed ==
    ASSUME TypeInv, FollowInv, NEW r \in Edited, NEW p \in Props, NEW v \in Quantities \union Frequencies,
           Edit(r, p, v)
    PROVE  FollowInv'
<1> DEFINE new == [rel |-> r, prop |-> p, value |-> v]
<1>0. r \in Rels /\ Edited \subseteq Rels
  BY MetabolismAssumption
<1>1. UNCHANGED <<simulations, entry, state, doing, subscription>>
  BY DEF Edit, engine, covered
<1>2. EntriesMayTick' /\ StartsMayTick'
  BY <1>1 DEF FollowInv, EntriesMayTick, StartsMayTick
<1> SUFFICES ASSUME subscription # "over" PROVE LastIsStated' /\ HandFollows' /\ EntryFollows'
  BY <1>1, <1>2 DEF FollowInv
<1>3. LastIsStated /\ HandFollows /\ EntryFollows
  BY DEF FollowInv
<1>4. /\ stated'[r][p] = v
      /\ \A q \in Rels, s \in Props : <<q, s>> # <<r, p>> => stated'[q][s] = stated[q][s]
  <2>1. stated \in [Rels -> Stated] /\ stated' = [stated EXCEPT ![r][p] = v]
    BY DEF Edit, TypeInv, TypeOK
  <2>2. stated' = [stated EXCEPT ![r] = [stated[r] EXCEPT ![p] = v]]
    BY <2>1
  <2>3. stated'[r] = [stated[r] EXCEPT ![p] = v] /\ \A q \in Rels : q # r => stated'[q] = stated[q]
    BY <1>0, <2>1, <2>2
  <2>4. \A q \in Rels : DOMAIN stated[q] = Props
    BY <2>1 DEF Stated, Props
  <2> QED BY <1>0, <2>3, <2>4
<1>5. changes \in Seq(Changes) /\ new \in Changes
  BY <1>0 DEF TypeInv, TypeOK, Changes
<1>6. /\ \A q \in Rels, s \in Props : Settled(q, s)' => <<q, s>> # <<r, p>> /\ Settled(q, s)
      /\ LastIsStated'
  <2>1. CASE r \in members
    <3>1. changes' = Append(changes, new) /\ missed' = missed
      BY <2>1 DEF Edit
    <3> HIDE DEF new
    <3>2. /\ Len(changes') = Len(changes) + 1 /\ Len(changes) \in Nat
          /\ changes'[Len(changes) + 1] = new
          /\ \A i \in 1 .. Len(changes) : changes'[i] = changes[i]
          /\ DOMAIN changes = 1 .. Len(changes) /\ DOMAIN changes' = 1 .. Len(changes) + 1
      BY <1>5, <3>1, AppendProperties
    <3>3. new.rel = r /\ new.prop = p /\ new.value = v
      BY DEF new
    <3>4. \A q \in Rels, s \in Props : Settled(q, s)' => <<q, s>> # <<r, p>> /\ Settled(q, s)
      BY <1>4, <3>1, <3>2, <3>3 DEF Settled, Said, Acceptable
    <3>5. LastIsStated'
      <4> SUFFICES ASSUME NEW i \in DOMAIN changes', <<changes'[i].rel, changes'[i].prop>> \notin missed,
                          \A j \in DOMAIN changes' : j > i =>
                             ~(changes'[j].rel = changes'[i].rel /\ changes'[j].prop = changes'[i].prop)
                   PROVE  changes'[i].value = stated'[changes'[i].rel][changes'[i].prop]
        BY <3>1 DEF LastIsStated
      <4>1. CASE i = Len(changes) + 1
        BY <1>4, <3>2, <3>3, <4>1
      <4>2. CASE i # Len(changes) + 1
        <5>1. i \in 1 .. Len(changes) /\ changes'[i] = changes[i]
          BY <3>2, <4>2
        <5>2. changes[i].value = stated[changes[i].rel][changes[i].prop]
          BY <1>3, <3>2, <5>1 DEF LastIsStated
        <5>3. ~(changes[i].rel = r /\ changes[i].prop = p)
          BY <3>2, <3>3, <5>1
        <5>4. changes[i] \in Changes
          BY <1>5, <3>2, <5>1
        <5> QED BY <1>4, <5>1, <5>2, <5>3, <5>4 DEF Changes
      <4> QED BY <4>1, <4>2
    <3> QED BY <3>4, <3>5
  <2>2. CASE r \notin members
    <3>1. changes' = changes /\ missed' = missed \union {<<r, p>>}
      BY <2>2 DEF Edit
    <3>2. \A q \in Rels, s \in Props : Settled(q, s)' => <<q, s>> # <<r, p>> /\ Settled(q, s)
      BY <1>4, <3>1 DEF Settled, Said, Acceptable
    <3>3. \A i \in DOMAIN changes : changes[i] \in Changes
      BY <1>5
    <3>4. LastIsStated'
      BY <1>3, <1>4, <3>1, <3>3 DEF LastIsStated, Changes
    <3> QED BY <3>2, <3>4
  <2> QED BY <2>1, <2>2
<1>7. HandFollows'
  <2>1. doing[Stream] # Idle => doing[Stream].rel \in Rels
    BY NoneIsNothing, InHand DEF TypeInv
  <2> QED BY <1>1, <1>3, <1>4, <1>6, <2>1 DEF HandFollows
<1>8. EntryFollows'
  BY <1>1, <1>3, <1>4, <1>6 DEF EntryFollows, Kept, About
<1> QED BY <1>6, <1>7, <1>8

LEMMA TakeOutFollowed == ASSUME TypeInv, FollowInv, NEW t \in Threads, TakeOut(t) PROVE FollowInv'
<1> DEFINE r == doing[t].rel
<1>1. /\ doing[t] # Idle /\ doing[t].step = "called" /\ doing' = [doing EXCEPT ![t].step = "starts"]
      /\ ~RefusalOfFrequency(doing[t].config.frequencySeconds)
      /\ simulations' = [simulations EXCEPT ![r] = None]
      /\ UNCHANGED <<entry, state, subscription, stated, changes, missed>>
  BY DEF TakeOut, TakesOut, covered, broker
<1>2. r \in Rels /\ doing[t] \in [step: {"called", "starts", "announces"}, rel: Rels, config: Configs]
  BY <1>1, InHand DEF TypeInv
<1>3. /\ doing'[t] # Idle /\ doing'[t].rel = r /\ doing'[t].config = doing[t].config
      /\ \A u \in Threads : u # t => doing'[u] = doing[u]
  BY <1>1, <1>2, IdleStep DEF TypeInv, TypeOK
<1>4. EntriesMayTick' /\ StartsMayTick'
  BY <1>1, <1>3 DEF FollowInv, EntriesMayTick, StartsMayTick
<1>5. \A q \in Kept' : q \in Kept /\ simulations'[q] = simulations[q]
  BY <1>1, <1>2 DEF Kept, TypeInv, TypeOK
<1> HIDE DEF r
<1> SUFFICES ASSUME subscription # "over" PROVE LastIsStated' /\ HandFollows' /\ EntryFollows'
  BY <1>1, <1>4 DEF FollowInv
<1>6. LastIsStated /\ HandFollows /\ EntryFollows
  BY DEF FollowInv
<1>7. LastIsStated' /\ \A q, p : Settled(q, p)' <=> Settled(q, p)
  BY <1>1, <1>6 DEF LastIsStated, Settled, Said, Acceptable
<1>8. /\ doing'[Stream] # Idle <=> doing[Stream] # Idle
      /\ doing[Stream] # Idle => doing'[Stream].rel = doing[Stream].rel /\ doing'[Stream].config = doing[Stream].config
  BY <1>1, <1>3, NoneIsNothing DEF r
<1>9. HandFollows'
  BY <1>1, <1>6, <1>7, <1>8 DEF HandFollows
<1>10. EntryFollows'
  BY <1>1, <1>5, <1>6, <1>7, <1>8, NoneIsNothing DEF EntryFollows, About
<1> QED BY <1>7, <1>9, <1>10

LEMMA PutInFollowed == ASSUME TypeInv, FollowInv, NEW t \in Threads, PutIn(t) PROVE FollowInv'
<1> DEFINE r == doing[t].rel
           config == doing[t].config
<1>1. /\ doing[t] # Idle /\ doing[t].step = "starts"
      /\ UNCHANGED <<subscription, stated, changes>>
      /\ missed' = IF t = Stream THEN missed ELSE MissedBy(r, config)
      /\ doing' = [doing EXCEPT ![t] = IF t = Stream THEN Idle ELSE [@ EXCEPT !.step = "announces"]]
  BY DEF PutIn, covered, broker
<1>2. r \in Rels /\ doing[t] \in [step: {"called", "starts", "announces"}, rel: Rels, config: Configs]
      /\ config \in Configs
  BY <1>1, InHand DEF TypeInv
<1>3. PICK l \in Loops : /\ state[l] = "unused"
                         /\ simulations' = [simulations EXCEPT ![r] = l]
                         /\ entry' = [entry EXCEPT ![l] = [rel |-> r, config |-> config]]
                         /\ \E s \in {"runs", "broken"} : state' = [state EXCEPT ![l] = s]
  BY FreshLoop
<1>4. /\ t = Stream => doing'[Stream] = Idle
      /\ t # Stream => doing'[Stream] = doing[Stream] /\ doing'[t].step = "announces"
      /\ \A u \in Threads : u # t => doing'[u] = doing[u]
  BY <1>1, <1>2, NoneIsNothing DEF TypeInv, TypeOK
<1>5. StartsMayTick'
  BY <1>1, <1>4, IdleStep DEF FollowInv, StartsMayTick
<1>6. EntriesMayTick'
  <2>1. ~RefusalOfFrequency(config.frequencySeconds)
    BY <1>1 DEF FollowInv, StartsMayTick
  <2>2. \A k \in Loops : k # l => entry'[k] = entry[k] /\ state'[k] = state[k]
    BY <1>3 DEF TypeInv, TypeOK
  <2>3. entry'[l].config = config
    BY <1>3 DEF TypeInv, TypeOK
  <2> HIDE DEF config
  <2> QED BY <2>1, <2>2, <2>3 DEF FollowInv, EntriesMayTick
<1> SUFFICES ASSUME subscription # "over" PROVE LastIsStated' /\ HandFollows' /\ EntryFollows'
  BY <1>1, <1>5, <1>6 DEF FollowInv
<1>7. LastIsStated /\ HandFollows /\ EntryFollows
  BY DEF FollowInv
<1>8. /\ simulations'[r] = l /\ entry'[l].config = config
      /\ \A q \in Kept' : q # r => q \in Kept /\ simulations'[q] = simulations[q]
                                   /\ entry'[simulations[q]] = entry[simulations[q]]
  BY <1>2, <1>3 DEF Kept, TypeInv, TypeOK, SimsAreEntries
<1>9. /\ Stream \in Threads
      /\ \A q \in Rels : Stream \in About(q) <=> doing[Stream] # Idle /\ doing[Stream].rel = q
  BY NoneIsNothing DEF About
<1> HIDE DEF r, config
<1>10. CASE t = Stream
  <2>1. missed' = missed /\ doing'[Stream] = Idle /\ r = doing[Stream].rel /\ config = doing[Stream].config
    BY <1>1, <1>4, <1>10 DEF r, config
  <2>2. LastIsStated' /\ \A q, p : Settled(q, p)' <=> Settled(q, p)
    BY <1>1, <1>7, <2>1 DEF LastIsStated, Settled, Said, Acceptable
  <2>3. HandFollows'
    BY <2>1 DEF HandFollows
  <2>4. EntryFollows'
    <3> SUFFICES ASSUME NEW q \in Kept', NEW p \in Props, Settled(q, p)
                 PROVE  entry'[simulations'[q]].config[p] = stated'[q][p]
      BY <2>2 DEF EntryFollows
    <3>1. CASE q = r
      BY <1>1, <1>7, <1>8, <1>10, <2>1, <3>1 DEF HandFollows
    <3>2. CASE q # r
      <4>1. Stream \notin About(q) /\ q \in Kept
        BY <1>8, <1>9, <2>1, <3>2 DEF Kept
      <4> QED BY <1>1, <1>7, <1>8, <3>2, <4>1 DEF EntryFollows
    <3> QED BY <3>1, <3>2
  <2> QED BY <2>2, <2>3, <2>4
<1>11. CASE t # Stream
  <2>1. missed' = MissedBy(r, config) /\ doing'[Stream] = doing[Stream]
    BY <1>1, <1>4, <1>11
  <2>2. \A q \in Rels, p \in Props : <<q, p>> \in missed /\ (q # r \/ ToBeHeard(r, p)) => <<q, p>> \in missed'
    BY <2>1 DEF MissedBy
  <2>3. \A p \in Props : ~ToBeHeard(r, p) /\ config[p] # stated[r][p] => <<r, p>> \in missed'
    BY <2>1 DEF MissedBy
  <2>4. \A q, p : ToBeHeard(q, p) <=> Said(q, p) \/ (doing[Stream] # Idle /\ doing[Stream].rel = q)
    BY DEF ToBeHeard, Said
  <2>5. \A q, p : Said(q, p)' <=> Said(q, p)
    BY <1>1 DEF Said
  <2>6. LastIsStated'
    <3> SUFFICES ASSUME NEW i \in DOMAIN changes, <<changes[i].rel, changes[i].prop>> \notin missed',
                        \A j \in DOMAIN changes :
                          j > i => ~(changes[j].rel = changes[i].rel /\ changes[j].prop = changes[i].prop)
                 PROVE  changes[i].value = stated[changes[i].rel][changes[i].prop]
      BY <1>1 DEF LastIsStated
    <3>0. changes \in Seq(Changes)
      BY DEF TypeInv, TypeOK
    <3>1. changes[i] \in Changes
      BY <3>0
    <3>2. changes[i].rel \in Rels /\ changes[i].prop \in Props
      BY <3>1 DEF Changes
    <3>3. ToBeHeard(changes[i].rel, changes[i].prop)
      BY <2>4 DEF Said
    <3>4. <<changes[i].rel, changes[i].prop>> \notin missed
      BY <2>2, <3>2, <3>3
    <3> QED BY <1>7, <3>4 DEF LastIsStated
  <2>7. HandFollows'
    <3> SUFFICES ASSUME doing[Stream] # Idle, NEW p \in Props, Settled(doing[Stream].rel, p)'
                 PROVE  doing[Stream].config[p] = stated[doing[Stream].rel][p]
      BY <1>1, <2>1 DEF HandFollows
    <3>1. doing[Stream].rel \in Rels
      BY <1>9, InHand DEF TypeInv
    <3>2. Settled(doing[Stream].rel, p)
      BY <1>1, <2>1, <2>2, <2>4, <2>5, <3>1 DEF Settled, Acceptable
    <3> QED BY <1>7, <3>2 DEF HandFollows
  <2>8. EntryFollows'
    <3> SUFFICES ASSUME NEW q \in Kept', NEW p \in Props, Settled(q, p)', Stream \notin About(q)'
                 PROVE  entry'[simulations'[q]].config[p] = stated'[q][p]
      BY DEF EntryFollows
    <3>0. q \in Rels /\ Stream \notin About(q)
      BY <2>1 DEF Kept, About
    <3>1. CASE q = r
      BY <1>1, <1>8, <1>9, <2>3, <2>4, <2>5, <3>0, <3>1 DEF Settled
    <3>2. CASE q # r
      <4>1. Settled(q, p) /\ q \in Kept
        BY <1>1, <1>8, <2>2, <2>5, <3>0, <3>2 DEF Settled, Acceptable
      <4> QED BY <1>1, <1>7, <1>8, <3>0, <3>2, <4>1 DEF EntryFollows
    <3> QED BY <3>1, <3>2
  <2> QED BY <2>6, <2>7, <2>8
<1> QED BY <1>10, <1>11

LEMMA HearFollowed == ASSUME TypeInv, FollowInv, Hear PROVE FollowInv'
<1>c. PICK c, old : c = Head(changes) /\ old = entry[simulations[c.rel]].config
  OBVIOUS
<1> DEFINE new == [old EXCEPT ![c.prop] = c.value]
<1>1. /\ subscription = "followed" /\ doing[Stream] = Idle /\ changes # <<>> /\ changes' = Tail(changes)
      /\ UNCHANGED <<simulations, entry, state, stated, missed>>
  BY DEF Hear, engine
<1>2. /\ changes \in Seq(Changes) /\ c \in Changes
  <2>1. changes \in Seq(Changes) /\ changes # <<>>
    BY <1>1 DEF TypeInv, TypeOK
  <2> QED BY <1>c, <2>1, HeadTailProperties
<1>3. /\ Len(changes) \in Nat /\ Len(changes) >= 1 /\ Len(changes') = Len(changes) - 1
      /\ c = changes[1]
      /\ \A i \in 1 .. Len(changes') : changes'[i] = changes[i + 1]
      /\ DOMAIN changes = 1 .. Len(changes) /\ DOMAIN changes' = 1 .. Len(changes) - 1
  BY <1>c, <1>1, <1>2, HeadTailProperties
<1>4. /\ c.rel \in Rels /\ c.prop \in Props
      /\ c.value \in Nat \union {Unreadable, Huge}
  BY <1>2, MetabolismAssumption DEF Changes
<1>5. simulations[c.rel] = None \/ c.value = Unreadable => UNCHANGED doing
  BY <1>c DEF Hear
<1>6. c.value = Huge => UNCHANGED doing
  BY <1>c DEF Hear
<1>7. simulations[c.rel] # None /\ c.value \in Nat =>
        IF RefusalOfFrequency(new.frequencySeconds) THEN UNCHANGED doing
        ELSE doing' = [doing EXCEPT ![Stream] = [step |-> "called", rel |-> c.rel, config |-> new]]
  BY <1>c, MetabolismAssumption DEF Hear
<1>8. c.rel \in Kept => old \in Configs /\ ~RefusalOfFrequency(old.frequencySeconds)
  BY <1>c DEF Kept, TypeInv, TypeOK, SimsAreEntries, EntriesAreStarted, FollowInv, EntriesMayTick
<1>9. LastIsStated /\ EntryFollows
  BY <1>1 DEF FollowInv
<1>10. \A q, p : ~Said(q, p)' => ~Said(q, p) \/ (q = c.rel /\ p = c.prop /\ \A j \in DOMAIN changes :
                                   j > 1 => ~(changes[j].rel = q /\ changes[j].prop = p))
  <2> SUFFICES ASSUME NEW q, NEW p, ~Said(q, p)', Said(q, p)
               PROVE  q = c.rel /\ p = c.prop
                      /\ \A j \in DOMAIN changes : j > 1 => ~(changes[j].rel = q /\ changes[j].prop = p)
    OBVIOUS
  <2>1. ASSUME NEW i \in DOMAIN changes, changes[i].rel = q, changes[i].prop = p PROVE i = 1
    <3>1. i # 1 => i - 1 \in DOMAIN changes' /\ changes'[i - 1] = changes[i]
      BY <1>3
    <3> QED BY <2>1, <3>1 DEF Said
  <2> QED BY <1>3, <2>1 DEF Said
<1>11. LastIsStated'
  <2> SUFFICES ASSUME NEW i \in DOMAIN changes', <<changes'[i].rel, changes'[i].prop>> \notin missed,
                      \A j \in DOMAIN changes' :
                        j > i => ~(changes'[j].rel = changes'[i].rel /\ changes'[j].prop = changes'[i].prop)
               PROVE  changes'[i].value = stated[changes'[i].rel][changes'[i].prop]
    BY <1>1 DEF LastIsStated
  <2>1. i + 1 \in DOMAIN changes /\ changes'[i] = changes[i + 1]
    BY <1>3
  <2>2. ASSUME NEW j \in DOMAIN changes, j > i + 1
        PROVE  ~(changes[j].rel = changes'[i].rel /\ changes[j].prop = changes'[i].prop)
    <3>1. j - 1 \in DOMAIN changes' /\ j - 1 > i /\ changes'[j - 1] = changes[j]
      BY <1>3, <2>2
    <3> QED BY <3>1
  <2> QED BY <1>9, <2>1, <2>2 DEF LastIsStated
<1>12. /\ c.rel \in Kept <=> simulations[c.rel] # None
       /\ Kept' = Kept
  BY <1>1, <1>4 DEF Kept
<1>13. Settled(c.rel, c.prop)' => c.value = stated[c.rel][c.prop] \/ ~Said(c.rel, c.prop)
  BY <1>1, <1>3, <1>9, <1>10 DEF Settled, LastIsStated
<1>14. ~(~Said(c.rel, c.prop))
  BY <1>3 DEF Said
<1>15. CASE UNCHANGED doing
  <2>1. HandFollows' /\ StartsMayTick' /\ EntriesMayTick'
    BY <1>1, <1>15 DEF HandFollows, FollowInv, StartsMayTick, EntriesMayTick
  <2>2. EntryFollows'
    <3> SUFFICES ASSUME NEW q \in Kept, NEW p \in Props, Settled(q, p)'
                 PROVE  entry[simulations[q]].config[p] = stated[q][p]
      BY <1>1, <1>12 DEF EntryFollows
    <3>1. Stream \notin About(q)
      BY <1>1 DEF About
    <3>2. CASE q = c.rel /\ p = c.prop
      <4>1. Acceptable(p, c.value) /\ c.value \in Nat
        BY <1>1, <1>13, <1>14, <3>2 DEF Settled, Acceptable
      <4>2. RefusalOfFrequency(new.frequencySeconds)
        BY <1>1, <1>7, <1>12, <1>15, <3>2, <4>1, IdleStep, NoneIsNothing DEF TypeInv, TypeOK
      <4>3. new.frequencySeconds = IF p = "frequencySeconds" THEN c.value ELSE old.frequencySeconds
        BY <1>8, <3>2 DEF Configs, Props
      <4> HIDE DEF new
      <4> QED BY <1>c, <1>8, <3>2, <4>1, <4>2, <4>3 DEF Acceptable
    <3>3. CASE ~(q = c.rel /\ p = c.prop)
      <4>1. Settled(q, p)
        BY <1>1, <1>10, <3>3 DEF Settled, Acceptable
      <4> QED BY <1>9, <3>1, <4>1 DEF EntryFollows
    <3> QED BY <3>2, <3>3
  <2> QED BY <1>11, <2>1, <2>2 DEF FollowInv
<1>16. CASE /\ c.rel \in Kept /\ c.value \in Nat
            /\ doing' = [doing EXCEPT ![Stream] = [step |-> "called", rel |-> c.rel, config |-> new]]
  <2>1. /\ doing'[Stream] = [step |-> "called", rel |-> c.rel, config |-> new]
        /\ \A u \in Threads : u # Stream => doing'[u] = doing[u]
    BY <1>16, NoneIsNothing DEF TypeInv, TypeOK
  <2>2. new[c.prop] = c.value /\ \A p \in Props : p # c.prop => new[p] = old[p]
    BY <1>4, <1>8, <1>16 DEF Configs, Props
  <2> HIDE DEF new
  <2>3. StartsMayTick' /\ EntriesMayTick'
    BY <1>1, <2>1 DEF FollowInv, StartsMayTick, EntriesMayTick
  <2>4. HandFollows'
    <3> SUFFICES ASSUME NEW p \in Props, Settled(c.rel, p)' PROVE new[p] = stated[c.rel][p]
      BY <1>1, <2>1 DEF HandFollows
    <3>1. CASE p = c.prop
      BY <1>13, <1>14, <2>2, <3>1
    <3>2. CASE p # c.prop
      <4>1. Settled(c.rel, p)
        BY <1>1, <1>10, <3>2 DEF Settled, Acceptable
      <4>2. Stream \notin About(c.rel)
        BY <1>1 DEF About
      <4> QED BY <1>c, <1>9, <1>16, <2>2, <3>2, <4>1, <4>2 DEF EntryFollows
    <3> QED BY <3>1, <3>2
  <2>5. EntryFollows'
    <3> SUFFICES ASSUME NEW q \in Kept, NEW p \in Props, Settled(q, p)', q # c.rel
                 PROVE  entry[simulations[q]].config[p] = stated[q][p]
      BY <1>1, <1>12, <2>1, NoneIsNothing, IdleStep DEF EntryFollows, About
    <3>1. Settled(q, p) /\ Stream \notin About(q)
      BY <1>1, <1>10 DEF Settled, Acceptable, About
    <3> QED BY <1>9, <3>1 DEF EntryFollows
  <2> QED BY <1>11, <2>3, <2>4, <2>5 DEF FollowInv
<1> HIDE DEF new
<1> QED BY <1>4, <1>5, <1>6, <1>7, <1>12, <1>15, <1>16

LEMMA NextFollowInv == TypeInv /\ FollowInv /\ [Next]_vars => FollowInv'
<1> SUFFICES ASSUME TypeInv, FollowInv, [Next]_vars PROVE FollowInv'
  OBVIOUS
<1>1. ASSUME UNCHANGED <<entry, state, stated, changes, missed>>,
             Kept' \subseteq Kept, \A r \in Kept' : simulations'[r] = simulations[r],
             doing'[Stream] = doing[Stream],
             \A t \in Threads : doing'[t] = doing[t] \/ doing'[t].step # "starts",
             subscription' # "over" => subscription # "over"
      PROVE  FollowInv'
  <2>1. EntriesMayTick' /\ StartsMayTick'
    BY <1>1 DEF FollowInv, EntriesMayTick, StartsMayTick
  <2> QED BY <1>1, <2>1, FollowInvKept
<1>2. ASSUME UNCHANGED <<simulations, entry, state, stated, changes, missed>>, doing'[Stream] = doing[Stream],
             \A t \in Threads : doing'[t] = doing[t] \/ doing'[t].step # "starts",
             subscription' # "over" => subscription # "over"
      PROVE  FollowInv'
  BY <1>1, <1>2 DEF Kept
<1>3. ASSUME NEW c \in Callers, NEW task, task.step # "starts", doing' = [doing EXCEPT ![c] = task]
      PROVE  doing'[Stream] = doing[Stream] /\ \A t \in Threads : doing'[t] = doing[t] \/ doing'[t].step # "starts"
  BY <1>3, NoneIsNothing DEF TypeInv, TypeOK
<1>4. CASE UNCHANGED vars
  BY <1>2, <1>4 DEF vars, engine, covered, broker
<1>5. ASSUME NEW r \in Edited, NEW p \in Props, NEW v \in Quantities \union Frequencies, Edit(r, p, v)
      PROVE  FollowInv'
  BY <1>5, EditFollowed
<1>6. ASSUME NEW m \in requests, Arrives(m) \/ Fails(m) PROVE FollowInv'
  BY <1>2, <1>6 DEF Arrives, Fails, engine, broker
<1>7. ASSUME NEW c \in Callers, NEW r \in Rels, Handle(c, r) PROVE FollowInv'
  BY <1>2, <1>3, <1>7 DEF Handle, engine, covered, broker
<1>8. ASSUME NEW c \in Callers, NEW r \in Rels, Cancel(c, r) PROVE FollowInv'
  <2>1. Kept' \subseteq Kept /\ \A q \in Kept' : simulations'[q] = simulations[q]
    BY <1>8 DEF Cancel, Kept, TypeInv, TypeOK
  <2> QED BY <1>1, <1>3, <1>8, <2>1 DEF Cancel, covered, broker
<1>9. ASSUME NEW c \in Callers, Refused(c) PROVE FollowInv'
  BY <1>2, <1>3, <1>9, IdleStep DEF Refused, engine, covered, broker
<1>10. ASSUME NEW c \in Callers, Announce(c) \/ RemoveMembership(c) PROVE FollowInv'
  BY <1>2, <1>3, <1>10, IdleStep DEF Announce, RemoveMembership, Removes, engine, broker
<1>11. ASSUME NEW t \in Threads, TakeOut(t) \/ PutIn(t) PROVE FollowInv'
  BY <1>11, TakeOutFollowed, PutInFollowed
<1>12. CASE Subscribe \/ CatchUp \/ \E r \in Rels : CatchUpWith(r)
  BY <1>2, <1>12 DEF Subscribe, CatchUp, CatchUpWith, engine, broker
<1>13. CASE Follow
  BY <1>2, <1>13 DEF Follow, FollowsWith, engine
<1>14. ASSUME NEW l \in Loops, Ends(l) PROVE FollowInv'
  <2>1. EntriesMayTick' /\ StartsMayTick'
    BY <1>14 DEF Ends, FollowInv, EntriesMayTick, StartsMayTick, TypeInv, TypeOK
  <2> QED BY <1>14, <2>1, FollowInvKept DEF Ends, covered, broker, Kept
<1>15. CASE StopAll \/ StopWaits
  BY <1>2, <1>15 DEF StopAll, StopsAll, StopWaits, engine, covered, broker
<1>16. CASE StopEnds
  <2>1. Kept' \subseteq Kept /\ \A q \in Kept' : simulations'[q] = simulations[q]
    BY <1>16 DEF StopEnds, Kept
  <2> QED BY <1>1, <1>16, <2>1 DEF StopEnds, covered, broker
<1>17. CASE StopAsync
  <2>1. EntriesMayTick' /\ StartsMayTick' /\ subscription' = "over"
    BY <1>17, IdleStep DEF StopAsync, engine, FollowInv, EntriesMayTick, StartsMayTick, TypeInv, TypeOK
  <2> QED BY <2>1 DEF FollowInv
<1> QED BY <1>4, <1>5, <1>6, <1>7, <1>8, <1>9, <1>10, <1>11, <1>12, <1>13, <1>14, <1>15, <1>16, <1>17,
           HearFollowed DEF Next

-----------------------------------------------------------------------------
(* What is proved of the service *)

\* Every simulation the dictionary has is one that was started for its relationship, with a
\* configuration a simulation goes by, whatever is registered, edited and cancelled meanwhile
\* (Metabolism.cs:33-64, 159-214).
THEOREM TypeCorrect == Spec => [](TypeOK /\ SimsAreEntries)
<1>1. TypeInv => TypeOK /\ SimsAreEntries
  BY DEF TypeInv
<1> QED BY <1>1, InitTypeInv, NextTypeInv, PTL DEF Spec

\* A simulation that runs can be found and so cancelled, however replacements, restarts and cancellations
\* fall among each other, and one started before a stop has been cancelled by the time the stop ends.  Two
\* are left out, as the code lets them get away: the loop of two threads that start one relationship, and
\* one put in while a stop is under way (Metabolism.cs:44-62, 205-228).
THEOREM LoopsCanBeFound == Spec => []LoopsAreFound
<1>1. FoundInv => LoopsAreFound
  BY DEF FoundInv
<1> QED BY <1>1, InitTypeInv, NextTypeInv, InitFoundInv, NextFoundInv, PTL DEF Spec

\* Once it has caught up, the subscription covers what has a simulation, or is about to, unless the
\* relationship is astray: one of its requests was not heard, or it was cancelled beside a registration or
\* a restart, so that a removal may arrive after what adds it (MetabolismSubscriptionService.cs:78-134).
THEOREM WatchedAlways == Spec => []Watched
<1>1. CoverInv => Watched
  BY DEF CoverInv, NeededIsCovered, Needed, Watched
<1> QED BY <1>1, InitTypeInv, NextTypeInv, InitCoverInv, NextCoverInv, PTL DEF Spec

\* A simulation goes by what its relationship states once the stream has handed over what was said,
\* through every order of edits, restarts, requests and cancellations (Metabolism.cs:163-201).
THEOREM ConfigFollowsAlways == Spec => []ConfigFollows
<1>1. TypeInv /\ FollowInv => ConfigFollows
  <2> SUFFICES ASSUME TypeInv, FollowInv, subscription = "followed", NEW r \in Kept, NEW p \in Props,
                      Acceptable(p, stated[r][p]), ~ToBeHeard(r, p), <<r, p>> \notin missed
               PROVE  entry[simulations[r]].config[p] = stated[r][p]
    BY DEF ConfigFollows
  <2>1. Settled(r, p) /\ Stream \notin About(r)
    BY DEF ToBeHeard, Settled, Said, About
  <2> QED BY <2>1 DEF FollowInv, EntryFollows
<1> QED BY <1>1, InitTypeInv, NextTypeInv, InitFollowInv, NextFollowInv, PTL DEF Spec
=============================================================================
