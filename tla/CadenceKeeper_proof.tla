------------------------ MODULE CadenceKeeper_proof ------------------------
(***************************************************************************)
(* Proofs about CadenceKeeper for any cadences, speeds and intervals,      *)
(* late deliveries included, and any number and order of troubles.         *)
(***************************************************************************)
EXTENDS CadenceKeeper, SequenceTheorems, TLAPS

-----------------------------------------------------------------------------
\* What CadenceSchedule takes up.

\* Whole steps of b into a, and what is left.
LEMMA Divides ==
    ASSUME NEW a \in Int, NEW b \in Int, b > 0
    PROVE  /\ a \div b \in Int
           /\ a % b \in Int
           /\ a = b * (a \div b) + (a % b)
           /\ 0 <= a % b /\ a % b < b
BY SMT

LEMMA Stretches ==
    ASSUME NEW m \in Int, NEW n \in Int, NEW b \in Int, b > 0
    PROVE  /\ m * b \in Int
           /\ m <= n => m * b <= n * b
           /\ m < n => m * b + b <= n * b
BY SMT

\* A number of steps goes past a where it is more than the whole steps into a.
LEMMA StepsPast ==
    ASSUME NEW a \in Int, NEW b \in Int, b > 0, NEW s \in Int
    PROVE  s * b > a <=> s > a \div b
<1> DEFINE q == a \div b
<1>1. q \in Int /\ q * b <= a /\ a < q * b + b
  BY Divides
<1>2. s > q => s * b >= q * b + b
  BY <1>1, Stretches
<1>3. s <= q => s * b <= q * b
  BY <1>1, Stretches
<1>4. s * b \in Int /\ q * b \in Int
  BY <1>1, Stretches
<1> HIDE DEF q
<1>5. s * b > a <=> s > q
  BY <1>1, <1>2, <1>3, <1>4
<1> QED BY <1>5 DEF q

\* The steps of a look, of a cadence that runs and was due: from the first covered one, or the latest.
LEMMA DueBySteps ==
    ASSUME NEW c \in Cadence, c.interval > 0, c.lastDue # Never,
           NEW now \in Int, c.lastDue <= now, NEW from \in Int
    PROVE  /\ StepsTo(c, now) \in Int /\ StepsTo(c, from) \in Int
           /\ \A t : t \in DueAt(c, now, from)
                    <=> \E s \in 1 .. StepsTo(c, now) : /\ t = c.lastDue + s * c.interval
                                                        /\ (s > StepsTo(c, from) \/ s = StepsTo(c, now))
<1> DEFINE k == StepsTo(c, now)
           e == EarliestCovered(c, from)
<1>1. c.interval \in Int /\ c.lastDue \in Int
  BY DEF Cadence
<1>2. k \in Int /\ StepsTo(c, from) \in Int
  BY <1>1, Divides DEF StepsTo
<1>3. e \in Int /\ \A s \in Int : s >= e <=> s >= 1 /\ s > StepsTo(c, from)
  BY <1>2 DEF EarliestCovered, Larger
<1>4. DueAt(c, now, from)
        = {c.lastDue + s * c.interval : s \in IF k < 1 THEN {} ELSE Smaller(e, k) .. k}
  BY <1>1 DEF DueAt, DueFrom
<1>5. \A s : s \in (IF k < 1 THEN {} ELSE Smaller(e, k) .. k)
             <=> s \in 1 .. k /\ (s > StepsTo(c, from) \/ s = k)
  BY <1>2, <1>3 DEF Smaller
<1> HIDE DEF k, e
<1>6. \A t : t \in DueAt(c, now, from)
             <=> \E s \in 1 .. k : /\ t = c.lastDue + s * c.interval
                                   /\ (s > StepsTo(c, from) \/ s = k)
  BY <1>4, <1>5
<1> QED BY <1>2, <1>6 DEF k

\* An instant missed is a whole number of steps behind the last due one, and not past the latest.
LEMMA MissedBySteps ==
    ASSUME NEW c \in Cadence, c.interval > 0, c.lastDue # Never,
           NEW now \in Int, c.lastDue <= now, NEW t \in Int
    PROVE  Missed(c, t, now) <=> \E s \in 1 .. StepsTo(c, now) : t = c.lastDue + s * c.interval
<1>1. c.interval \in Int /\ c.lastDue \in Int
  BY DEF Cadence
<1>2. StepsTo(c, now) \in Int
  BY <1>1, Divides DEF StepsTo
<1>3. ASSUME Missed(c, t, now)
      PROVE  \E s \in 1 .. StepsTo(c, now) : t = c.lastDue + s * c.interval
  <2> DEFINE s == (t - c.lastDue) \div c.interval
  <2>1. s \in Int /\ t - c.lastDue = c.interval * s
    BY <1>1, <1>3, Divides DEF Missed
  <2>2. s * c.interval = t - c.lastDue /\ s * c.interval > 0 /\ s * c.interval <= now - c.lastDue
    BY <1>1, <1>3, <2>1 DEF Missed
  <2> HIDE DEF s
  <2>3. s >= 1
    <3>1. ASSUME s <= 0 PROVE FALSE
      BY <1>1, <2>1, <2>2, <3>1, Stretches
    <3> QED BY <2>1, <3>1
  <2>4. ~(s > StepsTo(c, now))
    BY <1>1, <2>1, <2>2, StepsPast DEF StepsTo
  <2> QED BY <1>1, <1>2, <2>1, <2>2, <2>3, <2>4
<1>4. ASSUME NEW s \in 1 .. StepsTo(c, now), t = c.lastDue + s * c.interval
      PROVE  Missed(c, t, now)
  <2> DEFINE d == s * c.interval
  <2>1. d \in Int /\ t - c.lastDue = d
    BY <1>1, <1>2, <1>4, Stretches
  <2>2. d > 0
    BY <1>1, <1>2, <2>1, Stretches
  <2>3. d <= now - c.lastDue
    BY <1>1, <1>2, <2>1, StepsPast DEF StepsTo
  <2>4. d % c.interval = 0
    BY <1>1, <1>2
  <2> HIDE DEF d
  <2> QED BY <1>1, <2>1, <2>2, <2>3, <2>4 DEF Missed
<1> QED BY <1>3, <1>4

\* A look takes up exactly the instants a cadence missed that lie in the covered time, and the latest of them
\* (CadenceSchedule.DueAt), for every interval, every instant last due and every time covered.
THEOREM TakesUpWhatWasMissed ==
    ASSUME NEW c \in Cadence, c.interval > 0, c.lastDue # Never,
           NEW now \in Int, c.lastDue <= now, NEW from \in Int
    PROVE  DueAt(c, now, from) = TakenUp(c, now, from)
<1>1. c.interval \in Int /\ c.lastDue \in Int
  BY DEF Cadence
<1>2. StepsTo(c, now) \in Int /\ StepsTo(c, from) \in Int
  BY DueBySteps
<1>3. \A s \in 1 .. StepsTo(c, now) :
         LET t == c.lastDue + s * c.interval IN
            /\ t \in Int
            /\ t > from <=> s > StepsTo(c, from)
            /\ t + c.interval > now <=> s = StepsTo(c, now)
  <2> TAKE s \in 1 .. StepsTo(c, now)
  <2>1. s \in Int /\ s * c.interval \in Int /\ (s + 1) * c.interval = s * c.interval + c.interval
    BY <1>1, <1>2, Stretches
  <2>2. s * c.interval > from - c.lastDue <=> s > StepsTo(c, from)
    BY <1>1, <2>1, StepsPast DEF StepsTo
  <2>3. (s + 1) * c.interval > now - c.lastDue <=> s + 1 > StepsTo(c, now)
    BY <1>1, <2>1, StepsPast DEF StepsTo
  <2>4. c.lastDue + s * c.interval > from <=> s > StepsTo(c, from)
    BY <1>1, <2>1, <2>2
  <2>5. c.lastDue + s * c.interval + c.interval > now <=> s = StepsTo(c, now)
    BY <1>1, <1>2, <2>1, <2>3
  <2> QED BY <1>1, <2>1, <2>4, <2>5
<1>4. \A t \in Int : t \in DueAt(c, now, from)
                     <=> Missed(c, t, now) /\ (t > from \/ t + c.interval > now)
  BY <1>3, DueBySteps, MissedBySteps
<1>5. \A t \in DueAt(c, now, from) : t \in Int
  BY <1>3, DueBySteps
<1>6. \A t : Missed(c, t, now) /\ t \in Int => t \in c.lastDue .. now
  BY <1>1 DEF Missed
<1>7. \A t : t \in TakenUp(c, now, from)
             <=> t \in Int /\ Missed(c, t, now) /\ (t > from \/ t + c.interval > now)
  BY <1>1, <1>6 DEF TakenUp
<1> QED BY <1>4, <1>5, <1>7

-----------------------------------------------------------------------------
\* What the keeper keeps.

\* Where a cadence is due at all, it is due at integers up to now, of which one is the last.
LEMMA DueHasLast ==
    ASSUME NEW c \in Cadence, NEW now \in Int, NEW from \in Int, DueAt(c, now, from) # {}
    PROVE  /\ c.interval > 0
           /\ LastOf(DueAt(c, now, from)) \in DueAt(c, now, from)
           /\ LastOf(DueAt(c, now, from)) \in Int
           /\ DueAt(c, now, from) \subseteq Int
           /\ \A t \in DueAt(c, now, from) : t <= LastOf(DueAt(c, now, from)) /\ t <= now
<1>1. c.interval \in Int /\ (c.lastDue # Never => c.lastDue \in Int)
  BY DEF Cadence
<1>2. c.interval > 0
  BY <1>1 DEF DueAt, DueFrom
<1>3. CASE c.lastDue = Never \/ c.lastDue > now
  <2>1. DueAt(c, now, from) = {now}
    BY <1>2, <1>3 DEF DueAt, DueFrom
  <2>2. LastOf({now}) \in {now}
    BY DEF LastOf
  <2>3. LastOf({now}) = now
    BY <2>2
  <2> QED BY <1>2, <2>1, <2>3
<1>4. CASE c.lastDue # Never /\ c.lastDue <= now
  <2> DEFINE S == DueAt(c, now, from)
             k == StepsTo(c, now)
             InstantOf(s) == c.lastDue + s * c.interval
  <2>1. k \in Int /\ StepsTo(c, from) \in Int
    BY <1>2, <1>4, DueBySteps
  <2>2. \A t : t \in S <=> \E s \in 1 .. k : t = InstantOf(s) /\ (s > StepsTo(c, from) \/ s = k)
    BY <1>2, <1>4, DueBySteps
  <2>3. \A s \in Int : s <= k => InstantOf(s) \in Int /\ InstantOf(s) <= InstantOf(k)
    <3> TAKE s \in Int
    <3>1. s * c.interval \in Int /\ k * c.interval \in Int /\ (s <= k => s * c.interval <= k * c.interval)
      BY <1>1, <1>2, <2>1, Stretches
    <3> QED BY <1>1, <1>4, <3>1
  <2> HIDE DEF S, k, InstantOf
  <2>4. S \subseteq Int /\ InstantOf(k) \in S /\ \A t \in S : t <= InstantOf(k)
    <3>1. \A t \in S : t \in Int /\ t <= InstantOf(k)
      BY <2>1, <2>2, <2>3
    <3>2. \E t : t \in S
      BY DEF S
    <3>3. k \in 1 .. k
      BY <2>1, <2>2, <3>2
    <3> QED BY <2>2, <3>1, <3>3
  <2>5. LastOf(S) \in S /\ \A t \in S : t <= LastOf(S)
    BY <2>4 DEF LastOf
  <2>6. \A t \in S : t <= now
    BY <1>2, <1>4, TakesUpWhatWasMissed DEF S, TakenUp, Missed
  <2> QED BY <1>2, <2>4, <2>5, <2>6 DEF S
<1> QED BY <1>1, <1>3, <1>4
-----------------------------------------------------------------------------
\* What becomes of lists of cadences.
LEMMA CadenceParts ==
    ASSUME NEW c \in Cadence
    PROVE  /\ c.interval \in Int /\ c.lastDue \in Int \union {Never}
           /\ \A i \in Int : [c EXCEPT !.interval = i] \in Cadence
           /\ \A t \in Int \union {Never} : [c EXCEPT !.lastDue = t] \in Cadence
BY DEF Cadence

LEMMA Lists ==
    /\ IsList(Nothing)
    /\ \A h : IsList(h) => \A c : IsList([d \in DOMAIN h \ {c} |-> h[d]])
BY DEF IsList, Nothing

LEMMA KindIsList ==
    ASSUME TypeOK
    PROVE  IsList(InKind)
BY DEF TypeOK, InKind, IsList

LEMMA AppliedIsList ==
    ASSUME NEW h, IsList(h), NEW change \in Changes
    PROVE  IsList(Applied(h, change))
<1>1. CASE change.event = "ThingEntered"
  <2>1. change.of \in Cadences /\ change.to \in Cadence
    BY <1>1 DEF Changes
  <2> QED BY <1>1, <2>1 DEF Applied, IsList
<1>2. CASE change.event = "ThingLeft"
  BY <1>2 DEF Applied, IsList
<1>3. CASE change.event = "intervalMinutes"
  <2>1. change.to \in Int
    BY <1>3 DEF Changes
  <2> QED BY <1>3, <2>1, CadenceParts DEF Applied, IsList
<1>4. CASE change.event = "lastDue"
  <2>1. change.to \in Int \union {Never}
    BY <1>4 DEF Changes
  <2> QED BY <1>4, <2>1, CadenceParts DEF Applied, IsList
<1> QED BY <1>1, <1>2, <1>3, <1>4 DEF Changes

LEMMA MarkedIsList ==
    ASSUME NEW h, IsList(h), NEW c, NEW t \in Int
    PROVE  IsList(MarkedHeld(h, c, t)) \/ MarkedHeld(h, c, t) = Unread
BY CadenceParts DEF MarkedHeld, IsList

LEMMA WaitIsNat ==
    ASSUME NEW failures \in Nat
    PROVE  WaitBeforeLook(failures) \in Nat
BY DEF WaitBeforeLook, Smaller
-----------------------------------------------------------------------------
\* While a look goes on it was noted, and the cadence at hand is one of its list, with the instants it is due at.
Noted == phase \in {"waiting", "looking", "marking", "marked", "resolving"} => lastLook # None

AtHand == phase \in {"marking", "marked", "resolving"} =>
             /\ at \in DOMAIN todo
             /\ due = DueAt(todo[at], lastLook.model, coveredFrom)
             /\ due # {}

\* The stream is read where there is a list to apply it to.
StreamsIntoList == following = "streaming" => IsList(held)

LookInv == Noted /\ AtHand /\ StreamsIntoList

\* Each step's untouched part, named so that a step need not open it.
LEMMA KeeperKept ==
    ASSUME LookInv, UNCHANGED keeper, phase' = phase, StreamsIntoList'
    PROVE  LookInv'
BY DEF LookInv, Noted, AtHand, keeper

LEMMA StreamKept ==
    ASSUME LookInv, UNCHANGED held, following' # "streaming" \/ UNCHANGED following
    PROVE  StreamsIntoList'
BY DEF LookInv, StreamsIntoList

LEMMA LookAtHand ==
    ASSUME TypeOK, LookInv, phase \in {"marking", "marked", "resolving"}
    PROVE  /\ at \in Cadences /\ todo[at] \in Cadence
           /\ lastLook.model \in Int
           /\ LastOf(due) \in Int
           /\ due \subseteq Int
           /\ todo[at].interval > 0
<1>1. at \in DOMAIN todo /\ lastLook # None
  BY DEF LookInv, Noted, AtHand
<1>2. at \in Cadences /\ todo[at] \in Cadence
  BY <1>1 DEF TypeOK, IsList
<1>3. lastLook.model \in Int /\ coveredFrom \in Int
  BY <1>1 DEF TypeOK
<1> QED BY <1>2, <1>3, DueHasLast DEF LookInv, AtHand

LEMMA InitInv == Init => TypeOK /\ LookInv
<1> SUFFICES ASSUME Init PROVE TypeOK /\ LookInv
  OBVIOUS
<1>1. IsList(Nothing)
  BY Lists
<1>2. stored \in [Cadences -> Cadence]
  BY KeeperAssumption DEF Init
<1> QED BY <1>1, <1>2, KeeperAssumption DEF Init, TypeOK, LookInv, Noted, AtHand, StreamsIntoList
-----------------------------------------------------------------------------
(***************************************************************************)
(* Each step keeps the types and LookInv.                                  *)
(***************************************************************************)
LEMMA ClockKeeps ==
    ASSUME TypeOK, LookInv, ClockStep
    PROVE  TypeOK' /\ LookInv'
<1> USE KeeperAssumption, StreamKept DEF TypeOK, clocks, broker, gateway, keeper, started
<1>1. CASE Tick
  <2>1. model + 1 .. model + speed \subseteq Int
    OBVIOUS
  <2>2. ran' \subseteq ran \union (model + 1 .. model + speed)
    BY <1>1 DEF Tick
  <2>3. ran' \subseteq Int
    BY <2>1, <2>2
  <2> QED BY <1>1, <2>3, KeeperKept, SMTT(30) DEF Tick
<1>2. CASE FollowOnce
  BY <1>2, KeeperKept DEF FollowOnce
<1>3. CASE ChangeSpeed
  BY <1>3, KeeperKept DEF ChangeSpeed, Trouble
<1>4. CASE JumpAhead
  BY <1>4, KeeperKept DEF JumpAhead, Trouble
<1> QED BY <1>1, <1>2, <1>3, <1>4 DEF ClockStep

LEMMA Publishes ==
    ASSUME TypeOK, NEW change \in Changes, Publish(change) \/ UNCHANGED stream
    PROVE  stream' \in Seq(Changes)
<1>1. stream \in Seq(Changes) /\ Append(stream, change) \in Seq(Changes)
  BY DEF TypeOK
<1> QED BY <1>1 DEF Publish

LEMMA EditKeeps ==
    ASSUME TypeOK, LookInv, EditStep
    PROVE  TypeOK' /\ LookInv'
<1> USE KeeperAssumption, StreamKept DEF TypeOK, clocks, broker, gateway, keeper, started
<1>1. ASSUME NEW c \in Cadences, NEW e \in Drawn, EditInterval(c, e.interval)
      PROVE  TypeOK' /\ LookInv'
  <2>1. e.interval \in Int /\ stored' \in [Cadences -> Cadence]
    BY <1>1, CadenceParts DEF EditInterval
  <2>2. [event |-> "intervalMinutes", of |-> c, to |-> e.interval] \in Changes
    BY <2>1 DEF Changes
  <2>3. stream' \in Seq(Changes)
    BY <1>1, <2>2, Publishes DEF EditInterval
  <2>4. troubles' \in Nat
    BY <1>1 DEF EditInterval, Trouble
  <2>5. TypeOK'
    BY <1>1, <2>1, <2>3, <2>4 DEF EditInterval
  <2> QED BY <1>1, <2>5, KeeperKept DEF EditInterval
<1>2. ASSUME NEW c \in Cadences, NEW e \in Drawn, EditLastDue(c, e.lastDue)
      PROVE  TypeOK' /\ LookInv'
  <2>1. e.lastDue \in Int \union {Never} /\ stored' \in [Cadences -> Cadence]
    BY <1>2, CadenceParts DEF EditLastDue
  <2>2. [event |-> "lastDue", of |-> c, to |-> e.lastDue] \in Changes
    BY <2>1 DEF Changes
  <2>3. stream' \in Seq(Changes)
    BY <1>2, <2>2, Publishes DEF EditLastDue
  <2>4. troubles' \in Nat
    BY <1>2 DEF EditLastDue, Trouble
  <2>5. TypeOK'
    BY <1>2, <2>1, <2>3, <2>4 DEF EditLastDue
  <2> QED BY <1>2, <2>5, KeeperKept DEF EditLastDue
<1>3. ASSUME NEW c \in Cadences, EnterKind(c)
      PROVE  TypeOK' /\ LookInv'
  <2>1. [event |-> "ThingEntered", of |-> c, to |-> stored[c]] \in Changes
    BY DEF Changes
  <2>2. stream' \in Seq(Changes)
    BY <1>3, <2>1, Publishes DEF EnterKind
  <2> QED BY <1>3, <2>2, KeeperKept DEF EnterKind, Trouble
<1>4. ASSUME NEW c \in Cadences, LeaveKind(c)
      PROVE  TypeOK' /\ LookInv'
  <2>1. [event |-> "ThingLeft", of |-> c] \in Changes
    BY DEF Changes
  <2>2. stream' \in Seq(Changes)
    BY <1>4, <2>1, Publishes DEF LeaveKind
  <2> QED BY <1>4, <2>2, KeeperKept DEF LeaveKind, Trouble
<1> QED BY <1>1, <1>2, <1>3, <1>4 DEF EditStep

LEMMA FollowKeeps ==
    ASSUME TypeOK, LookInv, FollowStep \/ StreamEnds
    PROVE  TypeOK' /\ LookInv'
<1> USE StreamKept DEF TypeOK, clocks, broker, gateway, keeper, started
<1>1. CASE Ask
  BY <1>1, KeeperKept DEF Ask
<1>2. CASE Subscribe
  BY <1>2, KeeperKept, KindIsList DEF Subscribe
<1>3. CASE NoteFailure
  <2>1. PICK how \in Failures :
           /\ following = "asking" /\ FailsAs(how) /\ following' = "away"
           /\ failed' = IF held = Unread THEN how ELSE failed
           /\ phase' = IF held = Unread /\ phase = "waiting" THEN how ELSE phase
           /\ UNCHANGED <<clocks, broker, snapshot, held, stream, keeper, started>>
    BY <1>3 DEF NoteFailure
  <2>2. troubles' \in Nat
    BY <2>1 DEF FailsAs, Trouble
  <2>3. phase' \in {phase, how}
    BY <2>1
  <2>4. TypeOK'
    BY <2>1, <2>2, <2>3
  <2>5. LookInv'
    BY <2>1, <2>3 DEF LookInv, Noted, AtHand, Failures, StreamsIntoList
  <2> QED BY <2>4, <2>5
<1>4. CASE Replace
  <2>1. StreamsIntoList'
    BY <1>4 DEF Replace, StreamsIntoList, IsList
  <2> QED BY <1>4, <2>1, KeeperKept, Lists DEF Replace, ChangeHeard
<1>5. CASE Apply
  <2>1. Head(stream) \in Changes /\ Tail(stream) \in Seq(Changes)
    BY <1>5 DEF Apply
  <2>2. IsList(held')
    BY <1>5, <2>1, AppliedIsList DEF Apply, LookInv, StreamsIntoList
  <2>3. StreamsIntoList'
    BY <2>2 DEF StreamsIntoList, IsList
  <2> QED BY <1>5, <2>1, <2>2, <2>3, KeeperKept DEF Apply, ChangeHeard
<1>6. CASE StreamEnds
  BY <1>6, KeeperKept DEF StreamEnds, Trouble
<1> QED BY <1>1, <1>2, <1>3, <1>4, <1>5, <1>6 DEF FollowStep

LEMMA LookKeeps ==
    ASSUME TypeOK, LookInv, Look
    PROVE  TypeOK' /\ LookInv'
<1> DEFINE from == IF lastLook = None THEN clock ELSE Larger(lastLook.model, clock - Window(2))
<1>1. from \in Int
  <2>1. CASE lastLook = None
    BY <2>1 DEF TypeOK
  <2>2. CASE lastLook # None
    <3>1. lastLook.model \in Int /\ lastLook.real \in Int /\ clock \in Int /\ rate \in Int /\ real \in Int
      BY <2>2 DEF TypeOK
    <3>2. ModelClockInterval \in Int
      BY KeeperAssumption
    <3>3. (real - lastLook.real + ModelClockInterval) \in Int
      BY <3>1, <3>2
    <3>4. 2 * (real - lastLook.real + ModelClockInterval) * rate \in Int
      BY <3>1, <3>3
    <3> QED BY <2>2, <3>1, <3>4 DEF Window, Larger
  <2> QED BY <2>1, <2>2
<1>2. LookCovering(from)
  BY DEF Look
<1> HIDE DEF from
<1>3. lastLook' \in [model : Int, real : Nat]
  BY <1>2 DEF LookCovering, TypeOK
<1>4. lastLook' # None
  BY <1>3, KeeperAssumption
<1>5. ran' \subseteq Int
  BY <1>2 DEF LookCovering, TypeOK
<1>6. TypeOK'
  BY <1>1, <1>2, <1>3, <1>5 DEF LookCovering, TypeOK, broker, started
<1>7. phase' \in {"looking", "waiting", "none"} \union Failures
  BY <1>2 DEF LookCovering, TypeOK
<1>8. LookInv'
  BY <1>2, <1>4, <1>7 DEF LookCovering, LookInv, Noted, AtHand, StreamsIntoList, Failures
<1> QED BY <1>6, <1>8

LEMMA HandleKeeps ==
    ASSUME TypeOK, LookInv, NEW c \in Cadences, Handle(c)
    PROVE  TypeOK' /\ LookInv'
<1> DEFINE instants == DueAt(todo[c], lastLook.model, coveredFrom)
<1>1. lastLook # None /\ todo[c] \in Cadence
  BY DEF Handle, LookInv, Noted, TypeOK, IsList
<1>2. lastLook.model \in Int /\ coveredFrom \in Int
  BY <1>1 DEF TypeOK
<1>3. instants # {} => instants \subseteq Int
  BY <1>1, <1>2, DueHasLast
<1>4. StreamsIntoList'
  BY StreamKept DEF Handle, gateway
<1>5. \/ (instants = {} /\ todo' = Without(c) /\ UNCHANGED <<phase, at, due>>)
      \/ (instants # {} /\ at' = c /\ due' = instants /\ phase' = "marking" /\ UNCHANGED todo)
  BY DEF Handle
<1>6. IsList(Without(c))
  BY Lists DEF TypeOK, Without
<1> HIDE DEF instants
<1>7. TypeOK'
  BY <1>3, <1>5, <1>6 DEF Handle, TypeOK, clocks, broker, gateway, started
<1>8. LookInv'
  BY <1>1, <1>4, <1>5 DEF instants, Handle, LookInv, Noted, AtHand
<1> QED BY <1>7, <1>8

LEMMA NextCadenceKeeps ==
    ASSUME TypeOK, LookInv, phase \in {"marking", "marked", "resolving"}, NextCadence,
           UNCHANGED <<held, following, lastLook>>
    PROVE  /\ IsList(todo') /\ at' = None /\ due' = {} /\ phase' = "looking"
           /\ LookInv'
<1>1. IsList(Without(at))
  BY Lists DEF TypeOK, Without
<1>2. StreamsIntoList'
  BY StreamKept
<1> QED BY <1>1, <1>2 DEF NextCadence, LookInv, Noted, AtHand

LEMMA MarkKeeps ==
    ASSUME TypeOK, LookInv, LandMark \/ MarkDue \/ MarkFails
    PROVE  TypeOK' /\ LookInv'
<1>1. at \in Cadences /\ LastOf(due) \in Int
  BY LookAtHand DEF LandMark, MarkDue, MarkDueWith, MarkFails
<1>2. CASE LandMark
  <2>1. [event |-> "lastDue", of |-> at, to |-> LastOf(due)] \in Changes
    BY <1>1 DEF Changes
  <2>2. stream' \in Seq(Changes)
    BY <1>2, <2>1, Publishes DEF LandMark
  <2>3. stored' \in [Cadences -> Cadence]
    BY <1>1, <1>2, CadenceParts DEF LandMark, TypeOK
  <2>4. TypeOK'
    BY <1>1, <1>2, <2>2, <2>3 DEF LandMark, TypeOK, clocks, gateway, keeper
  <2>5. LookInv'
    BY <1>2, StreamKept DEF LandMark, LookInv, Noted, AtHand, keeper, gateway
  <2> QED BY <2>4, <2>5
<1>3. CASE MarkDue
  <2>1. held = Unread => held' = Unread
    BY <1>3 DEF MarkDue, MarkDueWith, MarkedHeld
  <2>2. IsList(held) => IsList(held') \/ held' = Unread
    BY <1>1, <1>3, MarkedIsList DEF MarkDue, MarkDueWith
  <2>3. TypeOK'
    BY <1>3, <2>1, <2>2 DEF MarkDue, MarkDueWith, TypeOK, clocks, broker, keeper, started
  <2>4. IsList(held) => held # Unread
    BY KeeperAssumption DEF IsList
  <2>5. IsList(held) => IsList(held')
    BY <1>1, <1>3, <2>4, CadenceParts DEF MarkDue, MarkDueWith, MarkedHeld, IsList
  <2>6. StreamsIntoList'
    BY <1>3, <2>5 DEF MarkDue, MarkDueWith, LookInv, StreamsIntoList
  <2>7. LookInv'
    BY <1>3, <2>6 DEF MarkDue, MarkDueWith, LookInv, Noted, AtHand, keeper
  <2> QED BY <2>3, <2>7
<1>4. CASE MarkFails
  <2>1. /\ IsList(todo') /\ at' = None /\ due' = {} /\ phase' = "looking"
        /\ LookInv'
    BY <1>4, NextCadenceKeeps DEF MarkFails, gateway
  <2> QED BY <1>4, <2>1 DEF MarkFails, Trouble, TypeOK, clocks, broker, gateway, started
<1> QED BY <1>2, <1>3, <1>4

LEMMA ResolveKeeps ==
    ASSUME TypeOK, LookInv, Start \/ Refuse \/ LookBreaks
    PROVE  TypeOK' /\ LookInv'
<1>1. at \in Cadences /\ due \subseteq Int
  BY LookAtHand DEF Start, Refuse, LookBreaks
<1>2. CASE Start
  <2>1. /\ IsList(todo') /\ at' = None /\ due' = {} /\ phase' = "looking"
        /\ LookInv'
    BY <1>2, NextCadenceKeeps DEF Start, gateway
  <2>2. runs' \subseteq Cadences \X Int /\ twice' \subseteq runs'
    BY <1>1, <1>2 DEF Start, TypeOK
  <2> QED BY <1>2, <2>1, <2>2 DEF Start, TypeOK, clocks, broker, gateway
<1>3. CASE Refuse
  <2>1. /\ IsList(todo') /\ at' = None /\ due' = {} /\ phase' = "looking"
        /\ LookInv'
    BY <1>3, NextCadenceKeeps DEF Refuse, gateway
  <2> QED BY <1>3, <2>1 DEF Refuse, Trouble, TypeOK, clocks, broker, gateway, started
<1>4. CASE LookBreaks
  <2>1. phase' \in Failures /\ troubles' \in Nat
    BY <1>4 DEF LookBreaks, Trouble, TypeOK, Failures
  <2>2. TypeOK'
    BY <1>4, <2>1 DEF LookBreaks, TypeOK, clocks, broker, gateway, keeper, started
  <2>3. LookInv'
    BY <1>4, <2>1, StreamKept DEF LookBreaks, LookInv, Noted, AtHand, keeper, gateway, Failures
  <2> QED BY <2>2, <2>3
<1> QED BY <1>2, <1>3, <1>4

LEMMA EndKeeps ==
    ASSUME TypeOK, LookInv, ReadHeld \/ LookEnds \/ LookFails \/ KeeperEnds \/ Crash
    PROVE  TypeOK' /\ LookInv'
<1>1. CASE ReadHeld
  <2>1. TypeOK'
    BY <1>1 DEF ReadHeld, TypeOK, clocks, broker, gateway, started
  <2> QED BY <1>1, <2>1, StreamKept DEF ReadHeld, LookInv, Noted, AtHand, gateway
<1>2. ASSUME NEW failures \in Nat, EndLook(failures)
      PROVE  TypeOK' /\ LookInv'
  <2>1. lookAt' \in Nat /\ ran' \subseteq Int
    <3>1. real \in Nat /\ WaitBeforeLook(failures) \in Nat
      BY WaitIsNat DEF TypeOK
    <3>2. lookAt' = real + WaitBeforeLook(failures) /\ (ran' = ran \/ ran' = {})
      BY <1>2 DEF EndLook
    <3>3. lookAt' \in Nat
      BY <3>1, <3>2
    <3> QED BY <3>2, <3>3 DEF TypeOK
  <2>2. /\ phase' = "idle" /\ failuresInARow' = failures
        /\ todo' = Nothing /\ at' = None /\ due' = {}
        /\ UNCHANGED <<real, model, speed, clock, rate, askAt, kind, stored, following, snapshot, held, failed, stream,
                       lastLook, coveredFrom, runs, twice, edited, unheard, troubles>>
    BY <1>2 DEF EndLook, broker, gateway, started
  <2>3. TypeOK'
    BY <2>1, <2>2, Lists DEF TypeOK
  <2> QED BY <1>2, <2>3, StreamKept DEF EndLook, LookInv, Noted, AtHand, gateway
<1>3. LookEnds \/ LookFails => \E failures \in Nat : EndLook(failures)
  BY DEF LookEnds, LookFails, TypeOK
<1>4. CASE KeeperEnds
  <2>1. TypeOK'
    BY <1>4 DEF KeeperEnds, TypeOK, clocks, broker, gateway, keeper, started
  <2> QED BY <1>4, <2>1, StreamKept DEF KeeperEnds, LookInv, Noted, AtHand, keeper, gateway
<1>5. CASE Crash
  <2>1. {real', askAt', lookAt', speed', rate', failuresInARow', troubles'} \subseteq Nat
    BY <1>5 DEF Crash, Trouble, TypeOK
  <2>2. {model', clock'} \subseteq Int
    BY <1>5, KeeperAssumption DEF Crash, TypeOK
  <2>3. stream' \in Seq(Changes)
    BY <1>5 DEF Crash
  <2>4. TypeOK'
    BY <1>5, <2>1, <2>2, <2>3, Lists DEF Crash, TypeOK, broker, started
  <2> QED BY <1>5, <2>4 DEF Crash, LookInv, Noted, AtHand, StreamsIntoList
<1> QED BY <1>1, <1>2, <1>3, <1>4, <1>5

LEMMA NextKeeps == TypeOK /\ LookInv /\ [Next]_vars => TypeOK' /\ LookInv'
<1> SUFFICES ASSUME TypeOK, LookInv, [Next]_vars PROVE TypeOK' /\ LookInv'
  OBVIOUS
<1>1. CASE ClockStep
  BY <1>1, ClockKeeps
<1>2. CASE EditStep
  BY <1>2, EditKeeps
<1>3. CASE FollowStep \/ StreamEnds
  BY <1>3, FollowKeeps
<1>4. CASE Look
  BY <1>4, LookKeeps
<1>5. CASE LookStep
  <2>1. ASSUME NEW c \in Cadences, Handle(c) PROVE TypeOK' /\ LookInv'
    BY <2>1, HandleKeeps
  <2> QED BY <1>5, <2>1, MarkKeeps, ResolveKeeps, EndKeeps DEF LookStep
<1>6. CASE Crash
  BY <1>6, EndKeeps
<1>7. CASE UNCHANGED vars
  <2>1. TypeOK'
    BY <1>7 DEF vars, TypeOK, clocks, broker, gateway, keeper, started
  <2>2. StreamsIntoList'
    BY <1>7, StreamKept DEF vars, gateway
  <2> QED BY <1>7, <2>1, <2>2, KeeperKept DEF vars
<1> QED BY <1>1, <1>2, <1>3, <1>4, <1>5, <1>6, <1>7 DEF Next

\* The state of the keeper, its clocks, its broker and its gateway keep their types, whatever goes wrong how often.
THEOREM TypeCorrect == Spec => []TypeOK
BY InitInv, NextKeeps, PTL DEF Spec

\* Each look takes up of each cadence what it missed in the covered time and the latest before, for all clocks,
\* speeds, jumps, edits, restarts and late deliveries (LookAsync with CadenceSchedule.DueAt).
THEOREM LooksAsSaid == Spec => []DueAsSaid
<1>1. TypeOK /\ LookInv => DueAsSaid
  <2> SUFFICES ASSUME TypeOK, LookInv, phase = "marking",
                      todo[at].lastDue # Never, todo[at].lastDue <= lastLook.model
               PROVE  due = TakenUp(todo[at], lastLook.model, coveredFrom)
    BY DEF DueAsSaid
  <2>1. todo[at] \in Cadence /\ todo[at].interval > 0 /\ lastLook.model \in Int
    BY LookAtHand
  <2>2. coveredFrom \in Int /\ due = DueAt(todo[at], lastLook.model, coveredFrom)
    BY DEF TypeOK, LookInv, AtHand
  <2> QED BY <2>1, <2>2, TakesUpWhatWasMissed
<1> QED BY <1>1, InitInv, NextKeeps, PTL DEF Spec
-----------------------------------------------------------------------------
(***************************************************************************)
(* What is held against what the broker keeps: the last change on the way  *)
(* that tells of a cadence tells what the broker keeps of it now, and      *)
(* where none does, what is held (or the snapshot on its way) says so.     *)
(***************************************************************************)
LastIn(s, events, right, before) ==
    \/ \E i \in 1 .. Len(s) : s[i] \in events /\ s[i] \in right /\ \A j \in i + 1 .. Len(s) : s[j] \notin events
    \/ before /\ \A j \in 1 .. Len(s) : s[j] \notin events

LEMMA LastInEmpty ==
    ASSUME NEW events, NEW right, NEW before \in BOOLEAN, before
    PROVE  LastIn(<<>>, events, right, before)
BY DEF LastIn

LEMMA LastInWeaker ==
    ASSUME NEW s, NEW events, NEW right, NEW before \in BOOLEAN, NEW weaker \in BOOLEAN,
           LastIn(s, events, right, before), before => weaker
    PROVE  LastIn(s, events, right, weaker)
BY DEF LastIn

LEMMA LastInAppended ==
    ASSUME NEW s \in Seq(Changes), NEW x \in Changes, NEW events, NEW right, NEW before \in BOOLEAN
    PROVE  /\ x \in events /\ x \in right => LastIn(Append(s, x), events, right, before)
           /\ x \notin events /\ LastIn(s, events, right, before) => LastIn(Append(s, x), events, right, before)
<1> DEFINE longer == Append(s, x)
<1>1. Len(longer) = Len(s) + 1 /\ Len(s) \in Nat
  OBVIOUS
<1>2. longer[Len(s) + 1] = x /\ \A i \in 1 .. Len(s) : longer[i] = s[i]
  OBVIOUS
<1> HIDE DEF longer
<1>3. ASSUME x \in events, x \in right
      PROVE  LastIn(longer, events, right, before)
  <2>1. Len(s) + 1 \in 1 .. Len(longer) /\ (Len(s) + 1) + 1 .. Len(longer) = {}
    BY <1>1
  <2> QED BY <1>2, <1>3, <2>1 DEF LastIn
<1>4. ASSUME x \notin events, LastIn(s, events, right, before)
      PROVE  LastIn(longer, events, right, before)
  <2>1. ASSUME NEW i \in 1 .. Len(s), s[i] \in events, s[i] \in right,
               \A j \in i + 1 .. Len(s) : s[j] \notin events
        PROVE  LastIn(longer, events, right, before)
    <3>1. i \in 1 .. Len(longer) /\ longer[i] = s[i]
      BY <1>1, <1>2
    <3>2. \A j \in i + 1 .. Len(longer) : longer[j] \notin events
      BY <1>1, <1>2, <1>4, <2>1
    <3> QED BY <2>1, <3>1, <3>2 DEF LastIn
  <2>2. ASSUME before, \A j \in 1 .. Len(s) : s[j] \notin events
        PROVE  LastIn(longer, events, right, before)
    <3>1. \A j \in 1 .. Len(longer) : longer[j] \notin events
      BY <1>1, <1>2, <1>4, <2>2
    <3> QED BY <2>2, <3>1 DEF LastIn
  <2> QED BY <1>4, <2>1, <2>2 DEF LastIn
<1> QED BY <1>3, <1>4 DEF longer

LEMMA LastInTail ==
    ASSUME NEW s \in Seq(Changes), s # <<>>, NEW events, NEW right,
           NEW before \in BOOLEAN, NEW after \in BOOLEAN,
           LastIn(s, events, right, before),
           Head(s) \in events /\ Head(s) \in right => after,
           Head(s) \notin events /\ before => after
    PROVE  LastIn(Tail(s), events, right, after)
<1> DEFINE rest == Tail(s)
<1>1. Len(rest) = Len(s) - 1 /\ Len(s) \in Nat \ {0} /\ Head(s) = s[1]
  OBVIOUS
<1>2. \A i \in 1 .. Len(rest) : rest[i] = s[i + 1]
  OBVIOUS
<1> HIDE DEF rest
<1>3. ASSUME NEW i \in 1 .. Len(s), s[i] \in events, s[i] \in right,
             \A j \in i + 1 .. Len(s) : s[j] \notin events
      PROVE  LastIn(rest, events, right, after)
  <2>1. CASE i = 1
    <3>1. after
      BY <1>1, <1>3, <2>1
    <3>2. \A j \in 1 .. Len(rest) : rest[j] \notin events
      BY <1>1, <1>2, <1>3, <2>1
    <3> QED BY <3>1, <3>2 DEF LastIn
  <2>2. CASE i # 1
    <3>1. i - 1 \in 1 .. Len(rest) /\ rest[i - 1] = s[i]
      BY <1>1, <1>2, <2>2
    <3>2. \A j \in (i - 1) + 1 .. Len(rest) : rest[j] \notin events
      BY <1>1, <1>2, <1>3
    <3> QED BY <1>3, <3>1, <3>2 DEF LastIn
  <2> QED BY <2>1, <2>2
<1>4. ASSUME before, \A j \in 1 .. Len(s) : s[j] \notin events
      PROVE  LastIn(rest, events, right, after)
  <2>1. after
    BY <1>1, <1>4
  <2>2. \A j \in 1 .. Len(rest) : rest[j] \notin events
    BY <1>1, <1>2, <1>4
  <2> QED BY <2>1, <2>2 DEF LastIn
<1> QED BY <1>3, <1>4 DEF LastIn, rest

\* The changes that tell of a cadence whether it is one, its interval, and the instant it was last due; and which
\* of all changes tell it as it is.
KindEvents(c)     == {e \in Changes : e.of = c /\ e.event \in {"ThingEntered", "ThingLeft"}}
IntervalEvents(c) == {e \in Changes : e.of = c /\ e.event \in {"ThingEntered", "intervalMinutes"}}
DueEvents(c)      == {e \in Changes : e.of = c /\ e.event \in {"ThingEntered", "lastDue"}}

RightKind(is)     == {e \in Changes : e.event = (IF is THEN "ThingEntered" ELSE "ThingLeft")}
RightInterval(i)  == {e \in Changes : (IF e.event = "ThingEntered" THEN e.to.interval ELSE e.to) = i}
RightDue(t)       == {e \in Changes : (IF e.event = "ThingEntered" THEN e.to.lastDue ELSE e.to) = t}

\* What a list says of a cadence.
SaysKind(list, c, is)    == (c \in DOMAIN list) <=> is
SaysInterval(list, c, i) == c \in DOMAIN list => list[c].interval = i
SaysDue(list, c, t)      == c \in DOMAIN list => list[c].lastDue = t

\* A list and the changes on the way to it tell of a cadence whether it is one, and what it states if so, the instant
\* it was last due where that is not left open.
Known(c, s, list, is, st, open) ==
    /\ LastIn(s, KindEvents(c), RightKind(is), SaysKind(list, c, is))
    /\ is => /\ LastIn(s, IntervalEvents(c), RightInterval(st.interval), SaysInterval(list, c, st.interval))
             /\ open \/ LastIn(s, DueEvents(c), RightDue(st.lastDue), SaysDue(list, c, st.lastDue))

LEMMA LastInTold ==
    ASSUME NEW s \in Seq(Changes), NEW x \in Changes, NEW events, NEW right, NEW before \in BOOLEAN,
           x \in events, x \in right
    PROVE  LastIn(Append(s, x), events, right, before)
BY LastInAppended

LEMMA LastInUntold ==
    ASSUME NEW s \in Seq(Changes), NEW x \in Changes, NEW events, NEW right, NEW before \in BOOLEAN,
           x \notin events, LastIn(s, events, right, before)
    PROVE  LastIn(Append(s, x), events, right, before)
BY LastInAppended

LEMMA SaysBoolean ==
    ASSUME NEW list, NEW c, NEW is \in BOOLEAN, NEW v
    PROVE  /\ SaysKind(list, c, is) \in BOOLEAN
           /\ SaysInterval(list, c, v) \in BOOLEAN
           /\ SaysDue(list, c, v) \in BOOLEAN
BY DEF SaysKind, SaysInterval, SaysDue

LEMMA KnownFresh ==
    ASSUME NEW c, NEW list, NEW is \in BOOLEAN, NEW st, NEW open,
           (c \in DOMAIN list) <=> is, is => list[c] = st
    PROVE  Known(c, <<>>, list, is, st, open)
<1>1. SaysKind(list, c, is) /\ (is => SaysInterval(list, c, st.interval) /\ SaysDue(list, c, st.lastDue))
  BY DEF SaysKind, SaysInterval, SaysDue
<1> QED BY <1>1, SaysBoolean, LastInEmpty DEF Known

LEMMA KnownOther ==
    ASSUME NEW c, NEW s \in Seq(Changes), NEW list, NEW is \in BOOLEAN, NEW st, NEW open,
           Known(c, s, list, is, st, open), NEW x \in Changes, x.of # c
    PROVE  Known(c, Append(s, x), list, is, st, open)
<1>1. x \notin KindEvents(c) /\ x \notin IntervalEvents(c) /\ x \notin DueEvents(c)
  BY DEF KindEvents, IntervalEvents, DueEvents
<1> QED BY <1>1, SaysBoolean, LastInAppended DEF Known

LEMMA KnownEntered ==
    ASSUME NEW c \in Cadences, NEW s \in Seq(Changes), NEW list, NEW st \in Cadence, NEW open
    PROVE  Known(c, Append(s, [event |-> "ThingEntered", of |-> c, to |-> st]), list, TRUE, st, open)
<1> DEFINE x == [event |-> "ThingEntered", of |-> c, to |-> st]
<1>1. x \in Changes /\ x.event = "ThingEntered" /\ x.of = c /\ x.to = st
  BY DEF Changes
<1> HIDE DEF x
<1>2. /\ x \in KindEvents(c) /\ x \in IntervalEvents(c) /\ x \in DueEvents(c)
      /\ x \in RightKind(TRUE) /\ x \in RightInterval(st.interval) /\ x \in RightDue(st.lastDue)
  BY <1>1 DEF KindEvents, IntervalEvents, DueEvents, RightKind, RightInterval, RightDue
<1>3. Known(c, Append(s, x), list, TRUE, st, open)
  BY <1>1, <1>2, SaysBoolean, LastInAppended DEF Known
<1> QED BY <1>3 DEF x

LEMMA KnownLeft ==
    ASSUME NEW c \in Cadences, NEW s \in Seq(Changes), NEW list, NEW st, NEW open
    PROVE  Known(c, Append(s, [event |-> "ThingLeft", of |-> c]), list, FALSE, st, open)
<1> DEFINE x == [event |-> "ThingLeft", of |-> c]
<1>1. x \in Changes /\ x.event = "ThingLeft" /\ x.of = c
  BY DEF Changes
<1> HIDE DEF x
<1>2. x \in KindEvents(c) /\ x \in RightKind(FALSE)
  BY <1>1 DEF KindEvents, RightKind
<1>3. Known(c, Append(s, x), list, FALSE, st, open)
  BY <1>1, <1>2, SaysBoolean, LastInAppended DEF Known
<1> QED BY <1>3 DEF x

LEMMA KnownInterval ==
    ASSUME NEW c \in Cadences, NEW s \in Seq(Changes), NEW list, NEW st \in Cadence, NEW open,
           Known(c, s, list, TRUE, st, open), NEW i \in Int
    PROVE  Known(c, Append(s, [event |-> "intervalMinutes", of |-> c, to |-> i]), list, TRUE,
                 [st EXCEPT !.interval = i], open)
<1> DEFINE x == [event |-> "intervalMinutes", of |-> c, to |-> i]
           now == [st EXCEPT !.interval = i]
<1>1. x \in Changes /\ x.event = "intervalMinutes" /\ x.of = c /\ x.to = i
  BY DEF Changes
<1>2. now.interval = i /\ now.lastDue = st.lastDue
  BY DEF Cadence
<1> HIDE DEF x, now
<1>3. /\ x \notin KindEvents(c) /\ x \in IntervalEvents(c) /\ x \notin DueEvents(c)
      /\ x \in RightInterval(i)
  BY <1>1 DEF KindEvents, IntervalEvents, DueEvents, RightInterval
<1>0. /\ LastIn(s, KindEvents(c), RightKind(TRUE), SaysKind(list, c, TRUE))
      /\ LastIn(s, IntervalEvents(c), RightInterval(st.interval), SaysInterval(list, c, st.interval))
      /\ open \/ LastIn(s, DueEvents(c), RightDue(st.lastDue), SaysDue(list, c, st.lastDue))
  BY DEF Known
<1>4. LastIn(Append(s, x), KindEvents(c), RightKind(TRUE), SaysKind(list, c, TRUE))
  <2>1. SaysKind(list, c, TRUE) \in BOOLEAN
    BY SaysBoolean
  <2> QED BY <1>0, <1>1, <1>3, <2>1, LastInUntold
<1>5. LastIn(Append(s, x), IntervalEvents(c), RightInterval(now.interval), SaysInterval(list, c, now.interval))
  <2>1. SaysInterval(list, c, now.interval) \in BOOLEAN
    BY SaysBoolean
  <2> QED BY <1>0, <1>1, <1>2, <1>3, <2>1, LastInTold
<1>6. ASSUME ~open PROVE LastIn(Append(s, x), DueEvents(c), RightDue(now.lastDue), SaysDue(list, c, now.lastDue))
  <2>1. SaysDue(list, c, now.lastDue) \in BOOLEAN
    BY SaysBoolean
  <2> QED BY <1>0, <1>1, <1>2, <1>3, <1>6, <2>1, LastInUntold
<1>7. Known(c, Append(s, x), list, TRUE, now, open)
  BY <1>4, <1>5, <1>6 DEF Known
<1> QED BY <1>7 DEF x, now

LEMMA KnownDue ==
    ASSUME NEW c \in Cadences, NEW s \in Seq(Changes), NEW list, NEW st \in Cadence, NEW open,
           Known(c, s, list, TRUE, st, open), NEW t \in Int \union {Never}
    PROVE  Known(c, Append(s, [event |-> "lastDue", of |-> c, to |-> t]), list, TRUE,
                 [st EXCEPT !.lastDue = t], open)
<1> DEFINE x == [event |-> "lastDue", of |-> c, to |-> t]
           now == [st EXCEPT !.lastDue = t]
<1>1. x \in Changes /\ x.event = "lastDue" /\ x.of = c /\ x.to = t
  BY DEF Changes
<1>2. now.lastDue = t /\ now.interval = st.interval
  BY DEF Cadence
<1> HIDE DEF x, now
<1>3. /\ x \notin KindEvents(c) /\ x \notin IntervalEvents(c) /\ x \in DueEvents(c)
      /\ x \in RightDue(t)
  BY <1>1 DEF KindEvents, IntervalEvents, DueEvents, RightDue
<1>0. /\ LastIn(s, KindEvents(c), RightKind(TRUE), SaysKind(list, c, TRUE))
      /\ LastIn(s, IntervalEvents(c), RightInterval(st.interval), SaysInterval(list, c, st.interval))
      /\ open \/ LastIn(s, DueEvents(c), RightDue(st.lastDue), SaysDue(list, c, st.lastDue))
  BY DEF Known
<1>4. LastIn(Append(s, x), KindEvents(c), RightKind(TRUE), SaysKind(list, c, TRUE))
  <2>1. SaysKind(list, c, TRUE) \in BOOLEAN
    BY SaysBoolean
  <2> QED BY <1>0, <1>1, <1>3, <2>1, LastInUntold
<1>5. LastIn(Append(s, x), IntervalEvents(c), RightInterval(now.interval), SaysInterval(list, c, now.interval))
  <2>1. SaysInterval(list, c, now.interval) \in BOOLEAN
    BY SaysBoolean
  <2> QED BY <1>0, <1>1, <1>2, <1>3, <2>1, LastInUntold
<1>6. ASSUME ~open PROVE LastIn(Append(s, x), DueEvents(c), RightDue(now.lastDue), SaysDue(list, c, now.lastDue))
  <2>1. SaysDue(list, c, now.lastDue) \in BOOLEAN
    BY SaysBoolean
  <2> QED BY <1>0, <1>1, <1>2, <1>3, <2>1, LastInTold
<1>7. Known(c, Append(s, x), list, TRUE, now, open)
  BY <1>4, <1>5, <1>6 DEF Known
<1> QED BY <1>7 DEF x, now

\* What an applied change makes a list say.
LEMMA AppliedSays ==
    ASSUME NEW h, IsList(h), NEW x \in Changes, NEW c \in Cadences
    PROVE  /\ x \in KindEvents(c) => (c \in DOMAIN Applied(h, x) <=> x.event = "ThingEntered")
           /\ x \notin KindEvents(c) => (c \in DOMAIN Applied(h, x) <=> c \in DOMAIN h)
           /\ c \in DOMAIN Applied(h, x) =>
                 /\ x \in IntervalEvents(c) => x \in RightInterval(Applied(h, x)[c].interval)
                 /\ x \notin IntervalEvents(c) => c \in DOMAIN h /\ Applied(h, x)[c].interval = h[c].interval
                 /\ x \in DueEvents(c) => x \in RightDue(Applied(h, x)[c].lastDue)
                 /\ x \notin DueEvents(c) => c \in DOMAIN h /\ Applied(h, x)[c].lastDue = h[c].lastDue
<1> DEFINE now == Applied(h, x)
<1> USE DEF KindEvents, IntervalEvents, DueEvents, RightInterval, RightDue
<1>1. CASE x.event = "ThingEntered"
  <2>1. now = [d \in DOMAIN h \union {x.of} |-> IF d = x.of THEN x.to ELSE h[d]]
    BY <1>1 DEF Applied
  <2> HIDE DEF now
  <2>2. DOMAIN now = DOMAIN h \union {x.of}
    BY <2>1
  <2>3. c \in DOMAIN now => now[c] = IF c = x.of THEN x.to ELSE h[c]
    BY <2>1
  <2>4. c # x.of => (c \in DOMAIN now <=> c \in DOMAIN h)
    BY <2>2
  <2>5. QED
    BY <1>1, <2>2, <2>3, <2>4 DEF now
<1>2. CASE x.event = "ThingLeft"
  <2>1. now = [d \in DOMAIN h \ {x.of} |-> h[d]]
    BY <1>2 DEF Applied
  <2> HIDE DEF now
  <2>2. DOMAIN now = DOMAIN h \ {x.of} /\ (c \in DOMAIN now => now[c] = h[c])
    BY <2>1
  <2>5. QED
    BY <1>2, <2>2 DEF now
<1>3. CASE x.event = "intervalMinutes"
  <2>1. now = [d \in DOMAIN h |-> IF d = x.of THEN [h[d] EXCEPT !.interval = x.to] ELSE h[d]]
    BY <1>3 DEF Applied
  <2> HIDE DEF now
  <2>2. DOMAIN now = DOMAIN h
    BY <2>1
  <2>3. c \in DOMAIN h => now[c] = IF c = x.of THEN [h[c] EXCEPT !.interval = x.to] ELSE h[c]
    BY <2>1
  <2>4. c \in DOMAIN h => h[c] \in Cadence
    BY DEF IsList
  <2>5. QED
    BY <1>3, <2>2, <2>3, <2>4 DEF now, Cadence
<1>4. CASE x.event = "lastDue"
  <2>1. now = [d \in DOMAIN h |-> IF d = x.of THEN [h[d] EXCEPT !.lastDue = x.to] ELSE h[d]]
    BY <1>4 DEF Applied
  <2> HIDE DEF now
  <2>2. DOMAIN now = DOMAIN h
    BY <2>1
  <2>3. c \in DOMAIN h => now[c] = IF c = x.of THEN [h[c] EXCEPT !.lastDue = x.to] ELSE h[c]
    BY <2>1
  <2>4. c \in DOMAIN h => h[c] \in Cadence
    BY DEF IsList
  <2>5. QED
    BY <1>4, <2>2, <2>3, <2>4 DEF now, Cadence
<1> QED BY <1>1, <1>2, <1>3, <1>4 DEF Changes

\* The next change may be applied to the list: what both tell stays.
LEMMA KnownApplied ==
    ASSUME NEW c \in Cadences, NEW s \in Seq(Changes), s # <<>>, NEW list, IsList(list),
           NEW is \in BOOLEAN, NEW st, NEW open, Known(c, s, list, is, st, open)
    PROVE  Known(c, Tail(s), Applied(list, Head(s)), is, st, open)
<1> DEFINE x == Head(s)
           now == Applied(list, x)
<1>1. x \in Changes
  OBVIOUS
<1>2. /\ x \in KindEvents(c) => (c \in DOMAIN now <=> x.event = "ThingEntered")
      /\ x \notin KindEvents(c) => (c \in DOMAIN now <=> c \in DOMAIN list)
      /\ c \in DOMAIN now =>
            /\ x \in IntervalEvents(c) => x \in RightInterval(now[c].interval)
            /\ x \notin IntervalEvents(c) => c \in DOMAIN list /\ now[c].interval = list[c].interval
            /\ x \in DueEvents(c) => x \in RightDue(now[c].lastDue)
            /\ x \notin DueEvents(c) => c \in DOMAIN list /\ now[c].lastDue = list[c].lastDue
  BY <1>1, AppliedSays
<1> HIDE DEF now
<1>3. LastIn(Tail(s), KindEvents(c), RightKind(is), SaysKind(now, c, is))
  <2>1. LastIn(s, KindEvents(c), RightKind(is), SaysKind(list, c, is))
    BY DEF Known
  <2>2. x \in KindEvents(c) /\ x \in RightKind(is) => SaysKind(now, c, is)
    BY <1>2 DEF SaysKind, RightKind
  <2>3. x \notin KindEvents(c) /\ SaysKind(list, c, is) => SaysKind(now, c, is)
    BY <1>2 DEF SaysKind
  <2>4. SaysKind(list, c, is) \in BOOLEAN /\ SaysKind(now, c, is) \in BOOLEAN
    BY SaysBoolean
  <2> QED BY <2>1, <2>2, <2>3, <2>4, LastInTail
<1>4. ASSUME is PROVE LastIn(Tail(s), IntervalEvents(c), RightInterval(st.interval), SaysInterval(now, c, st.interval))
  <2>1. LastIn(s, IntervalEvents(c), RightInterval(st.interval), SaysInterval(list, c, st.interval))
    BY <1>4 DEF Known
  <2>2. x \in IntervalEvents(c) /\ x \in RightInterval(st.interval) => SaysInterval(now, c, st.interval)
    BY <1>2 DEF SaysInterval, RightInterval
  <2>3. x \notin IntervalEvents(c) /\ SaysInterval(list, c, st.interval) => SaysInterval(now, c, st.interval)
    BY <1>2 DEF SaysInterval
  <2>4. SaysInterval(list, c, st.interval) \in BOOLEAN /\ SaysInterval(now, c, st.interval) \in BOOLEAN
    BY SaysBoolean
  <2> QED BY <2>1, <2>2, <2>3, <2>4, LastInTail
<1>5. ASSUME is, ~open PROVE LastIn(Tail(s), DueEvents(c), RightDue(st.lastDue), SaysDue(now, c, st.lastDue))
  <2>1. LastIn(s, DueEvents(c), RightDue(st.lastDue), SaysDue(list, c, st.lastDue))
    BY <1>5 DEF Known
  <2>2. x \in DueEvents(c) /\ x \in RightDue(st.lastDue) => SaysDue(now, c, st.lastDue)
    BY <1>2 DEF SaysDue, RightDue
  <2>3. x \notin DueEvents(c) /\ SaysDue(list, c, st.lastDue) => SaysDue(now, c, st.lastDue)
    BY <1>2 DEF SaysDue
  <2>4. SaysDue(list, c, st.lastDue) \in BOOLEAN /\ SaysDue(now, c, st.lastDue) \in BOOLEAN
    BY SaysBoolean
  <2> QED BY <2>1, <2>2, <2>3, <2>4, LastInTail
<1> QED BY <1>3, <1>4, <1>5 DEF Known, now

\* MarkDue beside the changes: it writes what the broker keeps already.
LEMMA KnownMarked ==
    ASSUME NEW c \in Cadences, NEW s, NEW list, IsList(list), NEW is \in BOOLEAN, NEW st, NEW open,
           Known(c, s, list, is, st, open), NEW d, NEW t, d = c => open \/ st.lastDue = t
    PROVE  Known(c, s, MarkedHeld(list, d, t), is, st, open)
<1> DEFINE now == MarkedHeld(list, d, t)
<1>1. list # Unread
  BY KeeperAssumption DEF IsList
<1>2. now = [b \in DOMAIN list |-> IF b = d THEN [list[b] EXCEPT !.lastDue = t] ELSE list[b]]
  BY <1>1 DEF MarkedHeld
<1> HIDE DEF now
<1>3. DOMAIN now = DOMAIN list
  BY <1>2
<1>4. c \in DOMAIN list => now[c] = IF c = d THEN [list[c] EXCEPT !.lastDue = t] ELSE list[c]
  BY <1>2
<1>5. c \in DOMAIN list => list[c] \in Cadence
  BY DEF IsList
<1>6. c \in DOMAIN list => now[c].interval = list[c].interval /\ now[c].lastDue = (IF c = d THEN t ELSE list[c].lastDue)
  BY <1>4, <1>5 DEF Cadence
<1>7. /\ SaysKind(list, c, is) => SaysKind(now, c, is)
      /\ SaysInterval(list, c, st.interval) => SaysInterval(now, c, st.interval)
      /\ ~open /\ SaysDue(list, c, st.lastDue) => SaysDue(now, c, st.lastDue)
  BY <1>3, <1>6 DEF SaysKind, SaysInterval, SaysDue
<1>8. /\ SaysKind(list, c, is) \in BOOLEAN /\ SaysKind(now, c, is) \in BOOLEAN
      /\ SaysInterval(list, c, st.interval) \in BOOLEAN /\ SaysInterval(now, c, st.interval) \in BOOLEAN
      /\ SaysDue(list, c, st.lastDue) \in BOOLEAN /\ SaysDue(now, c, st.lastDue) \in BOOLEAN
  BY SaysBoolean
<1>9. LastIn(s, KindEvents(c), RightKind(is), SaysKind(now, c, is))
  BY <1>7, <1>8, LastInWeaker DEF Known
<1>10. is => LastIn(s, IntervalEvents(c), RightInterval(st.interval), SaysInterval(now, c, st.interval))
  BY <1>7, <1>8, LastInWeaker DEF Known
<1>11. is => open \/ LastIn(s, DueEvents(c), RightDue(st.lastDue), SaysDue(now, c, st.lastDue))
  BY <1>7, <1>8, LastInWeaker DEF Known
<1> QED BY <1>9, <1>10, <1>11 DEF Known, now
-----------------------------------------------------------------------------
\* A list with the changes on the way to it tells what the broker keeps, but for instants last due that were edited.
Tells(list) == \A c \in Cadences : Known(c, stream, list, c \in kind, stored[c], c \in edited)

\* The snapshot does from the moment it is taken, what is held from the moment it arrives; and the broker keeps the
\* mark the keeper has yet to hear the answer of.
HeldInv == /\ following = "opened" => Tells(snapshot)
           /\ following = "streaming" => Tells(held)
           /\ phase = "marked" => at \in edited \/ stored[at].lastDue = LastOf(due)

\* The broker sends a change of one cadence, and keeps the others as they are.
LEMMA OneChanges ==
    ASSUME TypeOK, NEW list, Tells(list), NEW c \in Cadences, edited \subseteq edited',
           \A d \in Cadences \ {c} : (d \in kind' <=> d \in kind) /\ stored'[d] = stored[d],
           \/ UNCHANGED stream
           \/ \E x \in Changes : x.of = c /\ stream' = Append(stream, x),
           Known(c, stream', list, c \in kind', stored'[c], c \in edited')
    PROVE  \A d \in Cadences : Known(d, stream', list, d \in kind', stored'[d], d \in edited')
<1> SUFFICES ASSUME NEW d \in Cadences, d # c
             PROVE  Known(d, stream', list, d \in kind', stored'[d], d \in edited')
  OBVIOUS
<1>1. Known(d, stream, list, d \in kind, stored[d], d \in edited')
  <2>1. Known(d, stream, list, d \in kind, stored[d], d \in edited)
    BY DEF Tells
  <2> QED BY <2>1 DEF Known
<1>2. stored'[d] = stored[d] /\ (d \in kind') = (d \in kind)
  OBVIOUS
<1>3. CASE UNCHANGED stream
  BY <1>1, <1>2, <1>3
<1>4. ASSUME NEW x \in Changes, x.of = c, stream' = Append(stream, x)
      PROVE  Known(d, stream', list, d \in kind', stored'[d], d \in edited')
  <2>1. stream \in Seq(Changes) /\ (d \in kind) \in BOOLEAN
    BY DEF TypeOK
  <2>2. Known(d, Append(stream, x), list, d \in kind, stored[d], d \in edited')
    BY <1>1, <1>4, <2>1, KnownOther
  <2> QED BY <1>2, <1>4, <2>2
<1> QED BY <1>3, <1>4

\* One cadence's record is changed in one of its parts, and the change sent where it is of the kind.
LEMMA EditTells ==
    ASSUME TypeOK, NEW list, Tells(list), following \in {"opened", "streaming"}, UNCHANGED kind,
           edited \subseteq edited',
           NEW c \in Cadences,
           \/ \E i \in Int : /\ stored' = [stored EXCEPT ![c].interval = i]
                             /\ IF c \in kind THEN Publish([event |-> "intervalMinutes", of |-> c, to |-> i])
                                ELSE UNCHANGED stream
           \/ \E t \in Int \union {Never} :
                             /\ stored' = [stored EXCEPT ![c].lastDue = t]
                             /\ IF c \in kind THEN Publish([event |-> "lastDue", of |-> c, to |-> t])
                                ELSE UNCHANGED stream
    PROVE  \A d \in Cadences : Known(d, stream', list, d \in kind', stored'[d], d \in edited')
<1>1. stream \in Seq(Changes) /\ stored[c] \in Cadence /\ Known(c, stream, list, c \in kind, stored[c], c \in edited')
  <2>1. Known(c, stream, list, c \in kind, stored[c], c \in edited)
    BY DEF Tells
  <2> QED BY <2>1 DEF Known, TypeOK
<1>2. \A d \in Cadences \ {c} : (d \in kind' <=> d \in kind) /\ stored'[d] = stored[d]
  BY DEF TypeOK
<1>3. CASE c \notin kind
  <2>1. (c \in kind) = FALSE /\ (c \in kind') = FALSE /\ UNCHANGED stream
    BY <1>3
  <2>2. Known(c, stream', list, c \in kind', stored'[c], c \in edited')
    BY <1>1, <2>1 DEF Known
  <2> QED BY <1>2, <2>1, <2>2, OneChanges
<1>4. ASSUME c \in kind, NEW i \in Int, stored' = [stored EXCEPT ![c].interval = i],
             Publish([event |-> "intervalMinutes", of |-> c, to |-> i])
      PROVE  \A d \in Cadences : Known(d, stream', list, d \in kind', stored'[d], d \in edited')
  <2> DEFINE x == [event |-> "intervalMinutes", of |-> c, to |-> i]
  <2>1. x \in Changes /\ x.of = c /\ stream' = Append(stream, x)
    BY <1>4 DEF Publish, Changes
  <2>2. (c \in kind) = TRUE /\ (c \in kind') = TRUE /\ stored'[c] = [stored[c] EXCEPT !.interval = i]
    BY <1>4 DEF TypeOK
  <2>3. Known(c, stream, list, TRUE, stored[c], c \in edited')
    BY <1>1, <2>2
  <2>4. Known(c, Append(stream, x), list, TRUE, [stored[c] EXCEPT !.interval = i], c \in edited')
    BY <1>1, <1>4, <2>3, KnownInterval
  <2> HIDE DEF x
  <2>5. Known(c, stream', list, c \in kind', stored'[c], c \in edited')
    BY <2>1, <2>2, <2>4
  <2> QED BY <1>2, <2>1, <2>5, OneChanges
<1>5. ASSUME c \in kind, NEW t \in Int \union {Never}, stored' = [stored EXCEPT ![c].lastDue = t],
             Publish([event |-> "lastDue", of |-> c, to |-> t])
      PROVE  \A d \in Cadences : Known(d, stream', list, d \in kind', stored'[d], d \in edited')
  <2> DEFINE x == [event |-> "lastDue", of |-> c, to |-> t]
  <2>1. x \in Changes /\ x.of = c /\ stream' = Append(stream, x)
    BY <1>5 DEF Publish, Changes
  <2>2. (c \in kind) = TRUE /\ (c \in kind') = TRUE /\ stored'[c] = [stored[c] EXCEPT !.lastDue = t]
    BY <1>5 DEF TypeOK
  <2>3. Known(c, stream, list, TRUE, stored[c], c \in edited')
    BY <1>1, <2>2
  <2>4. Known(c, Append(stream, x), list, TRUE, [stored[c] EXCEPT !.lastDue = t], c \in edited')
    BY <1>1, <1>5, <2>3, KnownDue
  <2> HIDE DEF x
  <2>5. Known(c, stream', list, c \in kind', stored'[c], c \in edited')
    BY <2>1, <2>2, <2>4
  <2> QED BY <1>2, <2>1, <2>5, OneChanges
<1> QED BY <1>3, <1>4, <1>5

\* A Thing becomes a cadence, or stops to be one, and the change is sent.
LEMMA KindTells ==
    ASSUME TypeOK, NEW list, Tells(list), following \in {"opened", "streaming"},
           NEW c \in Cadences, EnterKind(c) \/ LeaveKind(c)
    PROVE  \A d \in Cadences : Known(d, stream', list, d \in kind', stored'[d], d \in edited')
<1>1. stream \in Seq(Changes) /\ stored[c] \in Cadence
  BY DEF TypeOK
<1>2. \A d \in Cadences \ {c} : (d \in kind' <=> d \in kind) /\ stored'[d] = stored[d]
  BY DEF EnterKind, LeaveKind
<1>0. UNCHANGED edited
  BY DEF EnterKind, LeaveKind, started
<1>3. CASE EnterKind(c)
  <2> DEFINE x == [event |-> "ThingEntered", of |-> c, to |-> stored[c]]
  <2>1. x \in Changes /\ x.of = c /\ stream' = Append(stream, x)
    BY <1>1, <1>3 DEF EnterKind, Publish, Changes
  <2>2. (c \in kind') = TRUE /\ stored'[c] = stored[c]
    BY <1>3 DEF EnterKind
  <2>3. Known(c, Append(stream, x), list, TRUE, stored[c], c \in edited')
    BY <1>1, KnownEntered
  <2> HIDE DEF x
  <2>4. Known(c, stream', list, c \in kind', stored'[c], c \in edited')
    BY <2>1, <2>2, <2>3
  <2> QED BY <1>0, <1>2, <2>1, <2>4, OneChanges
<1>4. CASE LeaveKind(c)
  <2> DEFINE x == [event |-> "ThingLeft", of |-> c]
  <2>1. x \in Changes /\ x.of = c /\ stream' = Append(stream, x)
    BY <1>4 DEF LeaveKind, Publish, Changes
  <2>2. (c \in kind') = FALSE /\ stored'[c] = stored[c]
    BY <1>4 DEF LeaveKind
  <2>3. Known(c, Append(stream, x), list, FALSE, stored[c], c \in edited')
    BY <1>1, KnownLeft
  <2> HIDE DEF x
  <2>4. Known(c, stream', list, c \in kind', stored'[c], c \in edited')
    BY <2>1, <2>2, <2>3
  <2> QED BY <1>0, <1>2, <2>1, <2>4, OneChanges
<1> QED BY <1>3, <1>4

\* A step that changes neither what the broker keeps nor what is on its way.
LEMMA HeldKept ==
    ASSUME HeldInv, UNCHANGED <<kind, stored, stream, snapshot, held, edited>>,
           following' = following \/ following' \notin {"opened", "streaming"},
           phase' # "marked" \/ UNCHANGED <<phase, at, due>>
    PROVE  HeldInv'
BY DEF HeldInv, Tells

LEMMA EditsKeepHeld ==
    ASSUME TypeOK, LookInv, HeldInv, EditStep
    PROVE  HeldInv'
<1>1. ASSUME NEW c \in Cadences, NEW e \in Drawn, EditInterval(c, e.interval)
      PROVE  HeldInv'
  <2>1. e.interval \in Int
    BY KeeperAssumption DEF Cadence
  <2>2. ASSUME NEW list, Tells(list), following \in {"opened", "streaming"}
        PROVE  \A d \in Cadences : Known(d, stream', list, d \in kind', stored'[d], d \in edited')
    BY <1>1, <2>1, <2>2, EditTells DEF EditInterval, started
  <2>3. phase = "marked" => stored'[at].lastDue = stored[at].lastDue
    <3>1. phase = "marked" => at \in Cadences
      BY LookAtHand
    <3>2. stored' = [stored EXCEPT ![c].interval = e.interval] /\ stored \in [Cadences -> Cadence]
      BY <1>1 DEF EditInterval, TypeOK
    <3> QED BY <2>1, <3>1, <3>2 DEF Cadence
  <2>4. UNCHANGED <<following, snapshot, held, phase, at, due, edited>>
    BY <1>1 DEF EditInterval, gateway, keeper, started
  <2>5. phase = "marked" => at' \in edited' \/ stored'[at'].lastDue = LastOf(due')
    BY <2>3, <2>4 DEF HeldInv
  <2> QED BY <2>2, <2>4, <2>5 DEF HeldInv, Tells
<1>2. ASSUME NEW c \in Cadences, NEW e \in Drawn, EditLastDue(c, e.lastDue)
      PROVE  HeldInv'
  <2>1. /\ e.lastDue \in Int \union {Never}
        /\ edited' = edited \union {c} /\ stored' = [stored EXCEPT ![c].lastDue = e.lastDue]
    BY <1>2, KeeperAssumption DEF EditLastDue, Cadence
  <2>2. ASSUME NEW list, Tells(list), following \in {"opened", "streaming"}
        PROVE  \A d \in Cadences : Known(d, stream', list, d \in kind', stored'[d], d \in edited')
    BY <1>2, <2>1, <2>2, EditTells DEF EditLastDue
  <2>3. UNCHANGED <<following, snapshot, held, phase, at, due>>
    BY <1>2 DEF EditLastDue, gateway, keeper
  <2>4. phase = "marked" => at \in edited' \/ stored'[at].lastDue = LastOf(due)
    <3>1. phase = "marked" => at \in Cadences
      BY LookAtHand
    <3> QED BY <2>1, <3>1 DEF HeldInv, TypeOK
  <2> QED BY <2>2, <2>3, <2>4 DEF HeldInv, Tells
<1>3. ASSUME NEW c \in Cadences, EnterKind(c) \/ LeaveKind(c)
      PROVE  HeldInv'
  <2>1. ASSUME NEW list, Tells(list), following \in {"opened", "streaming"}
        PROVE  \A d \in Cadences : Known(d, stream', list, d \in kind', stored'[d], d \in edited')
    BY <1>3, <2>1, KindTells
  <2>2. UNCHANGED <<following, snapshot, held, phase, at, due, stored, edited>>
    BY <1>3 DEF EnterKind, LeaveKind, gateway, keeper, started
  <2> QED BY <2>1, <2>2 DEF HeldInv, Tells
<1> QED BY <1>1, <1>2, <1>3 DEF EditStep

LEMMA MarksKeepHeld ==
    ASSUME TypeOK, LookInv, HeldInv, LandMark \/ MarkDue
    PROVE  HeldInv'
<1>1. at \in Cadences /\ LastOf(due) \in Int
  BY LookAtHand DEF LandMark, MarkDue, MarkDueWith
<1>2. CASE LandMark
  <2>1. stored' = [stored EXCEPT ![at].lastDue = LastOf(due)] /\ UNCHANGED <<kind, edited>>
    BY <1>2 DEF LandMark
  <2>2. ASSUME NEW list, Tells(list), following \in {"opened", "streaming"}
        PROVE  \A d \in Cadences : Known(d, stream', list, d \in kind', stored'[d], d \in edited')
    BY <1>1, <1>2, <2>1, <2>2, EditTells DEF LandMark
  <2>3. UNCHANGED <<following, snapshot, held, at, due>>
    BY <1>2 DEF LandMark, gateway, keeper
  <2>4. stored'[at'].lastDue = LastOf(due')
    BY <1>1, <2>1, <2>3 DEF TypeOK, Cadence
  <2> QED BY <2>2, <2>3, <2>4 DEF HeldInv, Tells
<1>3. CASE MarkDue
  <2>1. held' = MarkedHeld(held, at, LastOf(due)) /\ phase' = "resolving"
    BY <1>3 DEF MarkDue, MarkDueWith
  <2>2. UNCHANGED <<kind, stored, stream, snapshot, following, edited>>
    BY <1>3 DEF MarkDue, MarkDueWith, broker, started
  <2>3. at \in edited \/ stored[at].lastDue = LastOf(due)
    BY <1>3 DEF HeldInv, MarkDue, MarkDueWith
  <2>4. ASSUME following = "streaming", NEW c \in Cadences
        PROVE  Known(c, stream, MarkedHeld(held, at, LastOf(due)), c \in kind, stored[c], c \in edited)
    <3>1. IsList(held) /\ Known(c, stream, held, c \in kind, stored[c], c \in edited)
      BY <2>4 DEF HeldInv, Tells, LookInv, StreamsIntoList
    <3>2. at = c => c \in edited \/ stored[c].lastDue = LastOf(due)
      BY <2>3
    <3>3. (c \in kind) \in BOOLEAN
      OBVIOUS
    <3> QED BY <3>1, <3>2, <3>3, KnownMarked
  <2> QED BY <2>1, <2>2, <2>4 DEF HeldInv, Tells
<1> QED BY <1>2, <1>3

LEMMA FollowingKeepsHeld ==
    ASSUME TypeOK, LookInv, HeldInv, FollowStep \/ StreamEnds
    PROVE  HeldInv'
<1>1. CASE Ask \/ NoteFailure \/ StreamEnds
  BY <1>1 DEF Ask, NoteFailure, StreamEnds, HeldInv, Tells, broker, keeper, started, Failures
<1>2. CASE Subscribe
  <2>1. following' = "opened" /\ snapshot' = InKind /\ stream' = <<>>
        /\ UNCHANGED <<kind, stored, phase, at, due, edited>>
    BY <1>2 DEF Subscribe, broker, keeper, started
  <2>2. ASSUME NEW c \in Cadences
        PROVE  Known(c, <<>>, InKind, c \in kind, stored[c], c \in edited)
    <3>1. (c \in kind) \in BOOLEAN /\ (c \in DOMAIN InKind <=> c \in kind) /\ (c \in kind => InKind[c] = stored[c])
      BY DEF InKind
    <3> QED BY <3>1, KnownFresh
  <2> QED BY <2>1, <2>2 DEF HeldInv, Tells
<1>3. CASE Replace
  BY <1>3 DEF Replace, HeldInv, Tells, broker, keeper, started
<1>4. CASE Apply
  <2>1. /\ following = "streaming" /\ stream # <<>>
        /\ held' = Applied(held, Head(stream)) /\ stream' = Tail(stream)
        /\ UNCHANGED <<kind, stored, phase, at, due, following, edited>>
    BY <1>4 DEF Apply, broker, keeper, started
  <2>2. ASSUME NEW c \in Cadences
        PROVE  Known(c, Tail(stream), Applied(held, Head(stream)), c \in kind, stored[c], c \in edited)
    <3>1. IsList(held) /\ Known(c, stream, held, c \in kind, stored[c], c \in edited)
      BY <2>1 DEF HeldInv, Tells, LookInv, StreamsIntoList
    <3>2. (c \in kind) \in BOOLEAN /\ stream \in Seq(Changes)
      BY DEF TypeOK
    <3> QED BY <2>1, <3>1, <3>2, KnownApplied
  <2> QED BY <2>1, <2>2 DEF HeldInv, Tells
<1> QED BY <1>1, <1>2, <1>3, <1>4 DEF FollowStep

LEMMA OthersKeepHeld ==
    ASSUME TypeOK, HeldInv,
           \/ ClockStep \/ Look \/ ReadHeld \/ MarkFails \/ Start \/ Refuse \/ LookBreaks
           \/ LookEnds \/ LookFails \/ KeeperEnds \/ Crash
           \/ \E c \in Cadences : Handle(c)
           \/ UNCHANGED vars
    PROVE  HeldInv'
<1> USE DEF broker, gateway, keeper, started
<1>1. CASE ClockStep
  BY <1>1, HeldKept DEF ClockStep, Tick, FollowOnce, ChangeSpeed, JumpAhead
<1>2. CASE Look
  <2>1. PICK from : LookCovering(from)
    BY <1>2 DEF Look
  <2>2. following' = following \/ following' = "away"
    BY <2>1 DEF LookCovering
  <2>3. UNCHANGED <<kind, stored, stream, snapshot, held, edited>>
    BY <2>1 DEF LookCovering
  <2>4. phase' # "marked"
    <3>1. phase' \in {"looking", "waiting", failed}
      BY <2>1 DEF LookCovering
    <3> QED BY <3>1 DEF TypeOK, Failures
  <2> QED BY <2>2, <2>3, <2>4, HeldKept
<1>3. CASE ReadHeld \/ MarkFails \/ Start \/ Refuse
  BY <1>3, HeldKept DEF ReadHeld, MarkFails, Start, Refuse, NextCadence
<1>4. CASE LookBreaks \/ LookEnds \/ LookFails \/ KeeperEnds
  BY <1>4, HeldKept DEF LookBreaks, LookEnds, LookFails, EndLook, KeeperEnds
<1>5. CASE Crash
  BY <1>5 DEF Crash, HeldInv
<1>6. ASSUME NEW c \in Cadences, Handle(c) PROVE HeldInv'
  BY <1>6, HeldKept DEF Handle
<1>7. CASE UNCHANGED vars
  BY <1>7, HeldKept DEF vars
<1> QED BY <1>1, <1>2, <1>3, <1>4, <1>5, <1>6, <1>7

LEMMA HeldNext == TypeOK /\ LookInv /\ HeldInv /\ [Next]_vars => HeldInv'
<1> SUFFICES ASSUME TypeOK, LookInv, HeldInv, [Next]_vars PROVE HeldInv'
  OBVIOUS
<1>1. CASE EditStep
  BY <1>1, EditsKeepHeld
<1>2. CASE LandMark \/ MarkDue
  BY <1>2, MarksKeepHeld
<1>3. CASE FollowStep \/ StreamEnds
  BY <1>3, FollowingKeepsHeld
<1>4. CASE ~(EditStep \/ LandMark \/ MarkDue \/ FollowStep \/ StreamEnds)
  BY <1>4, OthersKeepHeld DEF Next, LookStep
<1> QED BY <1>1, <1>2, <1>3, <1>4

\* What is held is what the broker keeps once the stream is through, but for instants last due that were edited,
\* whatever marks, edits, cadences that come and go, lost streams, new subscriptions and restarts crossed
\* (MyceliumGateway's stream loop with HeldCadences).
THEOREM HeldFollowsBroker == Spec => []HeldIsStored
<1>1. Init => HeldInv
  BY DEF Init, HeldInv
<1>2. TypeOK /\ LookInv /\ HeldInv => HeldIsStored
  <2> SUFFICES ASSUME TypeOK, LookInv, HeldInv, following = "streaming", stream = <<>>
               PROVE  DOMAIN held = kind /\ \A c \in kind : Alike(c, held[c], stored[c])
    BY DEF HeldIsStored, Heard
  <2>1. IsList(held)
    BY DEF LookInv, StreamsIntoList
  <2>2. \A c \in Cadences : Known(c, <<>>, held, c \in kind, stored[c], c \in edited)
    BY DEF HeldInv, Tells
  <2>3. ASSUME NEW c \in Cadences
        PROVE  /\ c \in DOMAIN held <=> c \in kind
               /\ c \in kind => Alike(c, held[c], stored[c])
    <3>1. \A events, right : \A before \in BOOLEAN : LastIn(<<>>, events, right, before) => before
      BY DEF LastIn
    <3>2. Known(c, <<>>, held, c \in kind, stored[c], c \in edited)
      BY <2>2
    <3>3. SaysKind(held, c, c \in kind)
      <4>1. SaysKind(held, c, c \in kind) \in BOOLEAN
        BY DEF SaysKind
      <4>2. LastIn(<<>>, KindEvents(c), RightKind(c \in kind), SaysKind(held, c, c \in kind))
        BY <3>2 DEF Known
      <4> QED BY <3>1, <4>1, <4>2
    <3>4. c \in kind => /\ SaysInterval(held, c, stored[c].interval)
                        /\ c \in edited \/ SaysDue(held, c, stored[c].lastDue)
      <4>1. SaysInterval(held, c, stored[c].interval) \in BOOLEAN /\ SaysDue(held, c, stored[c].lastDue) \in BOOLEAN
        BY SaysBoolean
      <4> QED BY <3>1, <3>2, <4>1 DEF Known
    <3> QED BY <3>3, <3>4 DEF SaysKind, SaysInterval, SaysDue, Alike
  <2> QED BY <2>1, <2>3 DEF IsList, TypeOK
<1> QED BY <1>1, <1>2, InitInv, NextKeeps, HeldNext, PTL DEF Spec

-----------------------------------------------------------------------------
\* What the keeper starts.

\* The broker's clock is read when it is due, and never slows down.
Timely == Prompt /\ "slower" \notin Troubles

\* A keeper that starts reads the broker's clock before it looks for the first time.
Unanchored == real = askAt /\ real < lookAt /\ phase = "idle" /\ lastLook = None

ClockBehind == /\ Unanchored \/ (clock <= model /\ rate <= speed)
               /\ lastLook # None => lastLook.model <= clock

\* An instant that every look to come will have passed.
Reached(t) == /\ t <= model
              /\ lastLook # None => t <= lastLook.model
              /\ t <= clock \/ Unanchored

\* Cadences of which an instant last due may come back that a mark has passed: by an edit, or by what the broker sent
\* before a mark and the gateway holds after it.
Doubtful == edited \union unheard

USE DEF Doubtful

\* A cadence that states it was last due at d states it of every run it started.
Past(c, d) == \A t \in Int : <<c, t>> \in runs => d \in Int /\ t <= d /\ Reached(d)

StoredPast == \A c \in Cadences \ Doubtful : Past(c, stored[c].lastDue)
HeldPast   == held # Unread => \A c \in DOMAIN held \ Doubtful : Past(c, held[c].lastDue)
TodoPast   == \A c \in DOMAIN todo \ Doubtful : Past(c, todo[c].lastDue)

\* What is on its way to the keeper is what the broker keeps.
TellsDue(change, t) == /\ change.event = "lastDue" => change.to = t
                       /\ change.event = "ThingEntered" => change.to.lastDue = t

ToldIsStored == \A i \in DOMAIN stream :
                   stream[i].of \notin Doubtful => TellsDue(stream[i], stored[stream[i].of].lastDue)

SnapshotIsStored == following = "opened" =>
                       \A c \in DOMAIN snapshot \ Doubtful : snapshot[c].lastDue = stored[c].lastDue

MarkIsStored ==
    at \notin Doubtful =>
       /\ phase \in {"marked", "resolving"} => stored[at].lastDue = LastOf(due)
       /\ phase = "resolving" /\ held # Unread /\ at \in DOMAIN held => held[at].lastDue = LastOf(due)

StartInv == /\ ClockBehind /\ StoredPast /\ HeldPast /\ TodoPast
            /\ ToldIsStored /\ SnapshotIsStored /\ MarkIsStored /\ StartedOnce

LEMMA InitStartInv == Init => StartInv
<1> SUFFICES ASSUME Init PROVE StartInv
  OBVIOUS
<1>1. ClockBehind
  BY DEF Init, ClockBehind, Unanchored
<1>2. StoredPast /\ HeldPast /\ TodoPast
  BY DEF Init, StoredPast, HeldPast, TodoPast, Past
<1>3. ToldIsStored /\ SnapshotIsStored /\ MarkIsStored /\ StartedOnce
  BY DEF Init, ToldIsStored, SnapshotIsStored, MarkIsStored, StartedOnce
<1> QED BY <1>1, <1>2, <1>3 DEF StartInv

\* What a step of the clocks, or of none, does to what was reached.
LEMMA ClockLeft ==
    ASSUME TypeOK, ClockBehind, UNCHANGED <<real, model, speed, clock, rate, askAt, lastLook, lookAt>>,
           phase = "idle" => phase' = "idle"
    PROVE  ClockBehind' /\ \A d \in Int : Reached(d) => Reached(d)'
BY DEF ClockBehind, Unanchored, Reached

LEMMA ClockGoesOn ==
    ASSUME Timely, TypeOK, ClockBehind, ClockStep
    PROVE  ClockBehind' /\ \A d \in Int : Reached(d) => Reached(d)'
<1> USE DEF TypeOK
<1>0. lastLook # None => lastLook.model \in Int
  OBVIOUS
<1>1. CASE Tick
  <2>1. real < askAt /\ model' = model + speed /\ clock' = clock + rate /\ UNCHANGED <<speed, rate, lastLook>>
    BY <1>1 DEF Tick, Timely, keeper
  <2>2. ~Unanchored
    BY <2>1 DEF Unanchored
  <2> QED BY <1>0, <2>1, <2>2 DEF ClockBehind, Reached
<1>2. CASE FollowOnce
  <2>1. clock' = model /\ rate' = speed /\ UNCHANGED <<model, speed, lastLook>>
    BY <1>2 DEF FollowOnce, keeper
  <2>2. lastLook # None => ~Unanchored
    BY DEF Unanchored
  <2> QED BY <1>0, <2>1, <2>2 DEF ClockBehind, Reached
<1>3. CASE ChangeSpeed
  <2>1. PICK s \in Speeds : ((s > speed /\ Trouble("faster")) \/ (s < speed /\ Trouble("slower"))) /\ speed' = s
    BY <1>3 DEF ChangeSpeed
  <2>2. s > speed /\ s \in Int
    BY <2>1, KeeperAssumption DEF Timely, Trouble
  <2>3. UNCHANGED <<real, model, clock, rate, askAt, lastLook, lookAt, phase>>
    BY <1>3 DEF ChangeSpeed, keeper
  <2> QED BY <2>1, <2>2, <2>3 DEF ClockBehind, Reached, Unanchored
<1>4. CASE JumpAhead
  <2>1. model' = model + Jump /\ Jump \in Nat /\ UNCHANGED <<real, speed, clock, rate, askAt, lastLook, lookAt, phase>>
    BY <1>4, KeeperAssumption DEF JumpAhead, keeper
  <2> QED BY <2>1 DEF ClockBehind, Reached, Unanchored
<1> QED BY <1>1, <1>2, <1>3, <1>4 DEF ClockStep

LEMMA LookReaches ==
    ASSUME TypeOK, ClockBehind, Look
    PROVE  ClockBehind' /\ \A d \in Int : Reached(d) => Reached(d)'
<1>1. real >= lookAt /\ lastLook' = [model |-> clock, real |-> real]
      /\ UNCHANGED <<real, model, speed, clock, rate, askAt>>
  BY DEF Look, LookCovering
<1>2. ~Unanchored
  BY <1>1 DEF Unanchored, TypeOK
<1>3. lastLook'.model = clock /\ clock \in Int
  BY <1>1 DEF TypeOK
<1> QED BY <1>1, <1>2, <1>3 DEF ClockBehind, Reached

LEMMA CrashReaches ==
    ASSUME TypeOK, ClockBehind, Crash
    PROVE  ClockBehind' /\ \A d \in Int : Reached(d) => Reached(d)'
<1>1. real' = askAt' /\ real' < lookAt' /\ phase' = "idle" /\ lastLook' = None /\ model' = model
  BY DEF Crash, TypeOK
<1> QED BY <1>1 DEF ClockBehind, Reached, Unanchored

LEMMA EndReaches ==
    ASSUME TypeOK, ClockBehind, NEW failures, EndLook(failures), phase # "idle"
    PROVE  ClockBehind' /\ \A d \in Int : Reached(d) => Reached(d)'
<1>1. UNCHANGED <<real, model, speed, clock, rate, askAt, lastLook>> /\ ~Unanchored
  BY DEF EndLook, Unanchored
<1> QED BY <1>1 DEF ClockBehind, Reached

\* What a cadence states stays past its runs, where none is started.
LEMMA PastKept ==
    ASSUME TypeOK, StartInv, UNCHANGED runs, Doubtful \subseteq Doubtful', \A d \in Int : Reached(d) => Reached(d)'
    PROVE  /\ (\A c \in Cadences \ Doubtful' : stored'[c].lastDue = stored[c].lastDue) => StoredPast'
           /\ UNCHANGED held => HeldPast'
           /\ (\A c \in DOMAIN todo' : c \in DOMAIN todo /\ todo'[c] = todo[c]) => TodoPast'
           /\ \A c, d : Past(c, d) => Past(c, d)'
<1>1. \A c, d : Past(c, d) => Past(c, d)'
  BY DEF Past
<1> QED BY <1>1 DEF StartInv, StoredPast, HeldPast, TodoPast

LEMMA MarkKept ==
    ASSUME TypeOK, LookInv, StartInv, UNCHANGED <<at, due, phase, held>>, Doubtful \subseteq Doubtful',
           \A c \in Cadences \ Doubtful' : stored'[c].lastDue = stored[c].lastDue
    PROVE  MarkIsStored'
<1>1. phase \in {"marked", "resolving"} => at \in Cadences
  BY LookAtHand
<1> QED BY <1>1 DEF StartInv, MarkIsStored

LEMMA ToldAppended ==
    ASSUME TypeOK, StartInv, NEW change \in Changes, Publish(change) \/ UNCHANGED stream,
           Doubtful \subseteq Doubtful',
           \A c \in Cadences \ Doubtful' : stored'[c].lastDue = stored[c].lastDue,
           change.of \notin Doubtful' => TellsDue(change, stored'[change.of].lastDue)
    PROVE  ToldIsStored'
<1>1. stream \in Seq(Changes) /\ ToldIsStored
  BY DEF TypeOK, StartInv
<1>2. \A i \in DOMAIN stream : stream[i] \in Changes /\ stream[i].of \in Cadences
  <2>1. \A i \in DOMAIN stream : stream[i] \in Changes
    BY <1>1
  <2> QED BY <2>1 DEF Changes
<1>3. \A i \in DOMAIN stream : stream[i].of \notin Doubtful' => TellsDue(stream[i], stored'[stream[i].of].lastDue)
  BY <1>1, <1>2 DEF ToldIsStored
<1>4. CASE stream' = stream
  BY <1>3, <1>4 DEF ToldIsStored
<1>5. CASE stream' = Append(stream, change)
  <2>1. /\ DOMAIN stream = 1 .. Len(stream) /\ Len(stream) \in Nat
        /\ DOMAIN stream' = 1 .. Len(stream) + 1
        /\ stream'[Len(stream) + 1] = change
        /\ \A i \in 1 .. Len(stream) : stream'[i] = stream[i]
    BY <1>1, <1>5, AppendProperties
  <2> SUFFICES ASSUME NEW i \in 1 .. Len(stream) + 1, stream'[i].of \notin Doubtful'
               PROVE  TellsDue(stream'[i], stored'[stream'[i].of].lastDue)
    BY <2>1 DEF ToldIsStored, TellsDue
  <2>2. CASE i = Len(stream) + 1
    BY <2>1, <2>2
  <2>3. CASE i # Len(stream) + 1
    <3>1. i \in 1 .. Len(stream)
      BY <2>1, <2>3
    <3> QED BY <1>3, <2>1, <3>1
  <2> QED BY <2>2, <2>3
<1> QED BY <1>4, <1>5 DEF Publish

\* Edits of the broker's Things.
LEMMA EditsStart ==
    ASSUME TypeOK, LookInv, StartInv, EditStep
    PROVE  StartInv'
<1>1. /\ UNCHANGED <<real, model, speed, clock, rate, askAt, lastLook, lookAt, phase, runs, twice>>
      /\ UNCHANGED <<following, snapshot, held, todo, at, due>>
      /\ Doubtful \subseteq Doubtful'
  BY DEF EditStep, EditInterval, EditLastDue, EnterKind, LeaveKind, clocks, keeper, gateway, started
<1>2. PICK c \in Cadences : \/ \E e \in Drawn : EditInterval(c, e.interval) \/ EditLastDue(c, e.lastDue)
                            \/ EnterKind(c)
                            \/ LeaveKind(c)
  BY DEF EditStep
<1>3. /\ \A d \in Cadences \ Doubtful' : stored'[d].lastDue = stored[d].lastDue
      /\ \E change \in Changes : /\ Publish(change) \/ UNCHANGED stream
                                 /\ change.of \notin Doubtful' => TellsDue(change, stored'[change.of].lastDue)
  <2>0. \A e \in Drawn : e.interval \in Int /\ e.lastDue \in Int \union {Never}
    BY KeeperAssumption DEF Cadence
  <2>1. ASSUME NEW i \in Int, EditInterval(c, i)
        PROVE  /\ \A d \in Cadences \ Doubtful' : stored'[d].lastDue = stored[d].lastDue
               /\ \E change \in Changes : /\ Publish(change) \/ UNCHANGED stream
                                          /\ change.of \notin Doubtful' => TellsDue(change, stored'[change.of].lastDue)
    <3> DEFINE change == [event |-> "intervalMinutes", of |-> c, to |-> i]
    <3>1. change \in Changes /\ \A t : TellsDue(change, t)
      BY DEF Changes, TellsDue
    <3>2. Publish(change) \/ UNCHANGED stream
      BY <2>1 DEF EditInterval
    <3>3. \A d \in Cadences : stored'[d].lastDue = stored[d].lastDue
      BY <2>1 DEF EditInterval, TypeOK, Cadence
    <3> HIDE DEF change
    <3> QED BY <3>1, <3>2, <3>3
  <2>2. ASSUME NEW t \in Int \union {Never}, EditLastDue(c, t)
        PROVE  /\ \A d \in Cadences \ Doubtful' : stored'[d].lastDue = stored[d].lastDue
               /\ \E change \in Changes : /\ Publish(change) \/ UNCHANGED stream
                                          /\ change.of \notin Doubtful' => TellsDue(change, stored'[change.of].lastDue)
    <3> DEFINE change == [event |-> "lastDue", of |-> c, to |-> t]
    <3>1. change \in Changes /\ change.of \in Doubtful'
      BY <2>2 DEF Changes, EditLastDue
    <3>2. Publish(change) \/ UNCHANGED stream
      BY <2>2 DEF EditLastDue
    <3>3. \A d \in Cadences \ Doubtful' : stored'[d].lastDue = stored[d].lastDue
      BY <2>2 DEF EditLastDue, TypeOK
    <3> HIDE DEF change
    <3> QED BY <3>1, <3>2, <3>3
  <2>3. ASSUME EnterKind(c)
        PROVE  /\ \A d \in Cadences \ Doubtful' : stored'[d].lastDue = stored[d].lastDue
               /\ \E change \in Changes : /\ Publish(change) \/ UNCHANGED stream
                                          /\ change.of \notin Doubtful' => TellsDue(change, stored'[change.of].lastDue)
    <3> DEFINE change == [event |-> "ThingEntered", of |-> c, to |-> stored[c]]
    <3>0. stored[c] \in Cadence /\ stored' = stored
      BY <2>3 DEF TypeOK, EnterKind
    <3>1. change \in Changes /\ TellsDue(change, stored'[change.of].lastDue)
      BY <3>0 DEF Changes, TellsDue
    <3>2. Publish(change)
      BY <2>3 DEF EnterKind
    <3> HIDE DEF change
    <3> QED BY <3>0, <3>1, <3>2
  <2>4. ASSUME LeaveKind(c)
        PROVE  /\ \A d \in Cadences \ Doubtful' : stored'[d].lastDue = stored[d].lastDue
               /\ \E change \in Changes : /\ Publish(change) \/ UNCHANGED stream
                                          /\ change.of \notin Doubtful' => TellsDue(change, stored'[change.of].lastDue)
    <3> DEFINE change == [event |-> "ThingLeft", of |-> c]
    <3>1. change \in Changes /\ \A t : TellsDue(change, t)
      BY DEF Changes, TellsDue
    <3>2. Publish(change) /\ stored' = stored
      BY <2>4 DEF LeaveKind
    <3> HIDE DEF change
    <3> QED BY <3>1, <3>2
  <2> QED BY <1>2, <2>0, <2>1, <2>2, <2>3, <2>4
<1>4. ClockBehind' /\ \A d \in Int : Reached(d) => Reached(d)'
  BY <1>1, ClockLeft DEF StartInv
<1>5. StoredPast' /\ HeldPast' /\ TodoPast'
  BY <1>1, <1>3, <1>4, PastKept
<1>6. MarkIsStored'
  BY <1>1, <1>3, MarkKept
<1>7. ToldIsStored'
  BY <1>1, <1>3, ToldAppended
<1>8. SnapshotIsStored'
  BY <1>1, <1>3 DEF StartInv, SnapshotIsStored, TypeOK, IsList
<1>9. StartedOnce'
  BY <1>1 DEF StartInv, StartedOnce
<1> QED BY <1>4, <1>5, <1>6, <1>7, <1>8, <1>9 DEF StartInv

\* Steps that leave the clocks' look, the broker and what is held alone.
LEMMA FrameStart ==
    ASSUME TypeOK, LookInv, StartInv, ClockBehind', \A d \in Int : Reached(d) => Reached(d)',
           UNCHANGED <<stored, held, runs, twice, edited, unheard>>,
           stream' = stream \/ stream' = <<>>,
           following' # "opened" \/ UNCHANGED <<following, snapshot>>,
           \A c \in DOMAIN todo' : c \in DOMAIN todo /\ todo'[c] = todo[c],
           phase' \notin {"marked", "resolving"} \/ UNCHANGED <<phase, at, due>>
    PROVE  StartInv'
<1>1. StoredPast' /\ HeldPast' /\ TodoPast'
  BY PastKept
<1>2. ToldIsStored'
  BY DEF StartInv, ToldIsStored
<1>3. SnapshotIsStored'
  BY DEF StartInv, SnapshotIsStored
<1>4. MarkIsStored'
  BY DEF StartInv, MarkIsStored
<1>5. StartedOnce'
  BY DEF StartInv, StartedOnce
<1> QED BY <1>1, <1>2, <1>3, <1>4, <1>5 DEF StartInv

\* Subscriptions, and what arrives by them.
LEMMA FollowsStart ==
    ASSUME TypeOK, LookInv, StartInv, FollowStep \/ StreamEnds
    PROVE  StartInv'
<1>1. CASE Ask \/ NoteFailure \/ StreamEnds
  <2>1. ClockBehind' /\ \A d \in Int : Reached(d) => Reached(d)'
    BY <1>1, ClockLeft DEF StartInv, Ask, NoteFailure, StreamEnds, clocks, keeper
  <2>2. phase' = phase \/ phase' \in Failures
    BY <1>1 DEF Ask, NoteFailure, StreamEnds
  <2>3. /\ UNCHANGED <<stored, held, runs, twice, edited, unheard, todo, at, due>> /\ following' # "opened"
        /\ stream' = stream \/ stream' = <<>>
    BY <1>1 DEF Ask, NoteFailure, StreamEnds, broker, started, keeper
  <2> QED BY <2>1, <2>2, <2>3, FrameStart DEF Failures
<1>2. CASE Subscribe
  <2>1. UNCHANGED <<clocks, broker, held, phase, keeper, started>> /\ stream' = <<>> /\ snapshot' = InKind
    BY <1>2 DEF Subscribe
  <2>2. ClockBehind' /\ \A d \in Int : Reached(d) => Reached(d)'
    BY <2>1, ClockLeft DEF StartInv, clocks, keeper
  <2>3. StoredPast' /\ HeldPast' /\ TodoPast'
    BY <2>1, <2>2, PastKept DEF started, broker, keeper
  <2>4. ToldIsStored'
    BY <2>1 DEF ToldIsStored
  <2>5. SnapshotIsStored'
    BY <2>1 DEF SnapshotIsStored, InKind, broker
  <2>6. MarkIsStored' /\ StartedOnce'
    BY <2>1, MarkKept DEF StartInv, StartedOnce, started, broker, keeper
  <2> QED BY <2>2, <2>3, <2>4, <2>5, <2>6 DEF StartInv
<1>3. CASE Replace \/ Apply
  <2>1. /\ UNCHANGED <<real, model, speed, clock, rate, askAt, lastLook, lookAt, phase, at, due, todo>>
        /\ UNCHANGED <<stored, runs, twice, edited, unheard>>
    BY <1>3 DEF Replace, Apply, broker, keeper, started
  <2>2. ClockBehind' /\ \A d \in Int : Reached(d) => Reached(d)'
    BY <2>1, ClockLeft DEF StartInv
  <2>3. StoredPast' /\ TodoPast' /\ \A c, d : Past(c, d) => Past(c, d)'
    BY <2>1, <2>2, PastKept
  <2>4. held # Unread => IsList(held)
    BY DEF TypeOK
  <2>5. /\ held' # Unread => DOMAIN held' \subseteq Cadences
        /\ held' # Unread => \A c \in DOMAIN held' \ Doubtful :
              \/ held'[c].lastDue = stored[c].lastDue
              \/ held # Unread /\ c \in DOMAIN held /\ held'[c].lastDue = held[c].lastDue
    <3>1. CASE Replace
      BY <3>1 DEF Replace, StartInv, SnapshotIsStored, TypeOK, IsList
    <3>2. CASE Apply
      <4> DEFINE change == Head(stream)
      <4>1. stream # <<>> /\ held' = Applied(held, change) /\ IsList(held) /\ held # Unread
        <5>1. IsList(held)
          BY <3>2 DEF Apply, LookInv, StreamsIntoList
        <5>2. held # Unread
          BY <5>1, KeeperAssumption DEF IsList
        <5> QED BY <3>2, <5>1, <5>2 DEF Apply
      <4>2. change \in Changes /\ (change.of \notin Doubtful => TellsDue(change, stored[change.of].lastDue))
        <5>1. stream \in Seq(Changes) /\ Len(stream) >= 1 /\ change = stream[1] /\ change \in Changes
          BY <4>1, HeadTailProperties DEF TypeOK
        <5>2. 1 \in DOMAIN stream
          BY <5>1
        <5> QED BY <5>1, <5>2 DEF StartInv, ToldIsStored
      <4> HIDE DEF change
      <4>3. IsList(held')
        BY <4>1, <4>2, AppliedIsList
      <4>4. CASE change.event = "ThingEntered"
        BY <4>1, <4>2, <4>3, <4>4 DEF Applied, TellsDue, IsList
      <4>5. CASE change.event = "ThingLeft"
        BY <4>1, <4>2, <4>3, <4>5 DEF Applied, IsList
      <4>6. CASE change.event = "intervalMinutes"
        BY <4>1, <4>2, <4>3, <4>6 DEF Applied, IsList, Cadence
      <4>7. CASE change.event = "lastDue"
        BY <4>1, <4>2, <4>3, <4>7 DEF Applied, TellsDue, IsList, Cadence
      <4> QED BY <4>2, <4>4, <4>5, <4>6, <4>7 DEF Changes
    <3> QED BY <1>3, <3>1, <3>2
  <2>6. HeldPast'
    BY <2>1, <2>3, <2>5 DEF HeldPast, StartInv, StoredPast
  <2>7. ToldIsStored'
    <3>1. CASE Replace
      BY <2>1, <3>1 DEF Replace, StartInv, ToldIsStored
    <3>2. CASE Apply
      <4>1. stream \in Seq(Changes) /\ stream # <<>> /\ stream' = Tail(stream)
        BY <3>2 DEF Apply, TypeOK
      <4>2. \A i \in DOMAIN stream' : i + 1 \in DOMAIN stream /\ stream'[i] = stream[i + 1]
        BY <4>1, HeadTailProperties
      <4> QED BY <2>1, <4>2 DEF StartInv, ToldIsStored
    <3> QED BY <1>3, <3>1, <3>2
  <2>8. SnapshotIsStored'
    BY <1>3 DEF Replace, Apply, SnapshotIsStored
  <2>9. MarkIsStored'
    BY <2>1, <2>5 DEF StartInv, MarkIsStored
  <2>10. StartedOnce'
    BY <2>1 DEF StartInv, StartedOnce
  <2> QED BY <2>2, <2>3, <2>6, <2>7, <2>8, <2>9, <2>10 DEF StartInv
<1> QED BY <1>1, <1>2, <1>3 DEF FollowStep

\* A look begins from what is held.
LEMMA LooksStart ==
    ASSUME TypeOK, LookInv, StartInv, Look \/ ReadHeld
    PROVE  StartInv'
<1>1. ClockBehind' /\ \A d \in Int : Reached(d) => Reached(d)'
  <2>1. CASE Look
    BY <2>1, LookReaches DEF StartInv
  <2>2. CASE ReadHeld
    BY <2>2, ClockLeft DEF StartInv, ReadHeld, clocks
  <2> QED BY <2>1, <2>2
<1>2. /\ UNCHANGED <<stored, snapshot, stream, held, at, due, runs, twice, edited, unheard>>
      /\ following' # "opened" \/ UNCHANGED following
      /\ phase' \notin {"marked", "resolving"}
      /\ todo' = todo \/ (held # Unread /\ todo' = held)
  BY DEF Look, LookCovering, ReadHeld, broker, gateway, started, TypeOK, Failures
<1>3. StoredPast' /\ HeldPast' /\ \A c, d : Past(c, d) => Past(c, d)'
  BY <1>1, <1>2, PastKept
<1>4. TodoPast'
  BY <1>2, <1>3 DEF StartInv, TodoPast, HeldPast
<1>5. ToldIsStored' /\ SnapshotIsStored' /\ MarkIsStored' /\ StartedOnce'
  BY <1>2 DEF StartInv, ToldIsStored, SnapshotIsStored, MarkIsStored, StartedOnce
<1> QED BY <1>1, <1>3, <1>4, <1>5 DEF StartInv

\* Looks that take up a cadence, break or end.
LEMMA EndsStart ==
    ASSUME TypeOK, LookInv, StartInv,
           \/ \E c \in Cadences : Handle(c)
           \/ MarkFails \/ Refuse \/ LookBreaks \/ LookEnds \/ LookFails \/ KeeperEnds
    PROVE  StartInv'
<1> USE DEF StartInv
<1>1. ASSUME NEW c \in Cadences, Handle(c) PROVE StartInv'
  <2>1. ClockBehind' /\ \A d \in Int : Reached(d) => Reached(d)'
    BY <1>1, ClockLeft DEF Handle, clocks
  <2> QED BY <1>1, <2>1, FrameStart DEF Handle, Without, broker, gateway, started
<1>2. CASE MarkFails \/ Refuse
  <2>1. ClockBehind' /\ \A d \in Int : Reached(d) => Reached(d)'
    BY <1>2, ClockLeft DEF MarkFails, Refuse, NextCadence, clocks
  <2> QED BY <1>2, <2>1, FrameStart DEF MarkFails, Refuse, NextCadence, Without, broker, gateway, started
<1>3. CASE LookBreaks \/ KeeperEnds
  <2>1. ClockBehind' /\ \A d \in Int : Reached(d) => Reached(d)'
    BY <1>3, ClockLeft DEF LookBreaks, KeeperEnds, clocks, keeper
  <2> QED BY <1>3, <2>1, FrameStart DEF LookBreaks, KeeperEnds, broker, gateway, started, keeper
<1>4. ASSUME NEW failures, EndLook(failures), phase # "idle" PROVE StartInv'
  <2>1. ClockBehind' /\ \A d \in Int : Reached(d) => Reached(d)'
    BY <1>4, EndReaches
  <2> QED BY <1>4, <2>1, FrameStart DEF EndLook, Nothing, broker, gateway, started
<1> QED BY <1>1, <1>2, <1>3, <1>4 DEF LookEnds, LookFails

\* The instants a look takes up of a cadence come after every run the cadence started.
LEMMA DueIsNew ==
    ASSUME TypeOK, LookInv, StartInv, phase \in {"marking", "marked", "resolving"}, at \notin Doubtful
    PROVE  \A u \in due : u <= lastLook.model /\ \A t \in Int : <<at, t>> \in runs => t < u
<1> DEFINE c == todo[at]
<1>1. /\ at \in DOMAIN todo /\ c \in Cadence /\ lastLook # None /\ due # {}
      /\ due = DueAt(c, lastLook.model, coveredFrom) /\ lastLook.model \in Int /\ coveredFrom \in Int
  BY LookAtHand DEF LookInv, AtHand, Noted, TypeOK
<1>2. c.interval > 0 /\ \A u \in due : u <= lastLook.model
  BY <1>1, DueHasLast
<1>3. Past(at, c.lastDue)
  BY <1>1 DEF StartInv, TodoPast
<1> SUFFICES ASSUME NEW u \in due, NEW t \in Int, <<at, t>> \in runs
             PROVE  t < u
  BY <1>2
<1>u. u \in Int
  BY LookAtHand
<1>4. c.lastDue \in Int /\ t <= c.lastDue /\ c.lastDue <= lastLook.model /\ c.lastDue # Never
  BY <1>1, <1>3, NeverAssumption DEF Past, Reached
<1>5. u \in TakenUp(c, lastLook.model, coveredFrom)
  BY <1>1, <1>2, <1>4, TakesUpWhatWasMissed
<1>6. c.lastDue < u
  BY <1>5 DEF TakenUp, Missed
<1> QED BY <1>u, <1>4, <1>6

LEMMA LandsStart ==
    ASSUME TypeOK, LookInv, StartInv, LandMark
    PROVE  StartInv'
<1>1. /\ phase = "marking" /\ phase' = "marked"
      /\ stored' = [stored EXCEPT ![at].lastDue = LastOf(due)]
      /\ UNCHANGED <<clocks, gateway, keeper, runs, twice>>
      /\ Doubtful \subseteq Doubtful'
      /\ at \in Doubtful' \/ (following = "streaming" /\ stream = <<>> /\ UNCHANGED Doubtful)
  BY DEF LandMark, Heard
<1>2. /\ at \in Cadences /\ LastOf(due) \in Int /\ LastOf(due) \in due /\ lastLook # None /\ lastLook.model \in Int
      /\ LastOf(due) <= lastLook.model
  <2>1. /\ at \in Cadences /\ todo[at] \in Cadence /\ LastOf(due) \in Int /\ lastLook.model \in Int
    BY <1>1, LookAtHand
  <2>2. lastLook # None /\ coveredFrom \in Int /\ due = DueAt(todo[at], lastLook.model, coveredFrom) /\ due # {}
    BY <1>1 DEF LookInv, Noted, AtHand, TypeOK
  <2> QED BY <2>1, <2>2, DueHasLast
<1>3. /\ stored'[at].lastDue = LastOf(due)
      /\ \A c \in Cadences : c # at => stored'[c] = stored[c]
  BY <1>1, <1>2 DEF TypeOK, Cadence
<1>4. ClockBehind' /\ \A d \in Int : Reached(d) => Reached(d)'
  BY <1>1, ClockLeft DEF StartInv, clocks, keeper
<1>5. HeldPast' /\ TodoPast' /\ \A c, d : Past(c, d) => Past(c, d)'
  BY <1>1, <1>4, PastKept DEF gateway, keeper
<1>6. StoredPast'
  <2> SUFFICES ASSUME NEW c \in Cadences \ Doubtful', NEW d, d = stored'[c].lastDue PROVE Past(c, d)'
    BY <1>1 DEF StoredPast, Past
  <2>1. CASE c # at
    BY <1>1, <1>3, <1>5, <2>1 DEF StartInv, StoredPast
  <2>2. CASE c = at
    <3>1. Reached(LastOf(due))
      <4>1. clock \in Int /\ model \in Int
        BY DEF TypeOK
      <4>2. clock <= model /\ lastLook.model <= clock
        BY <1>2 DEF StartInv, ClockBehind, Unanchored
      <4> QED BY <1>2, <4>1, <4>2 DEF Reached
    <3>2. \A t \in Int : <<at, t>> \in runs => t <= LastOf(due)
      BY <1>1, <1>2, <2>2, DueIsNew
    <3>3. Past(at, LastOf(due))
      BY <1>2, <3>1, <3>2 DEF Past
    <3> QED BY <1>3, <1>5, <2>2, <3>3
  <2> QED BY <2>1, <2>2
<1>7. ToldIsStored'
  <2> DEFINE change == [event |-> "lastDue", of |-> at, to |-> LastOf(due)]
  <2>1. /\ change \in Changes /\ change.of = at /\ TellsDue(change, LastOf(due))
        /\ Publish(change) \/ UNCHANGED stream
    BY <1>2 DEF LandMark, Changes, TellsDue
  <2> HIDE DEF change
  <2>2. \A c \in Cadences \ Doubtful' : c = at => stream = <<>>
    BY <1>1
  <2>3. ASSUME NEW i \in DOMAIN stream, stream[i].of \notin Doubtful'
        PROVE  TellsDue(stream[i], stored'[stream[i].of].lastDue)
    <3>1. stream[i] \in Changes
      BY DEF TypeOK
    <3>2. stream[i].of \in Cadences
      BY <3>1 DEF Changes
    <3>3. stream[i].of # at
      BY <1>1, <2>3, <3>2
    <3>4. TellsDue(stream[i], stored[stream[i].of].lastDue)
      BY <1>1, <2>3 DEF StartInv, ToldIsStored
    <3> QED BY <1>3, <3>2, <3>3, <3>4
  <2>4. CASE UNCHANGED stream
    BY <2>3, <2>4 DEF ToldIsStored
  <2>5. CASE stream' = Append(stream, change)
    <3>1. /\ stream \in Seq(Changes) /\ Len(stream) \in Nat /\ DOMAIN stream = 1 .. Len(stream)
          /\ DOMAIN stream' = 1 .. Len(stream) + 1
          /\ stream'[Len(stream) + 1] = change
          /\ \A i \in 1 .. Len(stream) : stream'[i] = stream[i]
      BY <2>1, <2>5, AppendProperties DEF TypeOK
    <3>2. \A i \in 1 .. Len(stream) + 1 : i = Len(stream) + 1 \/ i \in 1 .. Len(stream)
      BY <3>1
    <3> QED BY <1>3, <2>1, <2>3, <3>1, <3>2 DEF ToldIsStored
  <2> QED BY <2>1, <2>4, <2>5 DEF Publish
<1>8. SnapshotIsStored' /\ MarkIsStored' /\ StartedOnce'
  <2>1. SnapshotIsStored'
    <3> SUFFICES ASSUME following = "opened", NEW c \in DOMAIN snapshot \ Doubtful'
                 PROVE  snapshot[c].lastDue = stored'[c].lastDue
      BY <1>1 DEF SnapshotIsStored, gateway
    <3>1. c # at /\ c \in Cadences
      BY <1>1 DEF TypeOK, IsList
    <3> QED BY <1>1, <1>3, <3>1 DEF StartInv, SnapshotIsStored
  <2>2. MarkIsStored' /\ StartedOnce'
    BY <1>1, <1>3 DEF StartInv, MarkIsStored, StartedOnce, keeper
  <2> QED BY <2>1, <2>2
<1> QED BY <1>4, <1>5, <1>6, <1>7, <1>8 DEF StartInv

LEMMA MarksStart ==
    ASSUME TypeOK, LookInv, StartInv, MarkDue
    PROVE  StartInv'
<1>1. /\ phase = "marked" /\ phase' = "resolving" /\ held' = MarkedHeld(held, at, LastOf(due))
      /\ UNCHANGED <<clocks, broker, following, snapshot, stream, keeper, started>>
  BY DEF MarkDue, MarkDueWith
<1>2. at \in Cadences
  BY <1>1, LookAtHand
<1>3. ClockBehind' /\ \A d \in Int : Reached(d) => Reached(d)'
  BY <1>1, ClockLeft DEF StartInv, clocks, keeper
<1>4. StoredPast' /\ TodoPast' /\ \A c, d : Past(c, d) => Past(c, d)'
  BY <1>1, <1>3, PastKept DEF broker, keeper, started
<1>5. held' # Unread => held # Unread /\ DOMAIN held' = DOMAIN held /\ \A c \in DOMAIN held :
         held'[c].lastDue = IF c = at THEN LastOf(due) ELSE held[c].lastDue
  BY <1>1 DEF MarkedHeld, TypeOK, IsList, Cadence
<1>6. at \notin Doubtful => Past(at, LastOf(due))
  BY <1>1, <1>2 DEF StartInv, MarkIsStored, StoredPast
<1>7. HeldPast'
  BY <1>1, <1>4, <1>5, <1>6 DEF StartInv, HeldPast, started
<1>8. MarkIsStored'
  BY <1>1, <1>5 DEF StartInv, MarkIsStored, broker, keeper, started
<1>9. ToldIsStored' /\ SnapshotIsStored' /\ StartedOnce'
  BY <1>1 DEF StartInv, ToldIsStored, SnapshotIsStored, StartedOnce, broker, started
<1> QED BY <1>3, <1>4, <1>7, <1>8, <1>9 DEF StartInv

LEMMA StartsStart ==
    ASSUME TypeOK, LookInv, StartInv, Start
    PROVE  StartInv'
<1>1. /\ phase = "resolving" /\ phase' = "looking"
      /\ runs' = runs \union ({at} \X due) /\ twice' = twice \union (runs \intersect ({at} \X due))
      /\ todo' = Without(at)
      /\ UNCHANGED <<clocks, broker, gateway, stream, lastLook, lookAt, Doubtful>>
  BY DEF Start, NextCadence
<1>2. /\ at \in Cadences /\ LastOf(due) \in Int /\ LastOf(due) \in due /\ due \subseteq Int /\ \A u \in due : u <= LastOf(due)
  <2>1. at \in Cadences /\ todo[at] \in Cadence /\ LastOf(due) \in Int /\ lastLook.model \in Int /\ due \subseteq Int
    BY <1>1, LookAtHand
  <2>2. lastLook # None /\ coveredFrom \in Int /\ due = DueAt(todo[at], lastLook.model, coveredFrom) /\ due # {}
    BY <1>1 DEF LookInv, Noted, AtHand, TypeOK
  <2> QED BY <2>1, <2>2, DueHasLast
<1>3. ClockBehind' /\ \A d \in Int : Reached(d) => Reached(d)'
  BY <1>1, ClockLeft DEF StartInv, clocks
<1>4. \A c, d : c # at /\ Past(c, d) => Past(c, d)'
  BY <1>1, <1>3 DEF Past
<1>5. ASSUME NEW c, c = at, c \notin Doubtful, NEW last, last = LastOf(due) PROVE Past(c, last)'
  <2>1. stored[at].lastDue = last /\ Past(c, last)
    BY <1>1, <1>2, <1>5 DEF StartInv, MarkIsStored, StoredPast
  <2>2. \A t \in Int : <<c, t>> \in runs' => t <= last
    BY <1>1, <1>2, <1>5, <2>1 DEF Past
  <2>3. Reached(last)
    <3>1. clock \in Int /\ model \in Int /\ lastLook # None /\ lastLook.model \in Int
      BY <1>1 DEF TypeOK, LookInv, Noted
    <3>2. clock <= model /\ lastLook.model <= clock
      BY <1>1, <3>1 DEF StartInv, ClockBehind, Unanchored
    <3>3. last <= lastLook.model
      BY <1>1, <1>2, <1>5, DueIsNew
    <3> QED BY <1>2, <1>5, <3>1, <3>2, <3>3 DEF Reached
  <2> QED BY <1>2, <1>3, <1>5, <2>2, <2>3 DEF Past
<1>6. StoredPast'
  <2> SUFFICES ASSUME NEW c \in Cadences \ Doubtful, NEW d, d = stored[c].lastDue PROVE Past(c, d)'
    BY <1>1 DEF StoredPast, Past, broker
  <2>1. CASE c # at
    BY <1>4, <2>1 DEF StartInv, StoredPast
  <2>2. CASE c = at
    BY <1>1, <1>5, <2>2 DEF StartInv, MarkIsStored
  <2> QED BY <2>1, <2>2
<1>7. HeldPast'
  <2> SUFFICES ASSUME held # Unread, NEW c \in DOMAIN held \ Doubtful, NEW d, d = held[c].lastDue PROVE Past(c, d)'
    BY <1>1 DEF HeldPast, Past, gateway
  <2>1. CASE c # at
    BY <1>4, <2>1 DEF StartInv, HeldPast
  <2>2. CASE c = at
    BY <1>1, <1>5, <2>2 DEF StartInv, MarkIsStored
  <2> QED BY <2>1, <2>2
<1>8. TodoPast'
  <2>1. \A c \in DOMAIN todo' : c # at /\ c \in DOMAIN todo /\ todo'[c] = todo[c]
    BY <1>1 DEF Without
  <2> SUFFICES ASSUME NEW c \in DOMAIN todo' \ Doubtful, NEW d, d = todo[c].lastDue PROVE Past(c, d)'
    BY <1>1, <2>1 DEF TodoPast, Past
  <2> QED BY <1>4, <2>1 DEF StartInv, TodoPast
<1>9. StartedOnce'
  <2>1. ASSUME NEW t \in due, <<at, t>> \in runs PROVE at \in Doubtful
    <3>1. t \in Int /\ ~(t < t)
      BY <1>2
    <3> QED BY <1>1, <2>1, <3>1, DueIsNew
  <2> QED BY <1>1, <2>1 DEF StartInv, StartedOnce
<1>10. ToldIsStored' /\ SnapshotIsStored' /\ MarkIsStored'
  BY <1>1 DEF StartInv, ToldIsStored, SnapshotIsStored, MarkIsStored, broker, gateway
<1> QED BY <1>3, <1>6, <1>7, <1>8, <1>9, <1>10 DEF StartInv

LEMMA CrashStart ==
    ASSUME TypeOK, LookInv, StartInv, Crash
    PROVE  StartInv'
<1>1. /\ UNCHANGED <<broker, started>> /\ stream' = <<>> /\ following' = "off" /\ held' = Unread
      /\ phase' = "idle" /\ todo' = Nothing
  BY DEF Crash
<1>2. ClockBehind' /\ \A d \in Int : Reached(d) => Reached(d)'
  BY CrashReaches DEF StartInv
<1>3. StoredPast'
  BY <1>1, <1>2, PastKept DEF broker, started
<1>4. HeldPast' /\ TodoPast'
  BY <1>1 DEF HeldPast, TodoPast, Nothing
<1>5. ToldIsStored' /\ SnapshotIsStored' /\ MarkIsStored' /\ StartedOnce'
  BY <1>1 DEF StartInv, ToldIsStored, SnapshotIsStored, MarkIsStored, StartedOnce, started
<1> QED BY <1>2, <1>3, <1>4, <1>5 DEF StartInv

LEMMA NextStartInv ==
    ASSUME Timely
    PROVE  TypeOK /\ LookInv /\ StartInv /\ [Next]_vars => StartInv'
<1> SUFFICES ASSUME TypeOK, LookInv, StartInv, [Next]_vars PROVE StartInv'
  OBVIOUS
<1>1. CASE ClockStep
  <2>1. ClockBehind' /\ \A d \in Int : Reached(d) => Reached(d)'
    BY <1>1, ClockGoesOn DEF StartInv
  <2>2. UNCHANGED <<broker, gateway, stream, phase, keeper, started>>
    BY <1>1 DEF ClockStep, Tick, FollowOnce, ChangeSpeed, JumpAhead
  <2> QED BY <2>1, <2>2, FrameStart DEF broker, gateway, keeper, started
<1>2. CASE EditStep
  BY <1>2, EditsStart
<1>3. CASE FollowStep \/ StreamEnds
  BY <1>3, FollowsStart
<1>4. CASE Look
  BY <1>4, LooksStart
<1>5. CASE LookStep
  BY <1>5, LooksStart, EndsStart, LandsStart, MarksStart, StartsStart DEF LookStep
<1>6. CASE Crash
  BY <1>6, CrashStart
<1>7. CASE UNCHANGED vars
  <2>1. ClockBehind' /\ \A d \in Int : Reached(d) => Reached(d)'
    BY <1>7, ClockLeft DEF StartInv, vars, clocks, keeper
  <2> QED BY <1>7, <2>1, FrameStart DEF vars, broker, gateway, keeper, started
<1> QED BY <1>1, <1>2, <1>3, <1>4, <1>5, <1>6, <1>7 DEF Next

\* Where the clock is read when it is due and does not slow down, a cadence starts no run twice for one instant, unless
\* its instant last due was edited or it was marked before the stream had told what was sent earlier, over any number
\* of restarts, lost marks, broken streams, refusals and jumps of the clock (CadenceKeeper.HandleAsync, which marks
\* before it starts).
THEOREM StartsOnce == ASSUME Timely PROVE Spec => []StartedOnce
<1>1. StartInv => StartedOnce
  BY DEF StartInv
<1>2. TypeOK /\ LookInv /\ StartInv /\ [Next]_vars => StartInv'
  BY NextStartInv
<1> QED BY <1>1, <1>2, InitInv, NextKeeps, InitStartInv, PTL DEF Spec

-----------------------------------------------------------------------------
(***************************************************************************)
(* What the keeper takes up of the time the broker's clock ran through: of *)
(* an instant no look has passed yet, the next look's window reaches back  *)
(* to it; of an instant one has passed, the look that goes on has it in    *)
(* its covered time, or what is held was brought past it.                  *)
(***************************************************************************)
\* The instants run through that the last look did not pass.
Ahead(t) == lastLook # None => t > lastLook.model

\* The instants run through that a cadence missed by the last look.
MissedOf(s) == {t \in ran : s.interval > 0 /\ s.lastDue # Never /\ Missed(s, t, lastLook.model)}

InLook == phase \in {"looking", "marking", "marked", "resolving"}

\* The look that goes on takes the cadence up, or what was run through is forgotten before there is another.
SeenTo(c) == \/ phase \in {"waiting", "ended"} \union Failures
             \/ /\ InLook
                /\ c \in DOMAIN todo
                /\ DueAt(todo[c], lastLook.model, coveredFrom) # {}
                /\ ~(phase = "resolving" /\ c = at)

ReadingsAreDue == /\ real <= askAt /\ askAt <= real + ModelClockInterval
                  /\ lastLook # None => lastLook.real <= real

\* An instant run through since a reading of the clock, or since a look, is in the window of that time.
InTheWindow(t) ==
    /\ t <= model
    /\ lastLook # None =>
          /\ t > clock => model - t < speed * (real - askAt + ModelClockInterval)
          /\ t > lastLook.model => /\ clock - t < rate * (real - lastLook.real + ModelClockInterval)
                                   /\ model - t < speed * (real - lastLook.real + ModelClockInterval)

\* What the last look passed is missed by none that is held but those it takes up.
PassedIsTaken ==
    lastLook # None /\ held # Unread => \A c \in DOMAIN held : MissedOf(held[c]) # {} => SeenTo(c)

\* What its list missed is in the covered time.
MissedIsCovered == InLook => \A c \in DOMAIN todo : \A t \in MissedOf(todo[c]) : t > coveredFrom

\* While nothing was read, all of it is ahead or in the covered time.
UnreadIsCovered ==
    /\ phase = "waiting" => \A t \in ran : Ahead(t) \/ t > coveredFrom
    /\ phase = "idle" /\ held = Unread => \A t \in ran : Ahead(t)

\* Its list and what is held state one interval, where a look passed anything.
ListIsHeld == InLook =>
    /\ held # Unread
    /\ \/ \A t \in ran : Ahead(t)
       \/ \A c \in DOMAIN todo \intersect DOMAIN held : held[c].interval = todo[c].interval

ClocksInv == ReadingsAreDue /\ \A t \in ran : InTheWindow(t)

RanInv == PassedIsTaken /\ MissedIsCovered /\ UnreadIsCovered /\ ListIsHeld

\* Products of speeds and times.
LEMMA Lengthens ==
    ASSUME NEW v \in Nat, NEW w \in Nat, NEW s \in Int, NEW l \in Int
    PROVE  /\ v * s \in Int
           /\ v * (s + 1) = v * s + v
           /\ s <= l => v * s <= v * l
           /\ s >= 1 => v * s >= v
           /\ v <= w /\ 0 <= s => v * s <= w * s
<1>1. v * s \in Int /\ v * (s + 1) = v * s + v
  BY SMT
<1>2. s <= l => v * s <= v * l
  BY SMT
<1>3. s >= 1 => v * s >= v
  BY SMT
<1>4. v <= w /\ 0 <= s => v * s <= w * s
  BY SMT
<1> QED BY <1>1, <1>2, <1>3, <1>4

LEMMA WindowKept ==
    ASSUME ClocksInv, UNCHANGED <<real, model, speed, clock, rate, askAt, lastLook>>, ran' \subseteq ran
    PROVE  ClocksInv'
BY DEF ClocksInv, ReadingsAreDue, InTheWindow

LEMMA ClockTypes ==
    ASSUME TypeOK
    PROVE  /\ real \in Int /\ askAt \in Int /\ model \in Int /\ clock \in Int /\ speed \in Nat /\ rate \in Nat
           /\ ModelClockInterval \in Nat
           /\ ran \subseteq Int
           /\ lastLook # None => lastLook.model \in Int /\ lastLook.real \in Int
BY KeeperAssumption DEF TypeOK

LEMMA TickInWindow ==
    ASSUME Timely, TypeOK, ClockBehind, ClocksInv, Tick
    PROVE  ClocksInv'
<1>1. /\ real < askAt /\ real' = real + 1 /\ model' = model + speed /\ clock' = clock + rate
      /\ UNCHANGED <<speed, rate, askAt, lastLook>>
      /\ ran' = ran \union {t \in model + 1 .. model + speed : lastLook # None => t > lastLook.model}
  BY DEF Tick, Timely, keeper
<1> DEFINE sinceRead == real - askAt + ModelClockInterval
           sinceLook == real - lastLook.real + ModelClockInterval
<1>2. sinceRead \in Int /\ 0 <= sinceRead /\ real' - askAt + ModelClockInterval = sinceRead + 1
  BY <1>1, ClockTypes DEF ClocksInv, ReadingsAreDue
<1>3. lastLook # None => /\ sinceLook \in Int /\ 0 <= sinceLook
                         /\ real' - lastLook.real + ModelClockInterval = sinceLook + 1
  BY <1>1, ClockTypes DEF ClocksInv, ReadingsAreDue
<1>4. lastLook # None => clock <= model /\ rate <= speed /\ lastLook.model <= clock
  BY DEF ClockBehind, Unanchored
<1>5. ReadingsAreDue'
  BY <1>1, ClockTypes DEF ClocksInv, ReadingsAreDue
<1>6. ASSUME NEW t \in ran PROVE InTheWindow(t)'
  <2>1. t \in Int /\ InTheWindow(t)
    BY <1>6, ClockTypes DEF ClocksInv
  <2> USE ClockTypes
  <2>2. t <= model'
    BY <1>1, <2>1 DEF InTheWindow
  <2>3. ASSUME lastLook # None, t > clock' PROVE model' - t < speed * (sinceRead + 1)
    <3>1. t > clock
      BY <1>1, <2>1, <2>3
    <3>2. model - t < speed * sinceRead
      BY <2>1, <2>3, <3>1 DEF InTheWindow
    <3>3. speed * sinceRead \in Int /\ speed * (sinceRead + 1) = speed * sinceRead + speed
      BY <1>2, Lengthens
    <3> HIDE DEF sinceRead
    <3> QED BY <1>1, <2>1, <3>2, <3>3
  <2>4. ASSUME lastLook # None, t > lastLook.model
        PROVE  clock' - t < rate * (sinceLook + 1) /\ model' - t < speed * (sinceLook + 1)
    <3>1. clock - t < rate * sinceLook /\ model - t < speed * sinceLook
      BY <2>1, <2>4 DEF InTheWindow
    <3>2. /\ rate * sinceLook \in Int /\ rate * (sinceLook + 1) = rate * sinceLook + rate
          /\ speed * sinceLook \in Int /\ speed * (sinceLook + 1) = speed * sinceLook + speed
      BY <1>3, <2>4, Lengthens
    <3> HIDE DEF sinceLook
    <3> QED BY <1>1, <2>1, <3>1, <3>2
  <2> HIDE DEF sinceRead, sinceLook
  <2> QED BY <1>1, <1>2, <1>3, <2>2, <2>3, <2>4 DEF InTheWindow
<1>7. ASSUME NEW t \in model + 1 .. model + speed PROVE InTheWindow(t)'
  <2> USE ClockTypes
  <2>1. t \in Int /\ t > model /\ t <= model' /\ model' - t < speed
    BY <1>1
  <2>2. model' - t < speed * (sinceRead + 1)
    <3>1. speed * (sinceRead + 1) \in Int /\ speed * (sinceRead + 1) >= speed
      BY <1>2, Lengthens
    <3> HIDE DEF sinceRead
    <3> QED BY <1>1, <2>1, <3>1
  <2>3. ASSUME lastLook # None
        PROVE  clock' - t < rate * (sinceLook + 1) /\ model' - t < speed * (sinceLook + 1)
    <3>1. /\ rate * (sinceLook + 1) \in Int /\ rate * (sinceLook + 1) >= rate
          /\ speed * (sinceLook + 1) \in Int /\ speed * (sinceLook + 1) >= speed
      BY <1>3, <2>3, Lengthens
    <3>2. clock' - t < rate
      BY <1>1, <1>4, <2>1, <2>3
    <3> HIDE DEF sinceLook
    <3> QED BY <1>1, <2>1, <3>1, <3>2
  <2> HIDE DEF sinceRead, sinceLook
  <2> QED BY <1>1, <1>2, <1>3, <2>1, <2>2, <2>3 DEF InTheWindow
<1> QED BY <1>1, <1>5, <1>6, <1>7 DEF ClocksInv

LEMMA ReadingInWindow ==
    ASSUME TypeOK, ClocksInv, FollowOnce
    PROVE  ClocksInv'
<1>1. /\ real >= askAt /\ clock' = model /\ rate' = speed /\ askAt' = real + ModelClockInterval
      /\ UNCHANGED <<real, model, speed, lastLook, ran>>
  BY DEF FollowOnce, keeper
<1> USE ClockTypes
<1>2. ReadingsAreDue'
  BY <1>1 DEF ClocksInv, ReadingsAreDue
<1>3. ASSUME NEW t \in ran PROVE InTheWindow(t)'
  <2>1. t \in Int /\ InTheWindow(t)
    BY DEF ClocksInv
  <2> QED BY <1>1, <2>1 DEF InTheWindow
<1> QED BY <1>1, <1>2, <1>3 DEF ClocksInv

LEMMA FasterInWindow ==
    ASSUME Timely, TypeOK, ClocksInv, ChangeSpeed
    PROVE  ClocksInv'
<1>1. PICK s \in Speeds : ((s > speed /\ Trouble("faster")) \/ (s < speed /\ Trouble("slower"))) /\ speed' = s
  BY DEF ChangeSpeed
<1>2. s > speed /\ s \in Nat
  BY <1>1, KeeperAssumption DEF Timely, Trouble
<1>3. UNCHANGED <<real, model, clock, rate, askAt, lastLook, ran>>
  BY DEF ChangeSpeed, keeper
<1> USE ClockTypes
<1>4. ReadingsAreDue'
  BY <1>3 DEF ClocksInv, ReadingsAreDue
<1>5. ASSUME NEW time \in Int, 0 <= time PROVE speed * time <= speed' * time /\ speed * time \in Int /\ speed' * time \in Int
  BY <1>1, <1>2, <1>5, Lengthens
<1>6. ASSUME NEW t \in ran PROVE InTheWindow(t)'
  <2> DEFINE sinceRead == real - askAt + ModelClockInterval
             sinceLook == real - lastLook.real + ModelClockInterval
  <2>1. t \in Int /\ InTheWindow(t)
    BY DEF ClocksInv
  <2>2. sinceRead \in Int /\ 0 <= sinceRead
    BY DEF ClocksInv, ReadingsAreDue
  <2>3. lastLook # None => sinceLook \in Int /\ 0 <= sinceLook
    BY DEF ClocksInv, ReadingsAreDue
  <2>4. lastLook # None /\ t > clock => model - t < speed * sinceRead
    BY <2>1 DEF InTheWindow
  <2>5. lastLook # None /\ t > lastLook.model => /\ clock - t < rate * sinceLook
                                                 /\ model - t < speed * sinceLook
    BY <2>1 DEF InTheWindow
  <2>6. t <= model
    BY <2>1 DEF InTheWindow
  <2>7. sinceRead' = sinceRead /\ sinceLook' = sinceLook
    BY <1>3
  <2>8. ASSUME lastLook # None, t > clock PROVE model - t < speed' * sinceRead
    BY <1>5, <2>1, <2>2, <2>4, <2>8
  <2>9. ASSUME lastLook # None, t > lastLook.model PROVE model - t < speed' * sinceLook
    BY <1>5, <2>1, <2>3, <2>5, <2>9
  <2> SUFFICES /\ t <= model'
               /\ lastLook' # None =>
                     /\ t > clock' => model' - t < speed' * sinceRead'
                     /\ t > lastLook'.model => /\ clock' - t < rate' * sinceLook'
                                               /\ model' - t < speed' * sinceLook'
    BY DEF InTheWindow
  <2> HIDE DEF sinceRead, sinceLook
  <2> QED BY <1>3, <2>5, <2>6, <2>7, <2>8, <2>9
<1> QED BY <1>3, <1>4, <1>6 DEF ClocksInv

LEMMA LookInWindow ==
    ASSUME TypeOK, ClocksInv, Look
    PROVE  ClocksInv'
<1>1. /\ lastLook' = [model |-> clock, real |-> real] /\ lastLook'.model = clock /\ lastLook'.real = real
      /\ UNCHANGED <<real, model, speed, clock, rate, askAt>>
      /\ ran' = IF lastLook = None THEN {} ELSE ran
  BY DEF Look, LookCovering
<1> USE ClockTypes
<1>2. ReadingsAreDue'
  BY <1>1 DEF ClocksInv, ReadingsAreDue
<1>3. ASSUME NEW t \in ran' PROVE InTheWindow(t)'
  <2> DEFINE sinceRead == real - askAt + ModelClockInterval
  <2>1. t \in Int /\ InTheWindow(t) /\ lastLook # None
    BY <1>1, <1>3 DEF ClocksInv
  <2>2. sinceRead \in Int /\ sinceRead <= ModelClockInterval /\ real - real + ModelClockInterval = ModelClockInterval
    BY DEF ClocksInv, ReadingsAreDue
  <2>3. /\ speed * sinceRead \in Int /\ speed * sinceRead <= speed * ModelClockInterval
        /\ speed * ModelClockInterval \in Int
        /\ rate * ModelClockInterval \in Int /\ rate * ModelClockInterval >= 0
    <3>1. ModelClockInterval >= 1
      BY KeeperAssumption
    <3> HIDE DEF sinceRead
    <3> QED BY <2>2, <3>1, Lengthens
  <2>4. t > clock => model - t < speed * sinceRead
    BY <2>1 DEF InTheWindow
  <2>5. t <= model
    BY <2>1 DEF InTheWindow
  <2>6. real' - askAt' + ModelClockInterval = sinceRead
    BY <1>1
  <2>7. real' - lastLook'.real + ModelClockInterval = ModelClockInterval
    BY <1>1
  <2> HIDE DEF sinceRead
  <2>8. ASSUME t > clock PROVE clock - t < rate * ModelClockInterval /\ model - t < speed * ModelClockInterval
    BY <2>1, <2>3, <2>4, <2>8
  <2> QED BY <1>1, <2>4, <2>5, <2>6, <2>7, <2>8 DEF InTheWindow
<1> QED BY <1>2, <1>3 DEF ClocksInv

LEMMA NextInWindow ==
    ASSUME Timely
    PROVE  TypeOK /\ LookInv /\ ClockBehind /\ ClocksInv /\ [Next]_vars => ClocksInv'
<1> SUFFICES ASSUME TypeOK, LookInv, ClockBehind, ClocksInv, [Next]_vars PROVE ClocksInv'
  OBVIOUS
<1> USE DEF clocks, broker, gateway, keeper, started
<1>1. CASE ClockStep
  <2>1. CASE JumpAhead
    <3>1. ran' = {} /\ UNCHANGED <<real, askAt, lastLook>>
      BY <2>1 DEF JumpAhead
    <3> QED BY <3>1 DEF ClocksInv, ReadingsAreDue
  <2> QED BY <1>1, <2>1, TickInWindow, ReadingInWindow, FasterInWindow DEF ClockStep
<1>2. CASE EditStep
  <2>1. UNCHANGED <<clocks, lastLook>>
    BY <1>2 DEF EditStep, EditInterval, EditLastDue, EnterKind, LeaveKind
  <2> QED BY <2>1, WindowKept
<1>3. CASE FollowStep \/ StreamEnds
  <2>1. CASE Ask \/ Subscribe \/ NoteFailure \/ StreamEnds
    BY <2>1, WindowKept DEF Ask, Subscribe, NoteFailure, StreamEnds
  <2>2. CASE Replace \/ Apply
    <3>1. ran' \subseteq ran
      BY <2>2 DEF Replace, Apply, ChangeHeard
    <3> QED BY <2>2, <3>1, WindowKept DEF Replace, Apply
  <2> QED BY <1>3, <2>1, <2>2 DEF FollowStep
<1>4. CASE Look
  BY <1>4, LookInWindow
<1>5. CASE LookStep
  <2>1. CASE ReadHeld \/ LandMark \/ MarkDue \/ KeeperEnds \/ LookBreaks
    BY <2>1, WindowKept DEF ReadHeld, LandMark, MarkDue, MarkDueWith, KeeperEnds, LookBreaks
  <2>2. ASSUME NEW c \in Cadences, Handle(c) PROVE ClocksInv'
    BY <2>2, WindowKept DEF Handle
  <2>3. CASE MarkFails \/ Start \/ Refuse
    BY <2>3, WindowKept DEF MarkFails, Start, Refuse, NextCadence
  <2>4. ASSUME NEW failures, EndLook(failures) PROVE ClocksInv'
    BY <2>4, WindowKept DEF EndLook
  <2> QED BY <1>5, <2>1, <2>2, <2>3, <2>4 DEF LookStep, LookEnds, LookFails
<1>6. CASE Crash
  <2>1. UNCHANGED <<real, model, ran>> /\ askAt' = real /\ lastLook' = None
    BY <1>6 DEF Crash
  <2> QED BY <2>1, ClockTypes DEF ClocksInv, ReadingsAreDue, InTheWindow
<1>7. CASE UNCHANGED vars
  BY <1>7, WindowKept DEF vars
<1> QED BY <1>1, <1>2, <1>3, <1>4, <1>5, <1>6, <1>7 DEF Next

LEMMA InitInWindow == Init => ClocksInv
BY KeeperAssumption DEF Init, ClocksInv, ReadingsAreDue

-----------------------------------------------------------------------------
\* A cadence that missed an instant is due.
LEMMA MissedIsDue ==
    ASSUME NEW c \in Cadence, c.interval > 0, c.lastDue # Never,
           NEW now \in Int, NEW from \in Int, NEW t \in Int, Missed(c, t, now)
    PROVE  DueAt(c, now, from) # {}
<1>1. c.lastDue \in Int /\ c.lastDue <= now
  BY DEF Cadence, Missed
<1>2. PICK s \in 1 .. StepsTo(c, now) : t = c.lastDue + s * c.interval
  BY <1>1, MissedBySteps
<1>3. StepsTo(c, now) \in Int /\ StepsTo(c, now) \in 1 .. StepsTo(c, now)
  BY <1>1, <1>2, DueBySteps
<1> QED BY <1>1, <1>3, DueBySteps

\* One that is brought to the last instant it was due at missed none.
LEMMA PastTheLast ==
    ASSUME NEW c \in Cadence, NEW now \in Int, NEW from \in Int, DueAt(c, now, from) # {},
           NEW d, d.interval = c.interval, d.lastDue = LastOf(DueAt(c, now, from)), NEW t \in Int
    PROVE  ~Missed(d, t, now)
<1> DEFINE last == LastOf(DueAt(c, now, from))
<1>1. /\ c.interval > 0 /\ c.interval \in Int /\ last \in DueAt(c, now, from) /\ last \in Int
      /\ \A u \in DueAt(c, now, from) : u <= last /\ u \in Int
  BY DueHasLast DEF Cadence
<1> SUFFICES ASSUME last < t, t <= now, (t - last) % c.interval = 0 PROVE FALSE
  BY DEF Missed
<1>2. CASE c.lastDue = Never \/ c.lastDue > now
  <2>1. now \in DueAt(c, now, from)
    BY <1>1, <1>2 DEF DueAt, DueFrom
  <2> HIDE DEF last
  <2> QED BY <1>1, <2>1
<1>3. CASE c.lastDue # Never /\ ~(c.lastDue > now)
  <2>1. c.lastDue \in Int /\ c.lastDue <= now
    BY <1>3 DEF Cadence
  <2>2. Missed(c, last, now)
    <3>1. last \in TakenUp(c, now, from)
      BY <1>1, <1>3, <2>1, TakesUpWhatWasMissed
    <3> QED BY <3>1 DEF TakenUp
  <2> HIDE DEF last
  <2>3. Missed(c, t, now)
    <3> DEFINE a == (t - last) \div c.interval
               b == (last - c.lastDue) \div c.interval
    <3>1. a \in Int /\ t - last = c.interval * a
      BY <1>1, Divides
    <3>2. b \in Int /\ last - c.lastDue = c.interval * b
      BY <1>1, <2>1, <2>2, Divides DEF Missed
    <3> HIDE DEF a, b
    <3>3. c.interval * a + c.interval * b = (a + b) * c.interval /\ (a + b) * c.interval \in Int
      BY <1>1, <3>1, <3>2, SMT
    <3> DEFINE e == (a + b) * c.interval
    <3>4. e % c.interval = 0
      BY <1>1, <3>1, <3>2
    <3>5. t - c.lastDue = e
      BY <1>1, <2>1, <3>1, <3>2, <3>3
    <3>6. c.lastDue < t
      BY <1>1, <2>1, <2>2 DEF Missed
    <3> QED BY <3>4, <3>5, <3>6 DEF Missed
  <2>4. PICK s \in 1 .. StepsTo(c, now) : t = c.lastDue + s * c.interval
    BY <1>1, <1>3, <2>1, <2>3, MissedBySteps
  <2> DEFINE k == StepsTo(c, now)
  <2>5. k \in Int /\ k \in 1 .. k /\ c.lastDue + k * c.interval \in DueAt(c, now, from)
    BY <1>1, <1>3, <2>1, <2>4, DueBySteps
  <2> HIDE DEF k
  <2>6. s * c.interval <= k * c.interval /\ s * c.interval \in Int /\ k * c.interval \in Int
    BY <1>1, <2>4, <2>5, Stretches DEF k
  <2> QED BY <1>1, <2>1, <2>4, <2>5, <2>6
<1> QED BY <1>2, <1>3

\* What stays where the look, its list and what is held do.
LEMMA RanKept ==
    ASSUME RanInv, ran' \subseteq ran, UNCHANGED <<lastLook, held, phase, todo, at, coveredFrom>>
    PROVE  RanInv'
<1>1. \A c : SeenTo(c)' <=> SeenTo(c)
  BY DEF SeenTo, InLook
<1>2. \A s : MissedOf(s)' \subseteq MissedOf(s)
  BY DEF MissedOf
<1>3. PassedIsTaken'
  BY <1>1, <1>2 DEF RanInv, PassedIsTaken
<1>4. MissedIsCovered'
  BY <1>2 DEF RanInv, MissedIsCovered, InLook
<1>5. UnreadIsCovered' /\ ListIsHeld'
  BY DEF RanInv, UnreadIsCovered, ListIsHeld, InLook, Ahead
<1> QED BY <1>3, <1>4, <1>5 DEF RanInv

LEMMA NothingRan ==
    ASSUME ran' = {}, InLook' => held' # Unread
    PROVE  RanInv'
<1>1. \A s : MissedOf(s)' = {}
  BY DEF MissedOf
<1> QED BY <1>1 DEF RanInv, PassedIsTaken, MissedIsCovered, UnreadIsCovered, ListIsHeld

\* Where no look goes on to handle anything, nor is to come before what was run through is forgotten.
LEMMA NoLookComes ==
    ASSUME phase' \in {"ended"} \union Failures
    PROVE  RanInv'
<1>1. \A c : SeenTo(c)'
  BY DEF SeenTo
<1>2. ~InLook' /\ phase' # "waiting" /\ phase' # "idle"
  BY DEF InLook, Failures
<1> QED BY <1>1, <1>2 DEF RanInv, PassedIsTaken, MissedIsCovered, UnreadIsCovered, ListIsHeld

LEMMA ListIsNotUnread ==
    ASSUME NEW h, IsList(h)
    PROVE  h # Unread
BY KeeperAssumption DEF IsList

LEMMA TickRan ==
    ASSUME TypeOK, LookInv, RanInv, Tick
    PROVE  RanInv'
<1>1. /\ UNCHANGED <<lastLook, held, phase, todo, at, coveredFrom>>
      /\ ran' = ran \union {t \in model + 1 .. model + speed : lastLook # None => t > lastLook.model}
  BY DEF Tick, gateway, keeper
<1>2. \A t \in ran' : t \in ran \/ Ahead(t)
  BY <1>1 DEF Ahead
<1>3. ASSUME lastLook # None, NEW s PROVE MissedOf(s)' \subseteq MissedOf(s)
  <2>1. \A t \in ran' : t \in ran \/ (t \in Int /\ t > lastLook.model)
    BY <1>1, <1>3, ClockTypes
  <2> QED BY <1>1, <1>3, <2>1, ClockTypes DEF MissedOf, Missed
<1>4. \A c : SeenTo(c)' <=> SeenTo(c)
  BY <1>1 DEF SeenTo, InLook
<1>5. InLook => lastLook # None
  BY DEF InLook, LookInv, Noted
<1>6. PassedIsTaken'
  BY <1>1, <1>3, <1>4 DEF RanInv, PassedIsTaken
<1>7. MissedIsCovered'
  BY <1>1, <1>3, <1>5 DEF RanInv, MissedIsCovered, InLook
<1>8. UnreadIsCovered'
  BY <1>1, <1>2 DEF RanInv, UnreadIsCovered, Ahead
<1>9. ListIsHeld'
  BY <1>1, <1>2 DEF RanInv, ListIsHeld, InLook, Ahead
<1> QED BY <1>6, <1>7, <1>8, <1>9 DEF RanInv

\* What is heard of others is not held against what ran before.
LEMMA HeardRan ==
    ASSUME TypeOK, LookInv, RanInv, Replace \/ Apply
    PROVE  RanInv'
<1>1. UNCHANGED <<lastLook, phase, todo, at, due, coveredFrom>> /\ ChangeHeard
  BY DEF Replace, Apply, keeper
<1>2. held' # Unread
  <2>1. CASE Replace
    BY <2>1, ListIsNotUnread DEF Replace, TypeOK
  <2>2. CASE Apply
    <3>1. Head(stream) \in Changes
      BY <2>2 DEF Apply, TypeOK
    <3> QED BY <2>2, <3>1, AppliedIsList, ListIsNotUnread DEF Apply, LookInv, StreamsIntoList
  <2> QED BY <2>1, <2>2
<1>3. CASE ran' = {}
  BY <1>2, <1>3, NothingRan
<1>4. CASE held' = held
  BY <1>1, <1>4, RanKept DEF ChangeHeard
<1>5. CASE held = Unread /\ ran' = ran
  <2>1. ~InLook
    BY <1>5 DEF RanInv, ListIsHeld
  <2>2. \A c : phase # "idle" => SeenTo(c)'
    BY <1>1, <2>1 DEF SeenTo, InLook, TypeOK
  <2>3. ASSUME phase = "idle", lastLook # None, NEW s PROVE MissedOf(s)' = {}
    <3>1. \A t \in ran : t \in Int /\ t > lastLook.model
      BY <1>5, <2>3, ClockTypes DEF RanInv, UnreadIsCovered, Ahead
    <3> QED BY <1>1, <1>5, <2>3, <3>1, ClockTypes DEF MissedOf, Missed
  <2>4. PassedIsTaken'
    BY <1>1, <2>2, <2>3 DEF PassedIsTaken
  <2>5. ~InLook'
    BY <1>1, <2>1 DEF InLook
  <2>6. UnreadIsCovered'
    BY <1>1, <1>2, <1>5 DEF RanInv, UnreadIsCovered, Ahead
  <2> QED BY <2>4, <2>5, <2>6 DEF RanInv, MissedIsCovered, ListIsHeld
<1>6. CASE phase = "marked" /\ held' = MarkedHeld(held, at, LastOf(due)) /\ ran' = ran
  <2>1. InLook /\ InLook' /\ held # Unread
    BY <1>1, <1>6 DEF InLook, RanInv, ListIsHeld
  <2>2. DOMAIN held' = DOMAIN held /\ \A c \in DOMAIN held : /\ held'[c].interval = held[c].interval
                                                             /\ c # at => held'[c] = held[c]
    BY <1>6, <2>1 DEF MarkedHeld, TypeOK, IsList, Cadence
  <2>3. /\ \A c : SeenTo(c)' <=> SeenTo(c)
        /\ \A s : MissedOf(s)' = MissedOf(s)
    BY <1>1, <1>6 DEF SeenTo, InLook, MissedOf
  <2>4. SeenTo(at)
    BY <1>6, <2>1 DEF SeenTo, LookInv, AtHand
  <2>5. PassedIsTaken'
    BY <1>1, <2>1, <2>2, <2>3, <2>4 DEF RanInv, PassedIsTaken
  <2>6. MissedIsCovered'
    BY <1>1, <2>1, <2>3 DEF RanInv, MissedIsCovered
  <2>7. UnreadIsCovered'
    BY <1>1, <1>6 DEF UnreadIsCovered
  <2>8. ListIsHeld'
    BY <1>1, <1>2, <1>6, <2>1, <2>2 DEF RanInv, ListIsHeld, Ahead
  <2> QED BY <2>5, <2>6, <2>7, <2>8 DEF RanInv
<1> QED BY <1>1, <1>3, <1>4, <1>5, <1>6 DEF ChangeHeard

\* A look's window reaches back to what the last one did not pass.
LEMMA WindowReachesBack ==
    ASSUME TypeOK, ClocksInv, Look, lastLook # None, NEW t \in ran, t > lastLook.model
    PROVE  t > coveredFrom'
<1> DEFINE sinceLook == real - lastLook.real + ModelClockInterval
           back == rate * sinceLook
<1> USE ClockTypes
<1>1. sinceLook \in Int /\ 0 <= sinceLook
  BY DEF ClocksInv, ReadingsAreDue
<1>2. t \in Int /\ clock - t < back
  BY DEF ClocksInv, InTheWindow
<1>3. back \in Int /\ Window(2) = 2 * back /\ back >= 0
  <2> HIDE DEF sinceLook
  <2>1. back \in Int /\ rate * sinceLook >= 0
    BY <1>1, SMT
  <2>2. 2 * sinceLook * rate = 2 * (rate * sinceLook)
    BY <1>1, SMT
  <2> QED BY <2>1, <2>2 DEF Window, sinceLook
<1> HIDE DEF back, sinceLook
<1>4. coveredFrom' = Larger(lastLook.model, clock - Window(2))
  BY DEF Look, LookCovering
<1> QED BY <1>2, <1>3, <1>4 DEF Larger

LEMMA LookRan ==
    ASSUME TypeOK, LookInv, ClocksInv, RanInv, Look
    PROVE  RanInv'
<1>1. /\ phase = "idle" /\ UNCHANGED held
      /\ lastLook'.model = clock
      /\ lastLook # None => ran' = ran
      /\ \/ held # Unread /\ todo' = held /\ phase' = "looking"
         \/ held = Unread /\ phase' = (IF failed = "none" THEN "waiting" ELSE failed)
  BY DEF Look, LookCovering
<1>2. InLook' => held' # Unread
  BY <1>1 DEF InLook, TypeOK, Failures
<1>3. CASE lastLook = None
  BY <1>2, <1>3, NothingRan DEF Look, LookCovering
<1>4. CASE lastLook # None /\ held = Unread
  <2>1. CASE phase' = "waiting"
    <3>1. \A t \in ran : t > coveredFrom'
      BY <1>1, <1>4, WindowReachesBack DEF RanInv, UnreadIsCovered, Ahead
    <3> QED BY <1>1, <1>4, <2>1, <3>1
            DEF RanInv, PassedIsTaken, MissedIsCovered, UnreadIsCovered, ListIsHeld, InLook
  <2>2. CASE phase' \in Failures
    BY <2>2, NoLookComes
  <2> QED BY <1>1, <1>4, <2>1, <2>2 DEF TypeOK
<1>5. CASE lastLook # None /\ held # Unread
  <2>1. todo' = held /\ phase' = "looking" /\ ran' = ran /\ InLook'
    BY <1>1, <1>5 DEF InLook
  <2>2. \A c \in DOMAIN held : MissedOf(held[c]) = {}
    BY <1>1, <1>5 DEF RanInv, PassedIsTaken, SeenTo, InLook, Failures
  <2>3. TypeOK' /\ clock \in Int /\ coveredFrom' \in Int
    BY LookKeeps, ClockTypes DEF TypeOK
  <2>4. ASSUME NEW c \in DOMAIN held, NEW t \in MissedOf(held[c])' PROVE t > coveredFrom'
    <3>1. t \in ran /\ t \in Int /\ Missed(held[c], t, clock) /\ held[c].interval > 0 /\ held[c].lastDue # Never
      BY <1>1, <2>1, <2>4, ClockTypes DEF MissedOf
    <3>2. t > lastLook.model
      BY <1>5, <2>2, <3>1, ClockTypes DEF MissedOf, Missed
    <3> QED BY <1>5, <3>1, <3>2, WindowReachesBack
  <2>5. ASSUME NEW c \in DOMAIN held, NEW t \in MissedOf(held[c])' PROVE DueAt(held[c], clock, coveredFrom') # {}
    <3>1. t \in Int /\ Missed(held[c], t, clock) /\ held[c].interval > 0 /\ held[c].lastDue # Never
      BY <1>1, <2>1, <2>5, ClockTypes DEF MissedOf
    <3>2. held[c] \in Cadence
      BY <1>5 DEF TypeOK, IsList
    <3> QED BY <2>3, <3>1, <3>2, MissedIsDue
  <2>6. PassedIsTaken'
    BY <1>1, <2>1, <2>5 DEF PassedIsTaken, SeenTo
  <2>7. MissedIsCovered'
    BY <1>1, <2>1, <2>4 DEF MissedIsCovered
  <2>8. UnreadIsCovered' /\ ListIsHeld'
    BY <1>1, <1>5, <2>1 DEF UnreadIsCovered, ListIsHeld
  <2> QED BY <2>6, <2>7, <2>8 DEF RanInv
<1> QED BY <1>3, <1>4, <1>5

-----------------------------------------------------------------------------
LEMMA ReadRan ==
    ASSUME TypeOK, LookInv, RanInv, ReadHeld
    PROVE  RanInv'
<1>1. /\ phase = "waiting" /\ held # Unread /\ todo' = held /\ phase' = "looking"
      /\ UNCHANGED <<ran, held, lastLook, coveredFrom>>
  BY DEF ReadHeld, clocks, gateway
<1>2. lastLook # None /\ lastLook.model \in Int /\ coveredFrom \in Int
  BY <1>1, ClockTypes DEF LookInv, Noted, TypeOK
<1>3. ASSUME NEW c \in DOMAIN held, NEW t \in MissedOf(held[c])
      PROVE  t > coveredFrom /\ DueAt(held[c], lastLook.model, coveredFrom) # {}
  <2>1. t \in ran /\ t \in Int /\ Missed(held[c], t, lastLook.model) /\ held[c].interval > 0 /\ held[c].lastDue # Never
    BY <1>3, ClockTypes DEF MissedOf
  <2>2. held[c] \in Cadence
    BY <1>1 DEF TypeOK, IsList
  <2>3. ~(t > lastLook.model)
    BY <1>2, <2>1 DEF Missed
  <2>4. t > coveredFrom
    BY <1>1, <1>2, <2>1, <2>3 DEF RanInv, UnreadIsCovered, Ahead
  <2> QED BY <1>2, <2>1, <2>2, <2>4, MissedIsDue
<1>4. \A s : MissedOf(s)' = MissedOf(s)
  BY <1>1 DEF MissedOf
<1>5. PassedIsTaken'
  BY <1>1, <1>3, <1>4 DEF PassedIsTaken, SeenTo, InLook
<1>6. MissedIsCovered'
  BY <1>1, <1>3, <1>4 DEF MissedIsCovered
<1>7. UnreadIsCovered' /\ ListIsHeld'
  BY <1>1 DEF UnreadIsCovered, ListIsHeld
<1> QED BY <1>5, <1>6, <1>7 DEF RanInv

\* A look goes on with a part of its list.
LEMMA ListRan ==
    ASSUME RanInv, InLook, InLook', UNCHANGED <<ran, held, lastLook, coveredFrom>>,
           \A c \in DOMAIN todo' : c \in DOMAIN todo /\ todo'[c] = todo[c],
           \A c : SeenTo(c) => SeenTo(c)'
    PROVE  RanInv'
<1>1. \A s : MissedOf(s)' = MissedOf(s)
  BY DEF MissedOf
<1>2. PassedIsTaken'
  BY <1>1 DEF RanInv, PassedIsTaken
<1>3. MissedIsCovered'
  BY <1>1 DEF RanInv, MissedIsCovered
<1>4. UnreadIsCovered'
  BY DEF UnreadIsCovered, InLook
<1>5. ListIsHeld'
  BY DEF RanInv, ListIsHeld, Ahead
<1> QED BY <1>2, <1>3, <1>4, <1>5 DEF RanInv

LEMMA HandleRan ==
    ASSUME RanInv, NEW c \in Cadences, Handle(c)
    PROVE  RanInv'
<1>1. /\ phase = "looking" /\ phase' \in {"looking", "marking"} /\ c \in DOMAIN todo
      /\ UNCHANGED <<ran, held, lastLook, coveredFrom>>
      /\ \/ DueAt(todo[c], lastLook.model, coveredFrom) = {} /\ todo' = Without(c)
         \/ todo' = todo
  BY DEF Handle, clocks, gateway
<1>2. \A d \in DOMAIN todo' : d \in DOMAIN todo /\ todo'[d] = todo[d]
  BY <1>1 DEF Without
<1>3. ASSUME NEW d, SeenTo(d) PROVE SeenTo(d)'
  <2>1. d \in DOMAIN todo /\ DueAt(todo[d], lastLook.model, coveredFrom) # {}
    BY <1>1, <1>3 DEF SeenTo, Failures
  <2>2. d \in DOMAIN todo' /\ todo'[d] = todo[d]
    BY <1>1, <2>1 DEF Without
  <2> QED BY <1>1, <2>1, <2>2 DEF SeenTo, InLook
<1> QED BY <1>1, <1>2, <1>3, ListRan DEF InLook

LEMMA MarkRan ==
    ASSUME TypeOK, LookInv, RanInv, MarkDue
    PROVE  RanInv'
<1>1. /\ phase = "marked" /\ phase' = "resolving" /\ held' = MarkedHeld(held, at, LastOf(due))
      /\ UNCHANGED <<ran, lastLook, coveredFrom, todo, at>>
      /\ InLook /\ InLook' /\ held # Unread
  BY DEF MarkDue, MarkDueWith, clocks, keeper, RanInv, ListIsHeld, InLook
<1>2. /\ DOMAIN held' = DOMAIN held
      /\ \A c \in DOMAIN held : /\ held'[c].interval = held[c].interval
                                /\ c # at => held'[c] = held[c]
                                /\ c = at => held'[c].lastDue = LastOf(due)
  BY <1>1 DEF MarkedHeld, TypeOK, IsList, Cadence
<1>3. IsList(held)
  BY <1>1 DEF TypeOK
<1>4. held' # Unread
  BY <1>1, <1>2, <1>3, LookAtHand, CadenceParts, ListIsNotUnread DEF MarkedHeld, IsList
<1>5. \A s : MissedOf(s)' = MissedOf(s)
  BY <1>1 DEF MissedOf
<1>6. ASSUME at \in DOMAIN held PROVE MissedOf(held'[at]) = {}
  <2> SUFFICES ASSUME NEW t \in ran, Missed(held'[at], t, lastLook.model) PROVE FALSE
    BY DEF MissedOf
  <2>1. /\ t \in Int /\ todo[at] \in Cadence /\ lastLook # None /\ lastLook.model \in Int /\ coveredFrom \in Int
        /\ at \in DOMAIN todo /\ due = DueAt(todo[at], lastLook.model, coveredFrom) /\ due # {}
    BY <1>1, LookAtHand, ClockTypes DEF LookInv, Noted, AtHand, TypeOK
  <2>2. ~Ahead(t)
    BY <2>1 DEF Ahead, Missed
  <2>3. held[at].interval = todo[at].interval
    BY <1>1, <1>6, <2>1, <2>2 DEF RanInv, ListIsHeld
  <2>4. held'[at].interval = todo[at].interval /\ held'[at].lastDue = LastOf(due)
    BY <1>2, <1>6, <2>3
  <2> QED BY <2>1, <2>4, PastTheLast
<1>7. \A c : c # at /\ SeenTo(c) => SeenTo(c)'
  BY <1>1 DEF SeenTo, InLook, Failures
<1>8. PassedIsTaken'
  BY <1>1, <1>2, <1>5, <1>6, <1>7 DEF RanInv, PassedIsTaken
<1>9. MissedIsCovered'
  BY <1>1, <1>5 DEF RanInv, MissedIsCovered
<1>10. UnreadIsCovered'
  BY <1>1 DEF UnreadIsCovered
<1>11. ListIsHeld'
  BY <1>1, <1>2, <1>4 DEF RanInv, ListIsHeld, Ahead
<1> QED BY <1>8, <1>9, <1>10, <1>11 DEF RanInv

LEMMA LookStepRan ==
    ASSUME TypeOK, LookInv, RanInv, LookStep
    PROVE  RanInv'
<1>1. CASE ReadHeld
  BY <1>1, ReadRan
<1>2. ASSUME NEW c \in Cadences, Handle(c) PROVE RanInv'
  BY <1>2, HandleRan
<1>3. CASE LandMark
  <2>1. /\ phase = "marking" /\ phase' = "marked" /\ UNCHANGED <<ran, held, lastLook, coveredFrom, todo, at>>
    BY <1>3 DEF LandMark, clocks, gateway, keeper
  <2>2. InLook /\ InLook' /\ \A c : SeenTo(c) => SeenTo(c)'
    BY <2>1 DEF InLook, SeenTo, Failures
  <2> QED BY <2>1, <2>2, ListRan
<1>4. CASE MarkDue
  BY <1>4, MarkRan
<1>5. CASE MarkFails
  <2>1. InLook /\ ran' = {} /\ held' = held
    BY <1>5 DEF MarkFails, InLook, gateway
  <2> QED BY <2>1, NothingRan DEF RanInv, ListIsHeld
<1>6. CASE Start \/ Refuse
  <2>1. /\ phase = "resolving" /\ phase' = "looking" /\ todo' = Without(at)
        /\ UNCHANGED <<ran, held, lastLook, coveredFrom>>
    BY <1>6 DEF Start, Refuse, NextCadence, clocks, gateway
  <2>2. InLook /\ InLook' /\ \A c : SeenTo(c) => SeenTo(c)'
    BY <2>1 DEF InLook, SeenTo, Without, Failures
  <2> QED BY <2>1, <2>2, ListRan DEF Without
<1>7. CASE LookBreaks
  BY <1>7, NoLookComes DEF LookBreaks, Failures
<1>8. CASE LookEnds
  <2>1. /\ phase = "looking" /\ todo = Nothing /\ phase' = "idle" /\ held' = held
        /\ UNCHANGED <<ran, lastLook>>
    BY <1>8 DEF LookEnds, EndLook, gateway
  <2>2. \A c \in DOMAIN held : MissedOf(held[c])' = {} \/ lastLook = None \/ held = Unread
    BY <2>1 DEF RanInv, PassedIsTaken, SeenTo, Nothing, Failures, MissedOf
  <2>3. held # Unread
    BY <2>1 DEF RanInv, ListIsHeld, InLook
  <2> QED BY <2>1, <2>2, <2>3 DEF RanInv, PassedIsTaken, MissedIsCovered, UnreadIsCovered, ListIsHeld, InLook
<1>9. CASE LookFails
  <2>1. ran' = {} /\ phase' = "idle"
    BY <1>9 DEF LookFails, EndLook, TypeOK
  <2> QED BY <2>1, NothingRan DEF InLook
<1>10. CASE KeeperEnds
  BY <1>10, NoLookComes DEF KeeperEnds
<1> QED BY <1>1, <1>2, <1>3, <1>4, <1>5, <1>6, <1>7, <1>8, <1>9, <1>10 DEF LookStep

LEMMA NextRanInv ==
    TypeOK /\ LookInv /\ ClocksInv /\ RanInv /\ [Next]_vars => RanInv'
<1> SUFFICES ASSUME TypeOK, LookInv, ClocksInv, RanInv, [Next]_vars PROVE RanInv'
  OBVIOUS
<1>1. CASE ClockStep
  <2>1. CASE FollowOnce \/ ChangeSpeed \/ JumpAhead
    <3>1. UNCHANGED <<lastLook, held, phase, todo, at, coveredFrom>> /\ ran' \subseteq ran
      BY <2>1 DEF FollowOnce, ChangeSpeed, JumpAhead, gateway, keeper
    <3> QED BY <3>1, RanKept
  <2> QED BY <1>1, <2>1, TickRan DEF ClockStep
<1>2. CASE EditStep
  <2>1. UNCHANGED <<ran, lastLook, held, phase, todo, at, coveredFrom>>
    BY <1>2 DEF EditStep, EditInterval, EditLastDue, EnterKind, LeaveKind, clocks, gateway, keeper
  <2> QED BY <2>1, RanKept
<1>3. CASE Ask \/ Subscribe \/ NoteFailure \/ StreamEnds
  <2>1. UNCHANGED <<ran, lastLook, held, todo, at, coveredFrom>> /\ (phase' = phase \/ phase' \in Failures)
    BY <1>3 DEF Ask, Subscribe, NoteFailure, StreamEnds, clocks, keeper
  <2> QED BY <2>1, RanKept, NoLookComes
<1>4. CASE Replace \/ Apply
  BY <1>4, HeardRan
<1>5. CASE Look
  BY <1>5, LookRan
<1>6. CASE LookStep
  BY <1>6, LookStepRan
<1>7. CASE Crash
  <2>1. lastLook' = None /\ phase' = "idle"
    BY <1>7 DEF Crash
  <2> QED BY <2>1 DEF RanInv, PassedIsTaken, MissedIsCovered, UnreadIsCovered, ListIsHeld, InLook, Ahead
<1>8. CASE UNCHANGED vars
  BY <1>8, RanKept DEF vars, clocks, gateway, keeper
<1> QED BY <1>1, <1>2, <1>3, <1>4, <1>5, <1>6, <1>7, <1>8 DEF Next, FollowStep

LEMMA InitRanInv == Init => ClocksInv /\ RanInv
<1> SUFFICES ASSUME Init PROVE ClocksInv /\ RanInv
  OBVIOUS
<1>1. ran = {} /\ phase = "idle" /\ lastLook = None
  BY DEF Init
<1> QED BY <1>1, InitInWindow
        DEF RanInv, PassedIsTaken, MissedIsCovered, UnreadIsCovered, ListIsHeld, InLook

\* Where the clock is read when it is due and does not slow down, a look takes up every instant the
\* broker's clock ran through since the first look that the cadence missed, however the clock was read, speeded up
\* and moved ahead before, as long as no change of others was heard and no mark and no look failed since
\* (CadenceKeeper.LookAsync, whose window is twice what the clock covers since the last look and between readings).
THEOREM TakesUpWhatRan == ASSUME Timely PROVE Spec => []RanThroughIsDue
<1>1. TypeOK /\ LookInv /\ RanInv => RanThroughIsDue
  <2> SUFFICES ASSUME TypeOK, LookInv, RanInv, phase = "marking", todo[at].lastDue # Never,
                      NEW t \in ran, Missed(todo[at], t, lastLook.model)
               PROVE  t \in due
    BY DEF RanThroughIsDue
  <2>1. /\ todo[at] \in Cadence /\ todo[at].interval > 0 /\ at \in DOMAIN todo /\ t \in Int
        /\ due = DueAt(todo[at], lastLook.model, coveredFrom)
        /\ lastLook.model \in Int /\ coveredFrom \in Int
    BY LookAtHand, ClockTypes DEF LookInv, AtHand, TypeOK
  <2>2. t > coveredFrom
    BY <2>1 DEF RanInv, MissedIsCovered, MissedOf, InLook
  <2>3. todo[at].lastDue \in Int /\ todo[at].lastDue < t /\ t <= lastLook.model
    BY <2>1 DEF Cadence, Missed
  <2>4. t \in TakenUp(todo[at], lastLook.model, coveredFrom)
    BY <2>1, <2>2, <2>3 DEF TakenUp
  <2> QED BY <2>1, <2>3, <2>4, TakesUpWhatWasMissed
<1>2. TypeOK /\ LookInv /\ StartInv /\ ClocksInv /\ [Next]_vars => ClocksInv'
  BY NextInWindow DEF StartInv
<1> QED BY <1>1, <1>2, InitInv, NextKeeps, InitStartInv, NextStartInv, InitRanInv, NextRanInv, PTL DEF Spec

=============================================================================
