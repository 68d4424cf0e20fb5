-------------------------- MODULE LiveStream_proof --------------------------
(***************************************************************************)
(* Proofs about LiveStream for any pages and selectors, any set of         *)
(* subscriptions, and any number of readers, opens, changes and failures:  *)
(* that no subscription is abandoned at the broker, that the streams cover *)
(* what the page on screen asks for, and that a reconnect leaves no gap.   *)
(***************************************************************************)
EXTENDS LiveStream, SequenceTheorems, TLAPS

\* One open at a time is the current one, and it starts with nothing attached.
OneOpen == /\ \A o, p \in opening : o = p
           /\ opening # {} => openSubscriptionId = None

\* No two opens are answered with the same subscription, nor with the attached one.
OpensApart == /\ \A o, p \in opening \union stale : o.id = p.id => o = p
              /\ \A o \in stale : o.id # openSubscriptionId
              /\ opening \cap stale = {}

\* NoneAbandoned, one subscription at a time.
Granted(i) == \/ \E o \in opening \union stale : o.at = "mint" /\ o.id = i
              \/ i = openSubscriptionId /\ i # None

EachGranted == \A i : i \in subscriptions <=> Granted(i)

SubscriptionInv == OneOpen /\ OpensApart /\ EachGranted

\* A position starts somewhere, and the object stream is never ahead of it.
PositionHeld == /\ consumedWatermark = None <=> anchor = None
                /\ streams["object"] # "none" => /\ consumedWatermark # None
                                                 /\ from <= consumedWatermark
                                                 /\ cursor <= consumedWatermark

HandedOver == consumedWatermark # None => \A p \in Nat : anchor < p /\ p <= consumedWatermark => p \in delivered

PositionInv == PositionHeld /\ HandedOver

\* The position does not move while an open is under way, and the snapshot of its answer is no older.
Ahead == /\ consumedWatermark # None => consumedWatermark <= head
         /\ streams["object"] # "none" => opening = {}
         /\ \A o \in opening : o.at # "token" =>
                /\ o.watermark <= head
                /\ consumedWatermark # None => consumedWatermark <= o.watermark

IInv == TypeOK /\ SubscriptionInv /\ PositionInv /\ Ahead /\ FollowsThePage

-----------------------------------------------------------------------------
(* What the steps share *)

LEMMA NoneIsNothing == /\ \A i \in Ids : i # None
                       /\ \A s \in Selectors : s # None
                       /\ \A p \in Nat : p # None
BY StreamAssumption

\* The page on screen and the shell ask for what a subscription may cover.
LEMMA AsksForASelector == TypeOK => effectiveSelector \in Selectors
<1> SUFFICES ASSUME TypeOK PROVE effectiveSelector \in Selectors
  OBVIOUS
<1>1. CASE declared = <<>>
  BY <1>1 DEF effectiveSelector, TypeOK
<1>2. CASE declared # <<>>
  <2>1. Len(declared) \in 1..Len(declared)
    <3>1. Len(declared) \in Nat \ {0}
      BY <1>2, EmptySeq DEF TypeOK
    <3> QED BY <3>1
  <2>2. declared[Len(declared)] \in Pages
    BY <2>1, ElementOfSeq DEF TypeOK
  <2> QED BY <1>2, <2>2, StreamAssumption DEF effectiveSelector
<1> QED BY <1>1, <1>2

\* An open is named by a subscription that the platform has not granted and no other open waits for.
LEMMA FreshId ==
    ASSUME TypeOK, InUse # Ids
    PROVE  LET i == CHOOSE i \in Ids : i \notin InUse IN i \in Ids /\ i \notin InUse
<1>1. InUse \subseteq Ids
  BY DEF InUse, TypeOK, Open
<1>2. \E i \in Ids : i \notin InUse
  BY <1>1
<1> QED BY <1>2

\* What openStreams does, with the subscription of its open named.
LEMMA Opens ==
    ASSUME TypeOK, openStreams
    PROVE  \E i \in Ids :
             /\ i \notin InUse
             /\ opening' = {[at |-> "token", id |-> i, watermark |-> 0]}
             /\ stale' = stale \union opening
             /\ streams' = [s \in Streams |-> "none"] /\ watched' = {}
             /\ openSubscriptionId' = None
             /\ subscriptions' = subscriptions \ {openSubscriptionId}
             /\ openedFor' = effectiveSelector
             /\ connectionState' \in {connectionState, "connecting"}
             /\ UNCHANGED <<from, cursor>>
BY FreshId DEF openStreams, Overtake, closeStreams

-----------------------------------------------------------------------------
(* Subscriptions *)

\* Opening hands back what was attached and overtakes what was opening.
LEMMA OpeningKeepsSubscriptions ==
    ASSUME TypeOK, SubscriptionInv, openStreams
    PROVE  SubscriptionInv'
<1>1. PICK i \in Ids : /\ i \notin InUse
                       /\ opening' = {[at |-> "token", id |-> i, watermark |-> 0]}
                       /\ stale' = stale \union opening
                       /\ openSubscriptionId' = None
                       /\ subscriptions' = subscriptions \ {openSubscriptionId}
  BY Opens
<1> DEFINE new == [at |-> "token", id |-> i, watermark |-> 0]
<1>2. new.at = "token" /\ new.id = i
  OBVIOUS
<1> HIDE DEF new
<1>3. \A o \in opening \union stale : o.id \in Ids /\ o.id # i /\ o.id # None
  BY <1>1, NoneIsNothing DEF InUse, TypeOK, Open
<1>4. OneOpen'
  BY <1>1 DEF OneOpen
<1>5. opening' = {new} /\ stale' = stale \union opening
  BY <1>1 DEF new
<1>6. OpensApart'
  BY <1>1, <1>2, <1>3, <1>5 DEF OpensApart, SubscriptionInv
<1>7. \A o \in opening \union stale : o.id # openSubscriptionId
  BY <1>3 DEF SubscriptionInv, OpensApart, OneOpen
<1>8. EachGranted'
  <2> SUFFICES ASSUME NEW x PROVE x \in subscriptions' <=> Granted(x)'
    BY DEF EachGranted
  <2>1. Granted(x)' <=> \E o \in opening \union stale : o.at = "mint" /\ o.id = x
    BY <1>1, <1>2, <1>5 DEF Granted
  <2>2. x \in subscriptions <=> Granted(x)
    BY DEF SubscriptionInv, EachGranted
  <2>3. x \in subscriptions' <=> x \in subscriptions /\ x # openSubscriptionId
    BY <1>1
  <2> QED BY <2>1, <2>2, <2>3, <1>7 DEF Granted
<1> QED BY <1>4, <1>6, <1>8 DEF SubscriptionInv

\* So does the last reader's leaving, which opens nothing.
LEMMA LeavingKeepsSubscriptions ==
    ASSUME TypeOK, SubscriptionInv, Overtake, opening' = {}, closeStreams
    PROVE  SubscriptionInv'
<1>1. /\ stale' = stale \union opening /\ openSubscriptionId' = None
      /\ subscriptions' = subscriptions \ {openSubscriptionId}
  BY DEF Overtake, closeStreams
<1>2. \A o \in opening \union stale : o.id # None /\ o.id # openSubscriptionId
  BY NoneIsNothing DEF TypeOK, Open, SubscriptionInv, OneOpen, OpensApart
<1>3. OneOpen' /\ OpensApart'
  BY <1>1, <1>2 DEF OneOpen, OpensApart, SubscriptionInv
<1>4. EachGranted'
  <2> SUFFICES ASSUME NEW x PROVE x \in subscriptions' <=> Granted(x)'
    BY DEF EachGranted
  <2>1. Granted(x)' <=> \E o \in opening \union stale : o.at = "mint" /\ o.id = x
    BY <1>1 DEF Granted
  <2>2. x \in subscriptions <=> Granted(x)
    BY DEF SubscriptionInv, EachGranted
  <2> QED BY <1>1, <1>2, <2>1, <2>2 DEF Granted
<1> QED BY <1>3, <1>4 DEF SubscriptionInv

LEMMA SubscriptionsElsewhere ==
    ASSUME SubscriptionInv, UNCHANGED <<opening, stale, openSubscriptionId, subscriptions>>
    PROVE  SubscriptionInv'
<1>1. \A x : Granted(x)' <=> Granted(x)
  BY DEF Granted
<1> QED BY <1>1 DEF SubscriptionInv, OneOpen, OpensApart, EachGranted

\* An open that ends, overtaken or not, hands back what it was granted.
LEMMA EndingKeepsSubscriptions ==
    ASSUME TypeOK, SubscriptionInv, NEW o \in opening \union stale,
           opening' \union stale' = (opening \union stale) \ {o},
           opening' \subseteq opening, stale' \subseteq stale,
           subscriptions' = subscriptions \ {o.id}, openSubscriptionId' = openSubscriptionId
    PROVE  SubscriptionInv'
<1>1. OneOpen' /\ OpensApart'
  BY DEF OneOpen, OpensApart, SubscriptionInv
<1>2. EachGranted'
  <2> SUFFICES ASSUME NEW x PROVE x \in subscriptions' <=> Granted(x)'
    BY DEF EachGranted
  <2>1. x \in subscriptions <=> Granted(x)
    BY DEF SubscriptionInv, EachGranted
  <2>2. Granted(x)' <=> \/ \E p \in (opening \union stale) \ {o} : p.at = "mint" /\ p.id = x
                        \/ x = openSubscriptionId /\ x # None
    BY DEF Granted
  <2>3. \A p \in (opening \union stale) \ {o} : p.id # o.id
    BY DEF SubscriptionInv, OpensApart
  <2>4. o.id # openSubscriptionId
    BY NoneIsNothing DEF TypeOK, Open, SubscriptionInv, OneOpen, OpensApart
  <2> QED BY <2>1, <2>2, <2>3, <2>4 DEF Granted
<1> QED BY <1>1, <1>2 DEF SubscriptionInv

\* An open that goes on is granted its subscription, and attached where it is minted.
LEMMA GoingOnKeepsSubscriptions ==
    ASSUME TypeOK, SubscriptionInv, OpenGoesOn
    PROVE  SubscriptionInv'
<1>1. PICK o \in opening : TokenGiven(o) \/ Subscribed(o) \/ Attach(o)
  BY DEF OpenGoesOn
<1>2. /\ o.id \in Ids /\ o.id # None /\ opening = {o} /\ openSubscriptionId = None
      /\ o \in Open
  BY <1>1, NoneIsNothing DEF TypeOK, Open, SubscriptionInv, OneOpen
<1>3. \A p \in stale : p.id # o.id \/ p = o
  BY <1>2 DEF SubscriptionInv, OpensApart
<1>4. ASSUME NEW to \in {"answer", "mint"}, NEW w, Advance(o, to, w), o \notin stale, UNCHANGED <<stale, openSubscriptionId>>,
             subscriptions' = IF to = "mint" THEN subscriptions \union {o.id} ELSE subscriptions,
             o.at # "mint"
      PROVE  SubscriptionInv'
  <2> DEFINE new == [o EXCEPT !.at = to, !.watermark = w]
  <2>1. new.at = to /\ new.id = o.id
    BY <1>2 DEF Open
  <2> HIDE DEF new
  <2>2. opening' = {new}
    BY <1>2, <1>4 DEF Advance, new
  <2>3. OneOpen' /\ OpensApart'
    BY <1>2, <1>3, <1>4, <2>1, <2>2 DEF OneOpen, OpensApart, SubscriptionInv
  <2>4. EachGranted'
    <3> SUFFICES ASSUME NEW x PROVE x \in subscriptions' <=> Granted(x)'
      BY DEF EachGranted
    <3>1. Granted(x)' <=> \/ to = "mint" /\ x = o.id
                          \/ \E p \in stale : p.at = "mint" /\ p.id = x
      BY <1>2, <1>4, <2>1, <2>2 DEF Granted
    <3>2. Granted(x) <=> \E p \in stale : p.at = "mint" /\ p.id = x
      BY <1>2, <1>4 DEF Granted
    <3>3. x \in subscriptions <=> Granted(x)
      BY DEF SubscriptionInv, EachGranted
    <3> QED BY <1>4, <3>1, <3>2, <3>3
  <2> QED BY <2>3, <2>4 DEF SubscriptionInv
<1>5. CASE TokenGiven(o) /\ o \notin stale
  BY <1>4, <1>5 DEF TokenGiven, attached
<1>6. CASE Subscribed(o) /\ o \notin stale
  BY <1>4, <1>6 DEF Subscribed, attached
<1>7. CASE Attach(o) /\ o \notin stale
  <2>1. /\ o.at = "mint" /\ opening' = {} /\ openSubscriptionId' = o.id
        /\ stale' = stale /\ subscriptions' = subscriptions
    BY <1>2, <1>7 DEF Attach, AttachAt
  <2>2. OneOpen' /\ OpensApart'
    BY <1>2, <1>3, <1>7, <2>1 DEF OneOpen, OpensApart, SubscriptionInv
  <2>3. EachGranted'
    <3> SUFFICES ASSUME NEW x PROVE x \in subscriptions' <=> Granted(x)'
      BY DEF EachGranted
    <3>1. x \in subscriptions <=> Granted(x)
      BY DEF SubscriptionInv, EachGranted
    <3> QED BY <1>2, <2>1, <3>1 DEF Granted
  <2> QED BY <2>2, <2>3 DEF SubscriptionInv
<1>8. o \notin stale
  BY DEF SubscriptionInv, OpensApart
<1> QED BY <1>1, <1>5, <1>6, <1>7, <1>8

\* Streams break, are retried and fall silent without a subscription.
LEMMA NextKeepsSubscriptions ==
    ASSUME TypeOK, SubscriptionInv, [Next]_vars
    PROVE  SubscriptionInv'
<1> DEFINE same == UNCHANGED <<opening, stale, openSubscriptionId, subscriptions>>
<1>1. CASE same
  BY <1>1, SubscriptionsElsewhere
<1>2. CASE openStreams
  BY <1>2, OpeningKeepsSubscriptions
<1>3. CASE release
  <2>1. CASE referenceCount > 1
    BY <1>1, <1>3, <2>1 DEF release, attached
  <2>2. CASE ~(referenceCount > 1)
    BY <1>3, <2>2, LeavingKeepsSubscriptions DEF release
  <2> QED BY <2>1, <2>2
<1>4. CASE PageActs
  <2>1. resubscribe => openStreams
    BY DEF resubscribe
  <2>2. acquire \/ (\E p \in Pages : Declare(p) \/ TakeBack(p))
        \/ (\E selector \in Selectors \ {defaultSelector} : DeclareDefault(selector)) => same
    BY DEF acquire, Declare, TakeBack, TakeBackTelling, DeclareDefault, attached
  <2> QED BY <1>1, <1>2, <1>3, <1>4, <2>1, <2>2 DEF PageActs
<1>5. CASE TurnEnds \/ Settles \/ ReconnectFires
  <2>1. same \/ openStreams
    BY <1>5 DEF TurnEnds, Settles, ReconnectFires, follow, attached
  <2> QED BY <2>1, <1>1, <1>2
<1>6. CASE StaleGoesOn
  <2>1. PICK o \in stale : StaleEnds(o)
    BY <1>6 DEF StaleGoesOn
  <2>2. o \notin opening
    BY DEF SubscriptionInv, OpensApart
  <2> QED BY <2>1, <2>2, EndingKeepsSubscriptions DEF StaleEnds, attached
<1>7. CASE Fails
  <2>1. ASSUME NEW o \in opening, OpenFails(o) PROVE SubscriptionInv'
    <3>1. o \notin stale
      BY DEF SubscriptionInv, OpensApart
    <3> QED BY <2>1, <3>1, EndingKeepsSubscriptions DEF OpenFails, attached
  <2>2. ASSUME NEW o \in stale, StaleThrows(o) PROVE SubscriptionInv'
    <3>1. o \notin opening
      BY DEF SubscriptionInv, OpensApart
    <3> QED BY <2>2, <3>1, EndingKeepsSubscriptions DEF StaleThrows, attached
  <2>3. ASSUME NEW s \in Streams, StreamErrors(s) \/ StreamDies(s) PROVE same
    BY <2>3 DEF StreamErrors, StreamDies, StreamUnchanged
  <2> QED BY <1>1, <1>7, <2>1, <2>2, <2>3 DEF Fails
<1>8. CASE Commit \/ Event \/ \E s \in Streams : StreamOpens(s) \/ Silent(s)
  <2>1. same
    BY <1>8 DEF Commit, Event, StreamOpens, Silent, StreamUnchanged, attached
  <2> QED BY <1>1, <2>1
<1>9. CASE UNCHANGED vars
  <2>1. same
    BY <1>9 DEF vars, attached
  <2> QED BY <1>1, <2>1
<1> QED BY <1>4, <1>5, <1>6, <1>7, <1>8, <1>9, GoingOnKeepsSubscriptions DEF Next

-----------------------------------------------------------------------------
(* Positions *)

\* A position that is forgotten is forgotten with its streams.
LEMMA PositionForgotten ==
    ASSUME ForgetPosition, closeStreams
    PROVE  PositionInv'
BY DEF ForgetPosition, closeStreams, PositionInv, PositionHeld, HandedOver, Streams

\* Closing the streams touches no position.
LEMMA ClosingKeepsPosition ==
    ASSUME PositionInv, closeStreams, UNCHANGED position
    PROVE  PositionInv'
BY DEF closeStreams, PositionInv, PositionHeld, HandedOver, Streams, position

\* A step that attaches no stream and leaves the position alone.
LEMMA PositionElsewhere ==
    ASSUME PositionInv, UNCHANGED position, UNCHANGED from,
           cursor' \in {from, cursor}, streams'["object"] # "none" => streams["object"] # "none"
    PROVE  PositionInv'
BY DEF PositionInv, PositionHeld, HandedOver, position

\* A position kept over an open of other coverage is no further than the snapshot of its answer: nothing is claimed
\* of what lies before that.
LEMMA AttachingKeepsPosition ==
    ASSUME TypeOK, PositionInv, Ahead, NEW o \in opening, Attach(o)
    PROVE  PositionInv'
<1> DEFINE at == IF consumedWatermark = None THEN o.watermark ELSE consumedWatermark
<1>1. /\ o.watermark \in Nat /\ o.at = "mint"
      /\ at \in Nat /\ at # None
  BY NoneIsNothing DEF Attach, AttachAt, TypeOK, Open
<1>2. /\ consumedWatermark' = at /\ from' = at /\ cursor' = at
      /\ IF consumedWatermark = None \/ coverage # openedFor
         THEN anchor' = o.watermark /\ delivered' = {}
         ELSE anchor' = anchor /\ delivered' = delivered
  BY DEF Attach, AttachAt
<1>3. at <= o.watermark
  BY <1>1 DEF Ahead, at
<1> HIDE DEF at
<1>4. CASE consumedWatermark = None \/ coverage # openedFor
  BY <1>1, <1>2, <1>3, <1>4, NoneIsNothing DEF PositionInv, PositionHeld, HandedOver
<1>5. CASE ~(consumedWatermark = None \/ coverage # openedFor)
  BY <1>1, <1>2, <1>5 DEF PositionInv, PositionHeld, HandedOver, at
<1> QED BY <1>4, <1>5

\* The next change is past the position by one at most: it leaves nothing out.
LEMMA EventKeepsPosition ==
    ASSUME TypeOK, PositionInv, Event
    PROVE  PositionInv'
<1>1. /\ consumedWatermark \in Nat /\ anchor \in Nat /\ from \in Nat /\ cursor \in Nat
      /\ from <= consumedWatermark /\ cursor <= consumedWatermark
      /\ anchor # None /\ consumedWatermark # None
  BY DEF Event, TypeOK, PositionInv, PositionHeld
<1>2. /\ cursor' = cursor + 1 /\ from' = from /\ anchor' = anchor /\ streams' = streams
      /\ delivered' = delivered \union {cursor + 1}
      /\ consumedWatermark' = IF cursor + 1 > consumedWatermark THEN cursor + 1 ELSE consumedWatermark
  BY DEF Event
<1>3. consumedWatermark' \in Nat /\ consumedWatermark' # None
  BY <1>1, <1>2, NoneIsNothing
<1>4. PositionHeld'
  BY <1>1, <1>2, <1>3 DEF PositionHeld
<1>5. HandedOver'
  BY <1>1, <1>2 DEF PositionInv, HandedOver
<1> QED BY <1>4, <1>5 DEF PositionInv

LEMMA NextKeepsPosition ==
    ASSUME TypeOK, PositionInv, Ahead, [Next]_vars
    PROVE  PositionInv'
<1> DEFINE same == UNCHANGED position /\ UNCHANGED <<from, cursor, streams>>
<1>1. CASE same
  BY <1>1, PositionElsewhere
<1>2. CASE (ForgetPosition \/ UNCHANGED position) /\ closeStreams
  BY <1>2, PositionForgotten, ClosingKeepsPosition
<1>3. CASE PageActs
  <2>1. CASE release
    BY <1>1, <1>2, <2>1 DEF release, attached
  <2>2. resubscribe => ForgetPosition /\ closeStreams
    BY DEF resubscribe, openStreams
  <2>3. acquire \/ (\E p \in Pages : Declare(p) \/ TakeBack(p))
        \/ (\E selector \in Selectors \ {defaultSelector} : DeclareDefault(selector)) => same
    BY DEF acquire, Declare, TakeBack, TakeBackTelling, DeclareDefault, attached
  <2> QED BY <1>1, <1>2, <1>3, <2>1, <2>2, <2>3 DEF PageActs
<1>4. CASE TurnEnds \/ Settles \/ ReconnectFires
  <2>1. same \/ ((ForgetPosition \/ UNCHANGED position) /\ closeStreams)
    BY <1>4 DEF TurnEnds, Settles, ReconnectFires, follow, openStreams, attached
  <2> QED BY <2>1, <1>1, <1>2
<1>5. CASE OpenGoesOn
  <2>1. ASSUME NEW o \in opening, TokenGiven(o) \/ Subscribed(o) PROVE same
    BY <2>1 DEF TokenGiven, Subscribed, attached
  <2> QED BY <1>1, <1>5, <2>1, AttachingKeepsPosition DEF OpenGoesOn
<1>6. CASE StaleGoesOn
  <2>1. same
    BY <1>6 DEF StaleGoesOn, StaleEnds, attached
  <2> QED BY <1>1, <2>1
<1>7. CASE Fails
  <2>1. ASSUME (\E o \in opening : OpenFails(o)) \/ (\E o \in stale : StaleThrows(o)) PROVE same
    BY <2>1 DEF OpenFails, StaleThrows, attached
  <2>2. ASSUME NEW s \in Streams, StreamErrors(s) \/ StreamDies(s) PROVE PositionInv'
    <3>1. /\ UNCHANGED position /\ UNCHANGED from /\ cursor' \in {from, cursor}
          /\ streams[s] # "none"
          /\ \E after \in {"connecting", "dead"} : streams' = [streams EXCEPT ![s] = after]
      BY <2>2 DEF StreamErrors, StreamDies, StreamUnchanged
    <3>2. streams'["object"] # "none" => streams["object"] # "none"
      BY <3>1 DEF TypeOK, Streams
    <3> QED BY <3>1, <3>2, PositionElsewhere
  <2> QED BY <1>1, <1>7, <2>1, <2>2 DEF Fails
<1>8. ASSUME NEW s \in Streams, StreamOpens(s) \/ Silent(s) PROVE PositionInv'
  <2>1. /\ UNCHANGED position /\ UNCHANGED <<from, cursor>>
        /\ streams' = streams \/ (streams[s] = "connecting" /\ streams' = [streams EXCEPT ![s] = "open"])
    BY <1>8 DEF StreamOpens, Silent, StreamUnchanged
  <2>2. streams'["object"] # "none" => streams["object"] # "none"
    BY <2>1 DEF TypeOK, Streams
  <2> QED BY <2>1, <2>2, PositionElsewhere
<1>9. CASE Commit \/ UNCHANGED vars
  <2>1. same
    BY <1>9 DEF Commit, vars, attached
  <2> QED BY <1>1, <2>1
<1> QED BY <1>3, <1>4, <1>5, <1>6, <1>7, <1>8, <1>9, EventKeepsPosition DEF Next

\* An open asks, is answered and attaches while the position stands.
LEMMA GoingOnKeepsAhead ==
    ASSUME TypeOK, SubscriptionInv, Ahead, OpenGoesOn
    PROVE  Ahead'
<1>1. PICK o \in opening : TokenGiven(o) \/ Subscribed(o) \/ Attach(o)
  BY DEF OpenGoesOn
<1>2. /\ opening = {o} /\ o \in Open /\ o.watermark \in Nat
      /\ head \in Nat /\ consumedWatermark \in Nat \union {None}
  BY <1>1 DEF TypeOK, Open, SubscriptionInv, OneOpen
<1>3. ASSUME NEW to \in {"answer", "mint"}, NEW w \in Nat, Advance(o, to, w), w <= head,
             consumedWatermark # None => consumedWatermark <= w,
             UNCHANGED <<consumedWatermark, head, streams>>
      PROVE  Ahead'
  <2> DEFINE new == [o EXCEPT !.at = to, !.watermark = w]
  <2>1. new.watermark = w
    BY <1>2 DEF Open
  <2>2. opening' = {new}
    BY <1>2, <1>3 DEF Advance
  <2> HIDE DEF new
  <2>3. streams["object"] = "none"
    BY <1>2 DEF Ahead
  <2> QED BY <1>3, <2>1, <2>2, <2>3 DEF Ahead
<1>4. CASE TokenGiven(o)
  BY <1>2, <1>3, <1>4 DEF TokenGiven, Ahead, attached, position
<1>5. CASE Subscribed(o)
  <2>1. PICK w \in o.watermark..head : Advance(o, "mint", w)
    BY <1>5 DEF Subscribed
  <2>2. w \in Nat /\ o.watermark <= w /\ w <= head
    BY <1>2, <2>1
  <2>3. consumedWatermark # None => consumedWatermark <= w
    BY <1>2, <1>5, <2>2 DEF Ahead, Subscribed
  <2> QED BY <1>3, <1>5, <2>1, <2>2, <2>3 DEF Subscribed, attached, position
<1>6. CASE Attach(o)
  BY <1>2, <1>6 DEF Attach, AttachAt, Ahead
<1> QED BY <1>1, <1>4, <1>5, <1>6

LEMMA NextKeepsAhead ==
    ASSUME TypeOK, SubscriptionInv, Ahead, [Next]_vars
    PROVE  Ahead'
<1> DEFINE calm == /\ UNCHANGED <<consumedWatermark, head>> /\ opening' \subseteq opening
                   /\ streams'["object"] # "none" => streams["object"] # "none"
<1>1. CASE calm
  BY <1>1 DEF Ahead
<1>2. CASE (ForgetPosition \/ UNCHANGED position) /\ openStreams /\ UNCHANGED head
  <2>1. /\ consumedWatermark' \in {None, consumedWatermark} /\ head' = head
        /\ streams'["object"] = "none"
    BY <1>2 DEF ForgetPosition, position, openStreams, closeStreams, Streams
  <2>2. \A o \in opening' : o.at = "token"
    BY <1>2, Opens
  <2> QED BY <2>1, <2>2 DEF Ahead
<1>3. CASE PageActs
  <2>1. CASE release
    <3>1. CASE referenceCount > 1
      BY <1>1, <2>1, <3>1 DEF release, attached, position
    <3>2. CASE ~(referenceCount > 1)
      <4>1. consumedWatermark' = None /\ opening' = {} /\ head' = head
        BY <2>1, <3>2 DEF release, ForgetPosition
      <4> QED BY <4>1 DEF Ahead
    <3> QED BY <3>1, <3>2
  <2>2. resubscribe => ForgetPosition /\ openStreams /\ UNCHANGED head
    BY DEF resubscribe
  <2>3. acquire \/ (\E p \in Pages : Declare(p) \/ TakeBack(p))
        \/ (\E selector \in Selectors \ {defaultSelector} : DeclareDefault(selector)) => calm
    BY DEF acquire, Declare, TakeBack, TakeBackTelling, DeclareDefault, attached, position
  <2> QED BY <1>1, <1>2, <1>3, <2>1, <2>2, <2>3 DEF PageActs
<1>4. CASE TurnEnds \/ Settles \/ ReconnectFires
  <2>1. calm \/ ((ForgetPosition \/ UNCHANGED position) /\ openStreams /\ UNCHANGED head)
    BY <1>4 DEF TurnEnds, Settles, ReconnectFires, follow, attached, position
  <2> QED BY <2>1, <1>1, <1>2
<1>5. CASE StaleGoesOn
  BY <1>1, <1>5 DEF StaleGoesOn, StaleEnds, attached, position
<1>6. CASE Fails
  <2>1. ASSUME (\E o \in opening : OpenFails(o)) \/ (\E o \in stale : StaleThrows(o)) PROVE calm
    BY <2>1 DEF OpenFails, StaleThrows, attached, position
  <2>2. ASSUME NEW s \in Streams, StreamErrors(s) \/ StreamDies(s) PROVE calm
    <3>1. /\ UNCHANGED <<consumedWatermark, head, opening>> /\ streams[s] # "none"
          /\ \E after \in {"connecting", "dead"} : streams' = [streams EXCEPT ![s] = after]
      BY <2>2 DEF StreamErrors, StreamDies, StreamUnchanged, position
    <3> QED BY <3>1 DEF TypeOK, Streams
  <2> QED BY <1>1, <1>6, <2>1, <2>2 DEF Fails
<1>7. ASSUME NEW s \in Streams, StreamOpens(s) \/ Silent(s) PROVE Ahead'
  <2>1. /\ UNCHANGED <<consumedWatermark, head, opening>>
        /\ streams' = streams \/ (streams[s] = "connecting" /\ streams' = [streams EXCEPT ![s] = "open"])
    BY <1>7 DEF StreamOpens, Silent, StreamUnchanged, position
  <2>2. streams'["object"] # "none" => streams["object"] # "none"
    BY <2>1 DEF TypeOK, Streams
  <2> QED BY <1>1, <2>1, <2>2
<1>8. CASE Commit
  <2>1. /\ UNCHANGED <<consumedWatermark, opening, streams>> /\ head' = head + 1 /\ head \in Nat
        /\ consumedWatermark \in Nat \union {None} /\ \A o \in opening : o.watermark \in Nat
    BY <1>8 DEF Commit, attached, position, TypeOK, Open
  <2> QED BY <2>1 DEF Ahead
<1>9. CASE Event
  <2>1. /\ consumedWatermark' \in {cursor + 1, consumedWatermark} /\ cursor + 1 <= head
        /\ UNCHANGED <<head, opening, streams>> /\ streams["object"] # "none"
    BY <1>9 DEF Event, TypeOK
  <2> QED BY <2>1 DEF Ahead
<1>10. CASE UNCHANGED vars
  BY <1>1, <1>10 DEF vars, attached, position
<1> QED BY <1>3, <1>4, <1>5, <1>6, <1>7, <1>8, <1>9, <1>10, GoingOnKeepsAhead DEF Next

-----------------------------------------------------------------------------
(* What is declared *)

\* Opening covers what is asked for.
LEMMA OpeningFollows ==
    ASSUME openStreams, UNCHANGED readers
    PROVE  FollowsThePage'
BY DEF openStreams, readers, FollowsThePage, effectiveSelector

\* A declaration that changes is followed at the end of the turn, or waited out.
LEMMA Followed ==
    ASSUME followDeclarations
    PROVE  following' \in BOOLEAN /\ (following' \/ settling)
BY Zenon DEF followDeclarations

LEMMA NextFollows ==
    ASSUME TypeOK, FollowsThePage, [Next]_vars
    PROVE  FollowsThePage'
<1>1. CASE PageActs
  <2>1. CASE resubscribe
    BY <2>1, OpeningFollows DEF resubscribe
  <2>2. CASE release
    <3>1. referenceCount \in Nat
      BY DEF TypeOK
    <3>2. CASE referenceCount > 1
      BY <2>2, <3>1, <3>2 DEF release, FollowsThePage, effectiveSelector
    <3>3. CASE ~(referenceCount > 1)
      BY <2>2, <3>1, <3>3 DEF release, FollowsThePage
    <3> QED BY <3>2, <3>3
  <2>3. CASE acquire
    <3>1. referenceCount \in Nat
      BY DEF TypeOK
    <3>2. CASE referenceCount = 0
      BY <2>3, <3>2, Followed DEF acquire, FollowsThePage
    <3>3. CASE referenceCount # 0
      BY <2>3, <3>1, <3>3 DEF acquire, FollowsThePage, effectiveSelector
    <3> QED BY <3>2, <3>3
  <2>4. CASE \E p \in Pages : Declare(p) \/ TakeBack(p)
    <3>1. followDeclarations /\ settling' = settling
      BY <2>4 DEF Declare, TakeBack, TakeBackTelling
    <3>2. following' \/ settling'
      BY <3>1, Followed
    <3> QED BY <3>2 DEF FollowsThePage
  <2>5. CASE \E selector \in Selectors \ {defaultSelector} : DeclareDefault(selector)
    BY <2>5, Followed DEF DeclareDefault, FollowsThePage
  <2> QED BY <1>1, <2>1, <2>2, <2>3, <2>4, <2>5 DEF PageActs
<1>2. CASE follow /\ UNCHANGED readers
  <2>1. CASE referenceCount = 0 \/ effectiveSelector = openedFor
    BY <1>2, <2>1 DEF follow, readers, FollowsThePage, effectiveSelector
  <2>2. CASE ~(referenceCount = 0 \/ effectiveSelector = openedFor)
    BY <1>2, <2>2, OpeningFollows DEF follow
  <2> QED BY <2>1, <2>2
<1>3. CASE TurnEnds \/ Settles
  BY <1>2, <1>3 DEF TurnEnds, Settles, FollowsThePage
<1>4. CASE ReconnectFires
  <2>1. CASE referenceCount > 0
    BY <1>4, <2>1, OpeningFollows DEF ReconnectFires
  <2>2. CASE ~(referenceCount > 0)
    BY <1>4, <2>2 DEF ReconnectFires, readers, FollowsThePage
  <2> QED BY <2>1, <2>2
<1>5. CASE UNCHANGED <<readers, following, settling, openedFor>>
  BY <1>5 DEF readers, FollowsThePage, effectiveSelector
<1>6. CASE OpenGoesOn \/ StaleGoesOn
  BY <1>5, <1>6 DEF OpenGoesOn, StaleGoesOn, TokenGiven, Subscribed, Attach, AttachAt, StaleEnds, timers
<1>7. CASE Fails
  BY <1>5, <1>7 DEF Fails, OpenFails, StaleThrows, StreamErrors, StreamDies, StreamUnchanged, timers
<1>8. CASE Commit \/ Event \/ \E s \in Streams : StreamOpens(s) \/ Silent(s)
  BY <1>5, <1>8 DEF Commit, Event, StreamOpens, Silent, StreamUnchanged, timers
<1>9. CASE UNCHANGED vars
  BY <1>5, <1>9 DEF vars, timers
<1> QED BY <1>1, <1>3, <1>4, <1>6, <1>7, <1>8, <1>9 DEF Next

-----------------------------------------------------------------------------
(* Types *)

LEMMA TakingBackType ==
    ASSUME TypeOK, NEW p, TakeBack(p)
    PROVE  declared' \in Seq(Pages) /\ following' \in BOOLEAN
<1>1. PICK i \in 1..Len(declared) :
          declared' = SubSeq(declared, 1, i - 1) \o SubSeq(declared, i + 1, Len(declared))
  BY DEF TakeBack, TakeBackTelling
<1>2. Len(declared) \in Nat /\ i \in Int /\ \A j \in 1..Len(declared) : declared[j] \in Pages
  BY LenProperties, ElementOfSeq DEF TypeOK
<1>3. SubSeq(declared, 1, i - 1) \in Seq(Pages)
  <2>1. \A j \in 1..(i - 1) : declared[j] \in Pages
    BY <1>1, <1>2
  <2> DEFINE last == i - 1
  <2>2. last \in Int /\ \A j \in 1..last : declared[j] \in Pages
    BY <1>2, <2>1
  <2> HIDE DEF last
  <2>3. SubSeq(declared, 1, last) \in Seq(Pages)
    BY <2>2, SubSeqProperties
  <2> QED BY <2>3 DEF last
<1>4. SubSeq(declared, i + 1, Len(declared)) \in Seq(Pages)
  <2> DEFINE first == i + 1
             last  == Len(declared)
  <2>1. first \in Int /\ last \in Int /\ \A j \in first..last : declared[j] \in Pages
    BY <1>1, <1>2
  <2> HIDE DEF first, last
  <2>2. SubSeq(declared, first, last) \in Seq(Pages)
    BY <2>1, SubSeqProperties
  <2> QED BY <2>2 DEF first, last
<1>5. declared' \in Seq(Pages)
  BY <1>1, <1>3, <1>4, ConcatProperties
<1> QED BY <1>5, Followed DEF TakeBack, TakeBackTelling

\* Opening keeps the types of all it changes.
LEMMA OpeningType ==
    ASSUME TypeOK, openStreams
    PROVE  /\ openedFor' \in Selectors \union {None} /\ connectionState' \in {"connecting", "live", "lost"}
           /\ opening' \subseteq Open /\ stale' \subseteq Open
           /\ streams' \in [Streams -> {"none", "connecting", "open", "dead"}] /\ watched' \subseteq Streams
           /\ openSubscriptionId' \in Ids \union {None} /\ subscriptions' \subseteq Ids
           /\ {from', cursor'} \subseteq Nat
<1>1. effectiveSelector \in Selectors
  BY AsksForASelector
<1>2. PICK i \in Ids : /\ opening' = {[at |-> "token", id |-> i, watermark |-> 0]}
                       /\ stale' = stale \union opening
                       /\ streams' = [s \in Streams |-> "none"] /\ watched' = {}
                       /\ openSubscriptionId' = None
                       /\ subscriptions' = subscriptions \ {openSubscriptionId}
                       /\ openedFor' = effectiveSelector
                       /\ connectionState' \in {connectionState, "connecting"}
                       /\ UNCHANGED <<from, cursor>>
  BY Opens
<1> QED BY <1>1, <1>2 DEF TypeOK, Open

LEMMA PageType == TypeOK /\ PageActs => TypeOK'
<1> SUFFICES ASSUME TypeOK, PageActs PROVE TypeOK'
  OBVIOUS
<1>1. CASE acquire
  <2>1. following' \in BOOLEAN
    BY <1>1, Followed DEF acquire, TypeOK
  <2> QED BY <1>1, <2>1 DEF acquire, TypeOK, attached, position
<1>2. CASE release
  <2>1. /\ referenceCount' \in Nat
        /\ UNCHANGED <<declared, defaultSelector, following, head, faults>>
    BY <1>2 DEF release, TypeOK
  <2>2. CASE referenceCount > 1
    BY <1>2, <2>1, <2>2 DEF release, TypeOK, attached, position
  <2>3. CASE ~(referenceCount > 1)
    <3>1. /\ opening' = {} /\ stale' = stale \union opening
          /\ reconnectTimer' = FALSE /\ settling' = FALSE
          /\ consumedWatermark' = None /\ coverage' = None /\ anchor' = None /\ delivered' = {}
          /\ openedFor' = None /\ connectionState' = "connecting"
      BY <1>2, <2>3 DEF release, Overtake, ForgetPosition
    <3>2. /\ streams' = [s \in Streams |-> "none"] /\ watched' = {}
          /\ openSubscriptionId' = None
          /\ subscriptions' = subscriptions \ {openSubscriptionId}
          /\ from' = from /\ cursor' = cursor
      BY <1>2, <2>3 DEF release, closeStreams
    <3> QED BY <2>1, <3>1, <3>2 DEF TypeOK
  <2> QED BY <2>2, <2>3
<1>3. CASE resubscribe
  BY <1>3, OpeningType DEF resubscribe, ForgetPosition, readers, TypeOK
<1>4. ASSUME NEW p \in Pages, Declare(p) PROVE TypeOK'
  <2>1. declared' \in Seq(Pages)
    BY <1>4, AppendProperties DEF Declare, TypeOK
  <2> QED BY <1>4, <2>1, Followed DEF Declare, TypeOK, attached, position
<1>5. ASSUME NEW p \in Pages, TakeBack(p) PROVE TypeOK'
  BY <1>5, TakingBackType DEF TakeBack, TakeBackTelling, TypeOK, attached, position
<1>6. ASSUME NEW selector \in Selectors, DeclareDefault(selector) PROVE TypeOK'
  BY <1>6, Followed DEF DeclareDefault, TypeOK, attached, position
<1> QED BY <1>1, <1>2, <1>3, <1>4, <1>5, <1>6 DEF PageActs

LEMMA TimerType == TypeOK /\ (TurnEnds \/ Settles \/ ReconnectFires) => TypeOK'
<1> SUFFICES ASSUME TypeOK, TurnEnds \/ Settles \/ ReconnectFires PROVE TypeOK'
  OBVIOUS
<1> DEFINE same == UNCHANGED <<attached, position, openedFor, connectionState, opening, stale, subscriptions>>
<1>1. /\ UNCHANGED <<readers, head, faults>> /\ {following', settling', reconnectTimer'} \subseteq BOOLEAN
      /\ \/ same
         \/ openStreams /\ (ForgetPosition \/ UNCHANGED position)
  BY DEF TurnEnds, Settles, ReconnectFires, follow, TypeOK
<1>2. CASE same
  BY <1>1, <1>2 DEF readers, attached, position, TypeOK
<1>3. CASE openStreams /\ (ForgetPosition \/ UNCHANGED position)
  BY <1>1, <1>3, OpeningType DEF readers, ForgetPosition, position, TypeOK
<1> QED BY <1>1, <1>2, <1>3

LEMMA OpenType == TypeOK /\ (OpenGoesOn \/ StaleGoesOn) => TypeOK'
<1> SUFFICES ASSUME TypeOK, OpenGoesOn \/ StaleGoesOn PROVE TypeOK'
  OBVIOUS
<1>1. ASSUME NEW o \in opening, TokenGiven(o) PROVE TypeOK'
  BY <1>1 DEF TokenGiven, Advance, Open, TypeOK, readers, timers, attached, position
<1>2. ASSUME NEW o \in opening, Subscribed(o) PROVE TypeOK'
  <2>1. o \in Open /\ o.watermark \in Nat /\ head \in Nat
    BY DEF TypeOK, Open
  <2>2. PICK w \in o.watermark..head : Advance(o, "mint", w)
    BY <1>2 DEF Subscribed
  <2>3. opening' \subseteq Open
    <3>1. w \in Nat
      BY <2>1, <2>2
    <3>2. [o EXCEPT !.at = "mint", !.watermark = w] \in Open
      BY <2>1, <3>1 DEF Open
    <3> QED BY <2>2, <3>2 DEF Advance, TypeOK
  <2> QED BY <1>2, <2>1, <2>3 DEF Subscribed, Open, TypeOK, readers, timers, attached, position
<1>3. ASSUME NEW o \in opening, Attach(o) PROVE TypeOK'
  <2>1. o.watermark \in Nat /\ o.id \in Ids
    BY DEF TypeOK, Open
  <2>2. PICK at \in Nat : AttachAt(o, at)
    BY <1>3, <2>1 DEF Attach, TypeOK
  <2>3. anchor' \in {o.watermark, anchor} /\ delivered' \in {{}, delivered}
    BY <2>2 DEF AttachAt
  <2> QED BY <2>1, <2>2, <2>3 DEF AttachAt, TypeOK, readers, timers
<1>4. ASSUME NEW o \in stale, StaleEnds(o) PROVE TypeOK'
  BY <1>4 DEF StaleEnds, TypeOK, readers, timers, attached, position
<1> QED BY <1>1, <1>2, <1>3, <1>4 DEF OpenGoesOn, StaleGoesOn

LEMMA StreamType ==
    TypeOK /\ (Fails \/ Commit \/ Event \/ \E s \in Streams : StreamOpens(s) \/ Silent(s)) => TypeOK'
<1> SUFFICES ASSUME TypeOK, Fails \/ Commit \/ Event \/ \E s \in Streams : StreamOpens(s) \/ Silent(s)
             PROVE  TypeOK'
  OBVIOUS
<1>1. ASSUME NEW o \in opening, OpenFails(o) PROVE TypeOK'
  BY <1>1 DEF OpenFails, Fault, scheduleReconnect, TypeOK, readers, attached, position
<1>2. ASSUME NEW o \in stale, StaleThrows(o) PROVE TypeOK'
  BY <1>2 DEF StaleThrows, Fault, scheduleReconnect, TypeOK, readers, attached, position
<1>3. ASSUME NEW s \in Streams, StreamErrors(s) PROVE TypeOK'
  BY <1>3 DEF StreamErrors, Fault, scheduleReconnect, StreamUnchanged, TypeOK, readers, position
<1>4. ASSUME NEW s \in Streams, StreamDies(s) PROVE TypeOK'
  BY <1>4 DEF StreamDies, Fault, StreamUnchanged, TypeOK, readers, position
<1>5. CASE Commit
  BY <1>5 DEF Commit, TypeOK, readers, timers, attached, position
<1>6. CASE Event
  <2>1. /\ cursor' \in Nat /\ consumedWatermark' \in Nat \union {None}
        /\ delivered' \subseteq Nat /\ watched' \subseteq Streams
    <3>1. /\ cursor \in Nat /\ consumedWatermark \in Nat \union {None}
          /\ delivered \subseteq Nat /\ watched \subseteq Streams
      BY DEF TypeOK
    <3>2. /\ cursor' = cursor + 1 /\ consumedWatermark' \in {cursor + 1, consumedWatermark}
          /\ delivered' = delivered \union {cursor + 1} /\ watched' = watched \union {"object"}
      BY <1>6 DEF Event
    <3> QED BY <3>1, <3>2 DEF Streams
  <2>2. UNCHANGED <<readers, timers, streams, openSubscriptionId, from, coverage, anchor, openedFor,
                    connectionState, opening, stale, subscriptions, head, faults>>
    BY <1>6 DEF Event
  <2> QED BY <2>1, <2>2 DEF TypeOK, readers, timers
<1>7. ASSUME NEW s \in Streams, StreamOpens(s) PROVE TypeOK'
  BY <1>7 DEF StreamOpens, StreamUnchanged, TypeOK, readers, position
<1>8. ASSUME NEW s \in Streams, Silent(s) PROVE TypeOK'
  BY <1>8 DEF Silent, scheduleReconnect, StreamUnchanged, TypeOK, readers, position
<1> QED BY <1>1, <1>2, <1>3, <1>4, <1>5, <1>6, <1>7, <1>8 DEF Fails

LEMMA NextType == TypeOK /\ [Next]_vars => TypeOK'
<1>1. TypeOK /\ UNCHANGED vars => TypeOK'
  BY DEF TypeOK, vars, readers, timers, attached, position
<1> QED BY <1>1, PageType, TimerType, OpenType, StreamType DEF Next

-----------------------------------------------------------------------------
(* The invariant *)

LEMMA InitIInv == Init => IInv
<1> SUFFICES ASSUME Init PROVE IInv
  OBVIOUS
<1>1. TypeOK
  <2>1. declared \in Seq(Pages) /\ defaultSelector \in Selectors
    BY StreamAssumption, EmptySeq DEF Init
  <2>2. following \in BOOLEAN /\ settling \in BOOLEAN /\ reconnectTimer \in BOOLEAN
    BY DEF Init
  <2>3. {following, settling, reconnectTimer} \subseteq BOOLEAN
    BY <2>2
  <2>4. {referenceCount, head, from, cursor, faults} \subseteq Nat
    BY DEF Init
  <2> QED BY <2>1, <2>3, <2>4 DEF Init, TypeOK
<1>2. SubscriptionInv
  BY DEF Init, SubscriptionInv, OneOpen, OpensApart, EachGranted, Granted
<1>3. PositionInv
  BY DEF Init, PositionInv, PositionHeld, HandedOver, Streams
<1>4. FollowsThePage
  BY DEF Init, FollowsThePage
<1>5. Ahead
  BY DEF Init, Ahead, Streams
<1> QED BY <1>1, <1>2, <1>3, <1>4, <1>5 DEF IInv

LEMMA NextIInv == IInv /\ [Next]_vars => IInv'
BY NextType, NextKeepsSubscriptions, NextKeepsPosition, NextKeepsAhead, NextFollows DEF IInv

LEMMA AlwaysIInv == Spec => []IInv
BY InitIInv, NextIInv, PTL DEF Spec

\* The client of useSse.ts keeps its types, whatever fails.
THEOREM TypeCorrect == Spec => []TypeOK
<1>1. IInv => TypeOK
  BY DEF IInv
<1> QED BY <1>1, AlwaysIInv, PTL

\* What the broker holds for this client is what is attached or on its way: of the opens that overtook each other,
\* failed after their answer or outlived the last reader, none leaves a subscription behind.
THEOREM NoneIsAbandoned == Spec => []NoneAbandoned
<1>1. IInv => NoneAbandoned
  <2> SUFFICES ASSUME IInv PROVE NoneAbandoned
    OBVIOUS
  <2>1. \A i : i \in subscriptions <=> Granted(i)
    BY DEF IInv, SubscriptionInv, EachGranted
  <2> QED BY <2>1 DEF NoneAbandoned, Granted
<1> QED BY <1>1, AlwaysIInv, PTL

\* Once the declarations have settled, the streams were opened for what the page on screen declared.
THEOREM PageIsFollowed == Spec => []FollowsThePage
<1>1. IInv => FollowsThePage
  BY DEF IInv
<1> QED BY <1>1, AlwaysIInv, PTL

\* Each change between the watermark of the answer whose snapshot the pages have and the position was handed to them,
\* over any number of reconnects, retries of the browser's, opens of other coverage and changes committed between an
\* answer and the streams attached after it.
THEOREM NothingIsSkipped == Spec => []NoGap
<1>1. IInv => NoGap
  BY DEF IInv, PositionInv, HandedOver, NoGap
<1> QED BY <1>1, AlwaysIInv, PTL
=============================================================================
