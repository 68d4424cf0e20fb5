---------------------------- MODULE ExploreReport ----------------------------
(***************************************************************************)
(* The page that reports on a piece of land: explore/ExplorePage.tsx and   *)
(* explore/exploreState.ts of vos.Trellis, with the intake service behind  *)
(* it (api/intakeApi.ts, api/findingsApi.ts) as those calls show it.       *)
(*                                                                         *)
(* A person marks land and proves an address; the page submits the land,   *)
(* and from then on posts it again whenever a dial has settled and reads   *)
(* the findings after every post.  Posts and reads are in flight together, *)
(* and the service takes them in any order.  The model behind the service  *)
(* takes a document over what it holds: a field the document leaves out    *)
(* stays as it was.  Variants of an operator that stand before it carry a  *)
(* plausible bug each.                                                     *)
(***************************************************************************)
EXTENDS Naturals, Sequences, FiniteSets, SequencesExt

CONSTANTS Positions,      \* where a pin may stand; the register's land there goes by the same name
          Drawn,          \* land drawn by hand
          None,
          Addresses,
          Shares, Seed,   \* splits of the programme, and the one the model offers
          Populations,
          POLLS_AFTER_SUBMIT,
          MaxFetches, MaxTurns, MaxPosts, MaxReads, MaxFaults

ASSUME ExploreAssumption ==
  /\ Seed \in Shares
  /\ None \notin Positions \union {Drawn} \union Addresses \union Shares \union Populations
  /\ Drawn \notin Positions
  /\ {POLLS_AFTER_SUBMIT, MaxFetches, MaxTurns, MaxPosts, MaxReads, MaxFaults} \subseteq Nat

VARIABLES position, boundary, fetches,   \* the land, and the register's answers on their way
          locating,                      \* the device was asked where it is; one asking at a time
          options, dials,
          email, awaitingCode, code,     \* a the address a typed code is good for, "spent" for none
          act,                           \* what the page is busy with
          session, ticket, expired,
          posted, timer, posts,          \* what the dials stood at, a re-post due, re-posts in flight:
                                         \* the service has taken one before the page hears of it
          polled, reads, findings,       \* polls so far, reads in flight in the order they left, the report
          mailed,                        \* the service: addresses with a good code out
          held,                          \* the document as the model holds it
          turns, faults,                 \* bounds
          missed,                        \* history: the model may lack what the page shows
          stale                          \* history: the report may be older than the model

land    == <<position, boundary, fetches, locating>>
dialled == <<options, dials, turns>>
claim   == <<email, awaitingCode, code>>
report  == <<session, posted, timer, polled, findings, stale>>
service == <<mailed, held>>
vars    == <<land, dialled, claim, act, report, ticket, expired, posts, reads, service, faults, missed>>

NoTicket == [address |-> None, live |-> FALSE]
Idle     == [step |-> "idle"]
busy     == act # Idle

Init ==
  /\ position = None /\ boundary = None /\ fetches = [p \in Positions |-> 0]
  /\ locating = FALSE
  /\ options = FALSE /\ dials = [shares |-> None, population |-> None]
  /\ email = None /\ awaitingCode = FALSE /\ code = None
  /\ act = Idle
  /\ session = FALSE /\ posted = None /\ timer = FALSE /\ polled = 0 /\ findings = "none" /\ stale = FALSE
  /\ ticket = NoTicket /\ expired = FALSE /\ posts = <<>> /\ reads = <<>>
  /\ mailed = {} /\ held = None
  /\ turns = 0 /\ faults = 0 /\ missed = FALSE

landDescribed == position # None /\ boundary # None

\* What the page would post as it stands.
documentFrom == [email |-> email, at |-> position, land |-> boundary,
                 shares |-> dials.shares, population |-> dials.population]

\* The model takes a document over the one it holds.
Over(old, doc) ==
  IF old = None THEN doc
  ELSE [f \in DOMAIN doc |-> IF doc[f] = None THEN old[f] ELSE doc[f]]

\* What a read tells of is the model as it is or as it was: a document that changes the model makes
\* every read taken before it one of the model as it was.
Older(of, h) == IF of = "is" /\ h # held THEN "was" ELSE of

Held(h, queue) ==
  /\ held' = h
  /\ findings' = Older(findings, h)
  /\ reads' = [i \in DOMAIN queue |-> [queue[i] EXCEPT !.of = Older(@, h)]]

-----------------------------------------------------------------------------
(* Marking the land.                                                       *)

\* A pin that can move no more has use for no answer but the one on the land under it.
WorthHearing(f, at, still) ==
  IF still THEN [p \in Positions |-> IF p = at THEN f[p] ELSE 0] ELSE f

\* A new pin starts the land over and asks the register what stands there.
PinTo(p, still) ==
  /\ fetches[p] < MaxFetches
  /\ position' = p /\ boundary' = None
  /\ fetches' = WorthHearing([fetches EXCEPT ![p] = @ + 1], p, still)
  /\ UNCHANGED <<dialled, claim, act, report, ticket, expired, posts, reads, service, faults>>

\* A person puts the pin on the map, which goes when the report opens.
pick(p) ==
  /\ ~session
  /\ PinTo(p, FALSE)
  /\ UNCHANGED <<locating, missed>>

useMyLocation ==
  /\ ~session /\ ~locating /\ locating' = TRUE
  /\ UNCHANGED <<position, boundary, fetches, dialled, claim, act, report, ticket, expired, posts, reads,
                 service, faults, missed>>

\* The device answers when it answers, also over a report that is open: the pin moves, its land is
\* taken off, and nothing is posted again.
DeviceAnswers(p) ==
  /\ locating /\ locating' = FALSE
  /\ PinTo(p, session)
  /\ missed' = (missed \/ session)

DeviceRefuses ==
  /\ locating /\ locating' = FALSE
  /\ fetches' = WorthHearing(fetches, position, session)
  /\ UNCHANGED <<position, boundary, dialled, claim, act, report, ticket, expired, posts, reads, service,
                 faults, missed>>

Marked(b) ==
  /\ boundary' = b
  /\ missed' = (missed \/ (session /\ b # boundary))
  /\ UNCHANGED <<position, locating, dialled, claim, act, report, ticket, expired, posts, reads,
                 service, faults>>

ParcelAnswersAnyhow(p) ==
  /\ fetches[p] > 0
  /\ fetches' = [fetches EXCEPT ![p] = @ - 1]
  /\ \/ Marked(p)
     \/ Marked(boundary)

\* The register's land is taken while the pin stands where it was asked about; an answer may also
\* be that it has none, or fail.
ParcelAnswers(p) ==
  /\ fetches[p] > 0
  /\ fetches' = [fetches EXCEPT ![p] = @ - 1]
  /\ \/ Marked(IF position = p THEN p ELSE boundary)
     \/ Marked(boundary)

\* Drawing by hand, which a drawing that encloses nothing undoes as clearing does.
Draw ==
  /\ ~session /\ position # None
  /\ \E b \in {Drawn, None} : b # boundary /\ Marked(b)
  /\ UNCHANGED fetches

-----------------------------------------------------------------------------
(* The dials: a turn that settles is posted.                               *)

DialEffectWhileFree(d) ==
  /\ posted' = d
  /\ timer' = (d # posted /\ posts = <<>>)

\* A change puts off the re-post that was due and sets one of its own.
DialEffect(d) ==
  /\ posted' = d
  /\ timer' = (d # posted)

Dialled(d) ==
  /\ dials' = d
  /\ IF session /\ d # dials THEN DialEffect(d) ELSE UNCHANGED <<posted, timer>>
  /\ UNCHANGED <<land, claim, act, session, polled, findings, stale, ticket, expired, posts, reads,
                 service, faults, missed>>

\* What the form may offer, which brings the split of the programme the model starts with.
OptionsAnswer ==
  /\ ~options /\ options' = TRUE
  /\ Dialled(IF dials.shares = None THEN [dials EXCEPT !.shares = Seed] ELSE dials)
  /\ UNCHANGED turns

Turn ==
  /\ session
  /\ \E s \in Shares \union {None}, n \in Populations \union {None} :
       /\ (s = dials.shares) # (n = dials.population)
       /\ (s = None) = (dials.shares = None)
       /\ Dialled([shares |-> s, population |-> n])
  /\ turns < MaxTurns /\ turns' = turns + 1
  /\ UNCHANGED options

\* Another language makes the page's callbacks anew: the re-post that was due is dropped with the
\* effect that set it, and the polls start over.
SwitchLanguage ==
  /\ timer' = FALSE
  /\ polled' = 0
  /\ missed' = (missed \/ timer)
  /\ UNCHANGED <<land, dialled, claim, act, session, posted, findings, stale, ticket, expired, posts,
                 reads, service, faults>>

-----------------------------------------------------------------------------
(* Proving an address.                                                     *)

\* Another address has to be proven anew.
EditEmail(a) ==
  /\ ~session /\ landDescribed
  /\ a # email /\ email' = a
  /\ awaitingCode' = FALSE /\ code' = None
  /\ UNCHANGED <<land, dialled, act, report, ticket, expired, posts, reads, service, faults, missed>>

TypeCode ==
  /\ IF session THEN expired ELSE awaitingCode
  /\ \E a \in mailed : code # a /\ code' = a
  /\ UNCHANGED <<land, dialled, email, awaitingCode, act, report, ticket, expired, posts, reads,
                 service, faults, missed>>

Begins(a) ==
  /\ ~busy
  /\ act' = a
  /\ UNCHANGED <<land, dialled, email, awaitingCode, code, report, ticket, expired, posts,
                 reads, service, faults, missed>>

askForCode ==
  /\ IF session THEN expired ELSE landDescribed /\ ~awaitingCode
  /\ email # None
  /\ Begins([step |-> "ask", email |-> email])

\* The state the button was pressed in goes all the way through the act.
submit ==
  /\ ~session /\ landDescribed /\ awaitingCode /\ code # None /\ email # None
  /\ Begins([step |-> "exchange", email |-> email, code |-> code, doc |-> documentFrom])

resume ==
  /\ session /\ expired /\ code # None
  /\ Begins([step |-> "resume", email |-> email, code |-> code])

\* The last code sent to an address is the one that works, and it works once.
NoLongerGood == IF code = act.email THEN "spent" ELSE code
Mailed == mailed' = mailed \union {act.email} /\ code' = NoLongerGood /\ UNCHANGED held
Spent  == mailed' = mailed \ {act.email} /\ UNCHANGED held

IsTheCode == act.code = act.email

Asked ==
  /\ act.step = "ask" /\ act' = Idle
  /\ UNCHANGED <<land, dialled, email, report, ticket, expired,
                 posts, reads, missed>>

CodeIsSent == Asked /\ Mailed /\ awaitingCode' = TRUE /\ UNCHANGED faults

\* The request fails, before the code goes out or after.
AskFails ==
  /\ Asked /\ (Mailed \/ UNCHANGED <<service, code>>)
  /\ faults < MaxFaults /\ faults' = faults + 1
  /\ UNCHANGED awaitingCode

-----------------------------------------------------------------------------
(* Reading the findings.  A read is honoured under a live ticket issued    *)
(* for the address it names.                                               *)

Reading(t, own) == [address |-> t.address, honoured |-> t.live /\ t.address = email,
                    own |-> own, of |-> "asked"]

WithRead(t, own) == Append(reads, Reading(t, own))

readFindings(t, own) == reads' = WithRead(t, own)

Exchanges ==
  /\ act.step \in {"exchange", "resume"}
  /\ UNCHANGED <<land, dialled, email, awaitingCode, report, posts, missed>>

ExchangeForSubmit ==
  /\ Exchanges /\ act.step = "exchange" /\ IsTheCode /\ Spent
  /\ act' = [step |-> "post", doc |-> act.doc]
  /\ code' = NoLongerGood
  /\ UNCHANGED <<ticket, expired, reads, faults>>

ExchangeForResume ==
  /\ Exchanges /\ act.step = "resume" /\ IsTheCode /\ Spent
  /\ ticket' = [address |-> act.email, live |-> TRUE]
  /\ expired' = FALSE /\ code' = None
  /\ act' = [step |-> "read"]
  /\ readFindings(ticket', TRUE)
  /\ UNCHANGED faults

\* The code is refused, or the exchange fails before or after the service has spent it.
ExchangeFails ==
  /\ Exchanges /\ act' = Idle
  /\ \/ ~IsTheCode /\ UNCHANGED <<service, code, faults>>
     \/ /\ faults < MaxFaults /\ faults' = faults + 1
        /\ \/ UNCHANGED <<service, code>>
           \/ IsTheCode /\ Spent /\ code' = NoLongerGood
  /\ UNCHANGED <<ticket, expired, reads>>

\* The service takes the submission, and the page hears of it later.
SubmissionIsTaken ==
  /\ act.step = "post"
  /\ act' = [step |-> "answer", doc |-> act.doc]
  /\ Held(Over(held, act.doc), reads)
  /\ UNCHANGED <<land, dialled, claim, session, posted, timer, polled, stale, ticket, expired, posts,
                 mailed, faults, missed>>

\* The submission is answered: the report opens, and what the dials stand at counts as carried.
SubmissionAnswered ==
  /\ act.step = "answer"
  /\ ticket' = [address |-> act.doc.email, live |-> TRUE]
  /\ session' = TRUE /\ posted' = dials /\ timer' = FALSE /\ polled' = 0
  /\ awaitingCode' = FALSE /\ code' = None
  /\ act' = [step |-> "read"]
  /\ readFindings(ticket', TRUE)
  /\ missed' = (documentFrom # act.doc)
  /\ fetches' = WorthHearing(fetches, position, ~locating)
  /\ UNCHANGED <<position, boundary, locating, dialled, email, findings, stale, expired, posts, service,
                 faults>>

\* The submission is lost on its way, or its answer is.
SubmissionFails ==
  /\ act.step \in {"post", "answer"} /\ act' = Idle
  /\ faults < MaxFaults /\ faults' = faults + 1
  /\ UNCHANGED <<land, dialled, claim, report, ticket, expired, posts, reads, service, missed>>

-----------------------------------------------------------------------------
(* The report.                                                             *)

TimerFires ==
  /\ timer /\ timer' = FALSE
  /\ Len(posts) < MaxPosts
  /\ posts' = Append(posts, [doc |-> documentFrom, ticket |-> ticket, taken |-> FALSE])
  /\ UNCHANGED <<land, dialled, claim, act, session, posted, polled, findings, stale, ticket, expired,
                 reads, service, faults, missed>>

Honours(p) == p.ticket.live /\ p.ticket.address = p.doc.email

Untaken == {i \in DOMAIN posts : ~posts[i].taken}

\* The model takes the document, whichever was posted first, and the page has yet to hear of it.
PostTaken(i) ==
  /\ i \in Untaken /\ Honours(posts[i])
  /\ posts' = [posts EXCEPT ![i].taken = TRUE]
  /\ Held(Over(held, posts[i].doc), reads)
  /\ missed' = IF Untaken = {i} THEN missed /\ posts[i].doc # documentFrom
               ELSE missed \/ \E j \in Untaken : j < i
  /\ UNCHANGED <<land, dialled, claim, act, session, posted, timer, polled, stale, ticket, expired, mailed,
                 faults>>

Leaves(i) ==
  /\ i \in DOMAIN posts /\ posts' = RemoveAt(posts, i)
  /\ UNCHANGED <<land, dialled, claim, act, session, posted, timer, polled, findings, service>>

PostAnsweredUnread(i) ==
  /\ Leaves(i) /\ posts[i].taken
  /\ ticket' = [address |-> posts[i].doc.email, live |-> TRUE]
  /\ UNCHANGED <<reads, expired, faults, stale, missed>>

\* The ticket comes back renewed, and the findings are read.
PostAnswered(i) ==
  /\ Len(reads) < MaxReads
  /\ Leaves(i) /\ posts[i].taken
  /\ ticket' = [address |-> posts[i].doc.email, live |-> TRUE]
  /\ readFindings(ticket', FALSE)
  /\ UNCHANGED <<expired, faults, stale, missed>>

\* Only a ticket's age asks the person to prove the address again.
PostRefused(i) ==
  /\ Leaves(i) /\ ~posts[i].taken /\ ~Honours(posts[i])
  /\ expired' = (expired \/ ~posts[i].ticket.live)
  /\ missed' = TRUE
  /\ UNCHANGED <<ticket, reads, faults, stale>>

\* The request is lost, or the answer to one that was taken.
PostFails(i) ==
  /\ Leaves(i)
  /\ faults < MaxFaults /\ faults' = faults + 1
  /\ missed' = (missed \/ ~posts[i].taken)
  /\ stale' = (stale \/ posts[i].taken)
  /\ UNCHANGED <<ticket, expired, reads>>

TicketAges ==
  /\ ticket.live
  /\ ticket' = [ticket EXCEPT !.live = FALSE]
  /\ UNCHANGED <<land, dialled, claim, act, report, expired, posts, reads, service, faults,
                 missed>>

\* A poll on its time.
poll ==
  /\ session /\ polled < POLLS_AFTER_SUBMIT /\ polled' = polled + 1
  /\ Len(reads) < MaxReads /\ readFindings(ticket, FALSE)
  /\ UNCHANGED <<land, dialled, claim, act, session, posted, timer, findings, stale, ticket, expired,
                 posts, service, faults, missed>>

onRefresh ==
  /\ session
  /\ Len(reads) < MaxReads /\ readFindings(ticket, FALSE)
  /\ UNCHANGED <<land, dialled, claim, act, report, ticket, expired, posts, service, faults,
                 missed>>

ReadServed(i) ==
  /\ i \in DOMAIN reads /\ reads[i].honoured /\ reads[i].of = "asked"
  /\ reads' = [reads EXCEPT ![i].of = "is"]
  /\ UNCHANGED <<land, dialled, claim, act, report, ticket, expired, posts, service, faults,
                 missed>>

Returns(i) ==
  /\ i \in DOMAIN reads /\ reads' = RemoveAt(reads, i)
  /\ act' = IF reads[i].own THEN Idle ELSE act
  /\ UNCHANGED <<land, dialled, claim, session, posted, timer, polled, expired, posts, service,
                 missed>>

\* The report is what this answer says, also when a later read has been answered already.
ReadAnswered(i) ==
  /\ Returns(i) /\ reads[i].of # "asked"
  /\ findings' = reads[i].of
  /\ ticket' = [address |-> reads[i].address, live |-> TRUE]
  /\ stale' = IF Len(reads) = 1 THEN stale /\ reads[i].of = "was" ELSE stale \/ i > 1
  /\ UNCHANGED faults

\* A read that is refused or fails says nothing on the report.
ReadFails(i) ==
  /\ Returns(i)
  /\ IF reads[i].honoured THEN faults < MaxFaults /\ faults' = faults + 1 ELSE UNCHANGED faults
  /\ stale' = TRUE
  /\ UNCHANGED <<findings, ticket>>

-----------------------------------------------------------------------------
Next ==
  \/ \E p \in Positions : pick(p) \/ DeviceAnswers(p) \/ ParcelAnswers(p)
  \/ useMyLocation \/ DeviceRefuses
  \/ Draw \/ OptionsAnswer \/ Turn \/ SwitchLanguage
  \/ \E a \in Addresses : EditEmail(a)
  \/ TypeCode \/ askForCode \/ submit \/ resume
  \/ CodeIsSent \/ AskFails
  \/ ExchangeForSubmit \/ ExchangeForResume \/ ExchangeFails
  \/ SubmissionIsTaken \/ SubmissionAnswered \/ SubmissionFails
  \/ TimerFires
  \/ \E i \in DOMAIN posts : PostTaken(i) \/ PostAnswered(i) \/ PostRefused(i) \/ PostFails(i)
  \/ TicketAges \/ poll \/ onRefresh
  \/ \E i \in DOMAIN reads : ReadServed(i) \/ ReadAnswered(i) \/ ReadFails(i)

Spec == Init /\ [][Next]_vars

-----------------------------------------------------------------------------
Documents == [email : Addresses, at : Positions, land : Positions \union {Drawn, None},
              shares : Shares \union {None}, population : Populations \union {None}]

\* What each variable holds; a report is open only over a document the model holds and a ticket, and
\* the page is busy reading exactly while a read of its own is in flight (ExplorePage.tsx:86-97,160-177).
TypeOK ==
  /\ position \in Positions \union {None} /\ boundary \in Positions \union {Drawn, None}
  /\ fetches \in [Positions -> 0..MaxFetches]
  /\ {locating, options, awaitingCode, session, expired, timer, missed, stale} \subseteq BOOLEAN
  /\ dials \in [shares : Shares \union {None}, population : Populations \union {None}]
  /\ email \in Addresses \union {None} /\ code \in Addresses \union {None, "spent"}
  /\ mailed \subseteq Addresses
  /\ act.step \in {"idle", "ask", "exchange", "post", "answer", "resume", "read"}
  /\ ticket.live \in BOOLEAN /\ ticket.address \in Addresses \union {None}
  /\ held = None \/ held \in Documents
  /\ findings \in {"none", "is", "was"}
  /\ session => held # None /\ ticket.address # None
  /\ \A i \in DOMAIN posts : posts[i].doc.email = email /\ posts[i].taken \in BOOLEAN
  /\ Cardinality({i \in DOMAIN reads : reads[i].own}) = IF act.step = "read" THEN 1 ELSE 0

\* Land taken from the register is the land under the pin, on the page and in what is posted, whatever
\* answers were on their way when the pin moved (ExplorePage.tsx:118-137).
FetchedIsHere ==
  /\ boundary \in Positions => boundary = position
  /\ \A i \in DOMAIN posts : posts[i].doc.land \in Positions => posts[i].doc.land = posts[i].doc.at

\* The dials rest, and every re-post has reached the service.
Settled == session /\ ~timer /\ Untaken = {}

\* Once the dials rest, whatever the page states is what the model holds, unless a re-post was dropped
\* by a switch of language, overtaken, refused or lost, or the land or the dials changed outside the
\* window a re-post is set in: a device or a register that answers over an open report does that
\* (ExplorePage.tsx:140-145,258-289).
ModelHoldsThePage ==
  Settled /\ ~missed =>
    \A f \in DOMAIN documentFrom : documentFrom[f] # None => held[f] = documentFrom[f]

\* Once no read is in flight and the page has heard of every re-post the service took, the report is of
\* what the model holds, whatever was posted between two reads, unless a read failed, was refused or
\* was overtaken, or a post's answer was lost (ExplorePage.tsx:219-227,270-280).
ReportIsOfTheModel ==
  session /\ reads = <<>> /\ DOMAIN posts = Untaken /\ ~stale => findings = "is"
=============================================================================
