------------------------ MODULE ExploreReport_proof ------------------------
(***************************************************************************)
(* Proofs about ExploreReport for any land, addresses, dials and bounds.   *)
(* What keeps the model in step with the page is the last re-post: while   *)
(* nothing is missed, re-posts are taken in the order they left, and while *)
(* none is due the last that is not taken carries the page as it stands.   *)
(* What keeps the report in step with the model is the last read: while    *)
(* nothing is stale, and the page has heard of every re-post taken, it     *)
(* tells of the model as it is.                                            *)
(***************************************************************************)
EXTENDS ExploreReport, SequenceTheorems, TLAPS

IsSeq(s) == s \in Seq({s[i] : i \in DOMAIN s})

Agrees(h, d) == \A f \in DOMAIN d : d[f] # None => h[f] = d[f]

\* When the page is busy opening a report, and when only one that is open lets it be.
ActInv ==
  /\ session \in BOOLEAN
  /\ act.step \in {"exchange", "post", "answer"} => ~session
  /\ act.step = "resume" => session

\* The model agrees with a submission the page has yet to hear of.
AnswerInv == act.step = "answer" => Agrees(held, act.doc)

LandInv == boundary \in Positions => boundary = position

PostsAreSound ==
  \A i \in DOMAIN posts : posts[i].doc.land \in Positions => posts[i].doc.land = posts[i].doc.at

PostsInv ==
  /\ timer \in BOOLEAN /\ missed \in BOOLEAN
  /\ IsSeq(posts)
  /\ ~session => ~timer /\ posts = <<>>
  /\ session => posted = dials
  /\ \A i \in DOMAIN posts : DOMAIN posts[i] = {"doc", "ticket", "taken"} /\ posts[i].taken \in BOOLEAN

InTurn == \A k \in DOMAIN posts : posts[k].taken => \A j \in 1..k - 1 : posts[j].taken

LastPost ==
  session /\ ~missed =>
    /\ InTurn
    /\ ~timer =>
         IF Untaken = {} THEN Agrees(held, documentFrom) ELSE posts[Len(posts)].doc = documentFrom

ReadsInv ==
  /\ stale \in BOOLEAN
  /\ IsSeq(reads)
  /\ ~session => reads = <<>>
  /\ \A i \in DOMAIN reads : "of" \in DOMAIN reads[i] /\ reads[i].of \in {"asked", "is", "was"}

NoneToHear == DOMAIN posts = Untaken

LastRead ==
  session /\ ~stale /\ NoneToHear =>
    IF reads = <<>> THEN findings = "is" ELSE reads[Len(reads)].of # "was"

-----------------------------------------------------------------------------
\* A sequence of anything is one of its own elements.
LEMMA OwnSeq ==
  ASSUME NEW S, NEW s \in Seq(S)
  PROVE  IsSeq(s)
<1>1. DOMAIN s = 1..Len(s) /\ Len(s) \in Nat
  OBVIOUS
<1>2. s = [i \in 1..Len(s) |-> s[i]]
  OBVIOUS
<1>3. s \in [1..Len(s) -> {s[i] : i \in DOMAIN s}]
  BY <1>1, <1>2
<1> QED BY <1>1, <1>3 DEF IsSeq

LEMMA NoneSeq == IsSeq(<<>>)
BY OwnSeq, <<>> \in Seq({})

\* The elements of a sequence, and when there is none.
LEMMA SeqDomain ==
  ASSUME NEW s, IsSeq(s)
  PROVE  /\ Len(s) \in Nat /\ DOMAIN s = 1..Len(s)
         /\ s = <<>> <=> Len(s) = 0
BY DEF IsSeq

\* What appending does to a sequence.
LEMMA AppendSeq ==
  ASSUME NEW s, NEW x, IsSeq(s)
  PROVE  /\ IsSeq(Append(s, x))
         /\ Len(Append(s, x)) = Len(s) + 1
         /\ Append(s, x)[Len(s) + 1] = x
         /\ \A i \in 1..Len(s) : Append(s, x)[i] = s[i]
<1> DEFINE S == {s[i] : i \in DOMAIN s} \union {x}
<1>1. s \in Seq(S) /\ x \in S
  BY DEF IsSeq
<1>2. Append(s, x) \in Seq(S)
  BY <1>1
<1>3. IsSeq(Append(s, x))
  BY <1>2, OwnSeq
<1> HIDE DEF S
<1> QED BY <1>1, <1>3

\* What taking an element out does to a sequence.
LEMMA RemoveSeq ==
  ASSUME NEW s, IsSeq(s), NEW k \in DOMAIN s
  PROVE  /\ IsSeq(RemoveAt(s, k))
         /\ Len(RemoveAt(s, k)) = Len(s) - 1
         /\ \A i \in 1..Len(s) - 1 : RemoveAt(s, k)[i] = IF i < k THEN s[i] ELSE s[i + 1]
<1> DEFINE S == {s[i] : i \in DOMAIN s}
<1>1. s \in Seq(S)
  BY DEF IsSeq
<1> HIDE DEF S
<1>2. Len(s) \in Nat /\ k \in 1..Len(s)
  BY <1>1
<1> DEFINE front == SubSeq(s, 1, k - 1)
           back  == SubSeq(s, k + 1, Len(s))
<1>3. /\ front \in Seq(S) /\ Len(front) = k - 1
      /\ \A i \in 1..k - 1 : front[i] = s[i]
  BY <1>1, <1>2, SubSeqProperties
<1>4. /\ back \in Seq(S) /\ Len(back) = Len(s) - k
      /\ \A i \in 1..Len(s) - k : back[i] = s[k + i]
  BY <1>1, <1>2
<1>a. RemoveAt(s, k) = front \o back
  BY DEF RemoveAt
<1> HIDE DEF front, back
<1>b. /\ front \o back \in Seq(S) /\ Len(front \o back) = Len(s) - 1
      /\ \A i \in 1..Len(s) - 1 : (front \o back)[i] = IF i < k THEN front[i] ELSE back[i - (k - 1)]
  BY <1>2, <1>3, <1>4
<1>c. \A i \in 1..Len(s) - 1 : (front \o back)[i] = IF i < k THEN s[i] ELSE s[i + 1]
  <2> SUFFICES ASSUME NEW i \in 1..Len(s) - 1
               PROVE  (front \o back)[i] = IF i < k THEN s[i] ELSE s[i + 1]
    OBVIOUS
  <2>1. CASE i < k
    BY <2>1, <1>b, <1>2, <1>3
  <2>2. CASE ~(i < k)
    <3>1. i - (k - 1) \in 1..Len(s) - k /\ k + (i - (k - 1)) = i + 1
      BY <2>2, <1>2
    <3> QED BY <3>1, <2>2, <1>b, <1>4
  <2> QED BY <2>1, <2>2
<1>5. /\ RemoveAt(s, k) \in Seq(S)
      /\ Len(RemoveAt(s, k)) = Len(s) - 1
      /\ \A i \in 1..Len(s) - 1 : RemoveAt(s, k)[i] = IF i < k THEN s[i] ELSE s[i + 1]
  BY <1>a, <1>b, <1>c
<1>6. IsSeq(RemoveAt(s, k))
  BY <1>5, OwnSeq
<1> QED BY <1>5, <1>6

\* The model agrees with the document it has just taken.
LEMMA OverAgrees ==
  ASSUME NEW h, NEW d
  PROVE  Agrees(Over(h, d), d)
BY DEF Agrees, Over

-----------------------------------------------------------------------------
IInv == ActInv /\ AnswerInv /\ LandInv /\ PostsAreSound /\ PostsInv /\ LastPost /\ ReadsInv /\ LastRead

LEMMA InitIInv == Init => IInv
<1> SUFFICES ASSUME Init PROVE IInv
  OBVIOUS
<1>1. ActInv /\ AnswerInv /\ LandInv
  BY ExploreAssumption DEF Init, ActInv, AnswerInv, LandInv, Idle
<1>a. IsSeq(<<>>) /\ DOMAIN <<>> = {}
  BY NoneSeq, SeqDomain
<1>2. PostsAreSound /\ PostsInv /\ LastPost
  BY <1>a DEF Init, PostsAreSound, PostsInv, LastPost, InTurn, Untaken
<1>3. ReadsInv /\ LastRead
  BY <1>a DEF Init, ReadsInv, LastRead
<1> QED BY <1>1, <1>2, <1>3 DEF IInv

\* The stage of the act and the report: a report is opened once, and resumed while it is open.
LEMMA ActStep == IInv /\ [Next]_vars => ActInv'
<1> SUFFICES ASSUME ActInv, [Next]_vars PROVE ActInv'
  BY DEF IInv
<1> DEFINE Same == session' = session /\ act' = act
           Over_ == session' = session /\ act' = Idle
<1>a. Same \/ Over_ => ActInv'
  BY DEF ActInv, Idle
<1> HIDE DEF Same, Over_
<1>1. ASSUME NEW p \in Positions, pick(p) \/ DeviceAnswers(p) \/ ParcelAnswers(p) PROVE Same
  BY <1>1 DEF pick, DeviceAnswers, PinTo, ParcelAnswers, Marked, report, Same
<1>14. CASE useMyLocation \/ DeviceRefuses
  <2>1. Same BY <1>14 DEF useMyLocation, DeviceRefuses, report, Same
  <2> QED BY <2>1, <1>a
<1>2. CASE Draw \/ OptionsAnswer \/ Turn \/ SwitchLanguage
  <2>1. Same BY <1>2 DEF Draw, Marked, OptionsAnswer, Turn, Dialled, SwitchLanguage, report, Same
  <2> QED BY <2>1, <1>a
<1>3. ASSUME NEW a \in Addresses, EditEmail(a) PROVE Same
  BY <1>3 DEF EditEmail, report, Same
<1>4. CASE TypeCode \/ askForCode
  <2>1. TypeCode => Same BY DEF TypeCode, report, Same
  <2>2. askForCode => session' = session /\ act'.step = "ask" BY DEF askForCode, Begins, report
  <2> QED BY <1>4, <2>1, <2>2, <1>a DEF ActInv
<1>5. CASE submit \/ resume
  <2>1. submit => ~session /\ session' = session /\ act'.step = "exchange"
    BY DEF submit, Begins, report
  <2>2. resume => session /\ session' = session /\ act'.step = "resume"
    BY DEF resume, Begins, report
  <2> QED BY <1>5, <2>1, <2>2 DEF ActInv
<1>6. CASE CodeIsSent \/ AskFails
  <2>1. Over_ BY <1>6 DEF CodeIsSent, AskFails, Asked, report, Over_
  <2> QED BY <2>1, <1>a
<1>7. CASE ExchangeForSubmit \/ ExchangeForResume \/ ExchangeFails
  <2>1. ExchangeFails => Over_ BY DEF ExchangeFails, Exchanges, report, Over_
  <2>2. ExchangeForSubmit => act.step = "exchange" /\ session' = session /\ act'.step = "post"
    BY DEF ExchangeForSubmit, Exchanges, report
  <2>3. ExchangeForResume => session' = session /\ act'.step = "read"
    BY DEF ExchangeForResume, Exchanges, report
  <2> QED BY <1>7, <2>1, <2>2, <2>3, <1>a DEF ActInv
<1>8. CASE SubmissionIsTaken \/ SubmissionAnswered \/ SubmissionFails
  <2>1. SubmissionFails => Over_ BY DEF SubmissionFails, report, Over_
  <2>2. SubmissionAnswered => session' = TRUE /\ act'.step = "read" BY DEF SubmissionAnswered
  <2>3. SubmissionIsTaken => act.step = "post" /\ session' = session /\ act'.step = "answer"
    BY DEF SubmissionIsTaken
  <2>4. SubmissionIsTaken => ActInv'
    BY <2>3 DEF ActInv
  <2>5. SubmissionAnswered => ActInv'
    BY <2>2 DEF ActInv
  <2> QED BY <1>8, <2>1, <2>4, <2>5, <1>a
<1>9. CASE TimerFires \/ TicketAges \/ poll \/ onRefresh
  <2>1. TimerFires => Same BY DEF TimerFires, Same
  <2>2. TicketAges => Same BY DEF TicketAges, report, Same
  <2>3. poll \/ onRefresh => Same BY DEF poll, onRefresh, report, Same
  <2> QED BY <1>9, <2>1, <2>2, <2>3, <1>a
<1>10. ASSUME NEW i \in DOMAIN posts, PostTaken(i) \/ PostAnswered(i) \/ PostRefused(i) \/ PostFails(i)
       PROVE  Same
  BY <1>10 DEF PostTaken, PostAnswered, PostRefused, PostFails, Leaves, Same
<1>11. ASSUME NEW i \in DOMAIN reads, ReadServed(i) PROVE Same
  BY <1>11 DEF ReadServed, report, Same
<1>12. ASSUME NEW i \in DOMAIN reads, ReadAnswered(i) \/ ReadFails(i) PROVE Same \/ Over_
  BY <1>12 DEF ReadAnswered, ReadFails, Returns, Same, Over_
<1>13. CASE UNCHANGED vars
  <2>1. Same BY <1>13 DEF vars, report, Same
  <2> QED BY <2>1, <1>a
<1> QED
  BY <1>a, <1>1, <1>2, <1>3, <1>4, <1>5, <1>6, <1>7, <1>8, <1>9, <1>10, <1>11, <1>12, <1>13, <1>14 DEF Next

\* The model changes with a submission taken, and then not before the page hears of it.
LEMMA AnswerStep == IInv /\ [Next]_vars => AnswerInv'
<1> SUFFICES ASSUME IInv, [Next]_vars PROVE AnswerInv'
  OBVIOUS
<1> DEFINE Same == act' = act /\ held' = held
           Past == act'.step # "answer"
<1>a. Same \/ Past => AnswerInv'
  BY DEF IInv, AnswerInv, Agrees
<1>b. act' = Idle => Past
  BY DEF Idle
<1> HIDE DEF Same
<1>1. ASSUME NEW p \in Positions, pick(p) \/ DeviceAnswers(p) \/ ParcelAnswers(p) PROVE Same
  BY <1>1 DEF pick, DeviceAnswers, PinTo, ParcelAnswers, Marked, service, Same
<1>2. CASE useMyLocation \/ DeviceRefuses \/ Draw \/ OptionsAnswer \/ Turn \/ SwitchLanguage
  <2>1. Same
    BY <1>2 DEF useMyLocation, DeviceRefuses, Draw, Marked, OptionsAnswer, Turn, Dialled, SwitchLanguage,
                service, Same
  <2> QED BY <2>1, <1>a
<1>3. ASSUME NEW a \in Addresses, EditEmail(a) PROVE Same
  BY <1>3 DEF EditEmail, service, Same
<1>4. CASE TypeCode
  <2>1. Same BY <1>4 DEF TypeCode, service, Same
  <2> QED BY <2>1, <1>a
<1>5. CASE askForCode \/ submit \/ resume
  <2>1. Past BY <1>5 DEF askForCode, submit, resume, Begins
  <2> QED BY <2>1, <1>a
<1>6. CASE CodeIsSent \/ AskFails
  <2>1. act' = Idle BY <1>6 DEF CodeIsSent, AskFails, Asked
  <2> QED BY <2>1, <1>a, <1>b
<1>7. CASE ExchangeForSubmit \/ ExchangeForResume \/ ExchangeFails
  <2>1. ExchangeForSubmit => act'.step = "post" BY DEF ExchangeForSubmit
  <2>2. ExchangeForResume => act'.step = "read" BY DEF ExchangeForResume
  <2>3. ExchangeFails => act' = Idle BY DEF ExchangeFails
  <2> QED BY <1>7, <2>1, <2>2, <2>3, <1>a, <1>b
<1>8. CASE SubmissionIsTaken
  <2>1. act'.doc = act.doc /\ held' = Over(held, act.doc)
    BY <1>8 DEF SubmissionIsTaken, Held
  <2>2. Agrees(held', act'.doc)
    BY <2>1, OverAgrees
  <2> QED BY <2>2 DEF AnswerInv
<1>9. CASE SubmissionAnswered \/ SubmissionFails
  <2>1. SubmissionAnswered => act'.step = "read" BY DEF SubmissionAnswered
  <2>2. SubmissionFails => act' = Idle BY DEF SubmissionFails
  <2> QED BY <1>9, <2>1, <2>2, <1>a, <1>b
<1>10. CASE TimerFires \/ TicketAges \/ poll \/ onRefresh
  <2>1. Same BY <1>10 DEF TimerFires, TicketAges, poll, onRefresh, service, Same
  <2> QED BY <2>1, <1>a
<1>11. ASSUME NEW i \in DOMAIN posts, PostTaken(i) PROVE AnswerInv'
  <2>1. posts # <<>>
    BY <1>11, SeqDomain DEF IInv, PostsInv
  <2>2. act.step # "answer"
    BY <2>1 DEF IInv, PostsInv, ActInv
  <2>3. act' = act
    BY <1>11 DEF PostTaken
  <2> QED BY <2>2, <2>3 DEF AnswerInv
<1>12. ASSUME NEW i \in DOMAIN posts, PostAnswered(i) \/ PostRefused(i) \/ PostFails(i) PROVE Same
  BY <1>12 DEF PostAnswered, PostRefused, PostFails, Leaves, service, Same
<1>13. ASSUME NEW i \in DOMAIN reads, ReadServed(i) PROVE Same
  BY <1>13 DEF ReadServed, service, Same
<1>14. ASSUME NEW i \in DOMAIN reads, ReadAnswered(i) \/ ReadFails(i) PROVE Same \/ Past
  <2>1. held' = held /\ (act' = Idle \/ act' = act)
    BY <1>14 DEF ReadAnswered, ReadFails, Returns, service
  <2> QED BY <2>1, <1>b DEF Same
<1>15. CASE UNCHANGED vars
  <2>1. Same BY <1>15 DEF vars, service, Same
  <2> QED BY <2>1, <1>a
<1> QED
  BY <1>a, <1>1, <1>2, <1>3, <1>4, <1>5, <1>6, <1>7, <1>8, <1>9, <1>10, <1>11, <1>12, <1>13, <1>14,
     <1>15 DEF Next

\* A pin moves with its land taken off, and land is taken from the register for the pin it stands at.
LEMMA LandStep == IInv /\ [Next]_vars => LandInv'
<1> SUFFICES ASSUME IInv, [Next]_vars PROVE LandInv'
  OBVIOUS
<1> USE ExploreAssumption DEF IInv, LandInv
<1>1. ASSUME NEW p \in Positions, pick(p) \/ DeviceAnswers(p) \/ ParcelAnswers(p) PROVE LandInv'
  <2>1. pick(p) \/ DeviceAnswers(p) => boundary' = None
    BY DEF pick, DeviceAnswers, PinTo
  <2>2. ParcelAnswers(p) => LandInv'
    BY DEF ParcelAnswers, Marked
  <2> QED BY <1>1, <2>1, <2>2
<1>12. CASE useMyLocation \/ DeviceRefuses
  BY <1>12 DEF useMyLocation, DeviceRefuses
<1>2. CASE Draw \/ OptionsAnswer \/ Turn \/ SwitchLanguage
  BY <1>2 DEF Draw, Marked, OptionsAnswer, Turn, Dialled, SwitchLanguage, land
<1>3. ASSUME NEW a \in Addresses, EditEmail(a) PROVE LandInv'
  BY <1>3 DEF EditEmail, land
<1>4. CASE TypeCode \/ askForCode \/ submit \/ resume
  BY <1>4 DEF TypeCode, askForCode, submit, resume, Begins, land
<1>5. CASE CodeIsSent \/ AskFails
  BY <1>5 DEF CodeIsSent, AskFails, Asked, land
<1>6. CASE ExchangeForSubmit \/ ExchangeForResume \/ ExchangeFails
  BY <1>6 DEF ExchangeForSubmit, ExchangeForResume, ExchangeFails, Exchanges, land
<1>7. CASE SubmissionIsTaken \/ SubmissionAnswered \/ SubmissionFails
  BY <1>7 DEF SubmissionIsTaken, SubmissionAnswered, SubmissionFails, land
<1>8. CASE TimerFires \/ TicketAges \/ poll \/ onRefresh
  BY <1>8 DEF TimerFires, TicketAges, poll, onRefresh, land
<1>9. ASSUME NEW i \in DOMAIN posts, PostTaken(i) \/ PostAnswered(i) \/ PostRefused(i) \/ PostFails(i)
      PROVE  LandInv'
  BY <1>9 DEF PostTaken, PostAnswered, PostRefused, PostFails, Leaves, land
<1>10. ASSUME NEW i \in DOMAIN reads, ReadServed(i) \/ ReadAnswered(i) \/ ReadFails(i) PROVE LandInv'
  BY <1>10 DEF ReadServed, ReadAnswered, ReadFails, Returns, land
<1>11. CASE UNCHANGED vars
  BY <1>11 DEF vars, land
<1> QED
  BY <1>1, <1>2, <1>3, <1>4, <1>5, <1>6, <1>7, <1>8, <1>9, <1>10, <1>11, <1>12 DEF Next

-----------------------------------------------------------------------------
PostsPart == PostsAreSound /\ PostsInv /\ LastPost

postsVars == <<session, missed, timer, posts, posted, dials, held, email, position, boundary>>

LEMMA PostsKept ==
  ASSUME PostsPart, UNCHANGED postsVars
  PROVE  PostsPart'
BY DEF PostsPart, PostsAreSound, PostsInv, LastPost, InTurn, Untaken, postsVars, Agrees, documentFrom

\* Before the report is open nothing is posted again.
LEMMA PostsBefore ==
  ASSUME PostsPart, ~session, session' = session, timer' = timer, posts' = posts,
         missed' \in BOOLEAN
  PROVE  PostsPart'
BY DEF PostsPart, PostsAreSound, PostsInv, LastPost

\* A pin that the device moves under an open report is missed.
LEMMA PostsMoved ==
  ASSUME PostsPart, ActInv, NEW p, DeviceAnswers(p)
  PROVE  PostsPart'
<1>1. UNCHANGED <<session, timer, posts, posted, dials>>
  BY DEF DeviceAnswers, PinTo, report, dialled
<1>2. missed' = (missed \/ session)
  BY DEF DeviceAnswers
<1>3. missed' \in BOOLEAN
  BY <1>2 DEF PostsPart, PostsInv
<1>4. CASE ~session
  BY <1>1, <1>3, <1>4, PostsBefore
<1>5. CASE session
  <2>1. missed' = TRUE
    BY <1>2, <1>5
  <2> QED BY <2>1, <1>1 DEF PostsPart, PostsAreSound, PostsInv, LastPost
<1> QED BY <1>4, <1>5

\* So is land that changes under an open report.
LEMMA PostsMarked ==
  ASSUME PostsPart, ActInv, NEW b, Marked(b)
  PROVE  PostsPart'
<1>1. UNCHANGED <<session, timer, posts, posted, dials, held, email, position>>
  BY DEF Marked, report, dialled, claim, service
<1>2. missed' = (missed \/ (session /\ b # boundary)) /\ boundary' = b
  BY DEF Marked
<1>3. missed' \in BOOLEAN
  BY <1>2 DEF PostsPart, PostsInv
<1>4. CASE ~session
  BY <1>1, <1>3, <1>4, PostsBefore
<1>5. CASE session /\ b # boundary
  <2>1. missed' = TRUE
    BY <1>2, <1>5
  <2> QED BY <2>1, <1>1 DEF PostsPart, PostsAreSound, PostsInv, LastPost
<1>6. CASE session /\ b = boundary
  <2>1. missed' = missed
    BY <1>2, <1>6 DEF PostsPart, PostsInv
  <2> QED BY <2>1, <1>1, <1>2, <1>6, PostsKept DEF postsVars
<1> QED BY <1>4, <1>5, <1>6 DEF ActInv

\* A change of the dials puts a re-post due.
LEMMA PostsDialled ==
  ASSUME PostsPart, ActInv, NEW d, Dialled(d)
  PROVE  PostsPart'
<1>1. UNCHANGED <<session, missed, posts, held, email, position, boundary>> /\ dials' = d
  BY DEF Dialled, land, claim, service
<1>2. CASE session /\ d # dials
  <2>1. timer' = TRUE /\ posted' = d
    BY <1>2 DEF Dialled, DialEffect, PostsPart, PostsInv
  <2> QED BY <2>1, <1>1, <1>2 DEF PostsPart, PostsAreSound, PostsInv, LastPost, InTurn
<1>3. CASE ~session
  <2>1. timer' = timer
    BY <1>3 DEF Dialled
  <2>2. missed' \in BOOLEAN
    BY <1>1 DEF PostsPart, PostsInv
  <2> QED BY <2>1, <2>2, <1>1, <1>3, PostsBefore
<1>4. CASE session /\ d = dials
  <2>1. timer' = timer /\ posted' = posted
    BY <1>4 DEF Dialled
  <2> QED BY <2>1, <1>1, <1>4, PostsKept DEF postsVars
<1> QED BY <1>2, <1>3, <1>4 DEF ActInv

LEMMA PostsSwitched ==
  ASSUME PostsPart, SwitchLanguage
  PROVE  PostsPart'
<1>1. UNCHANGED <<session, posts, posted, dials, held, email, position, boundary>>
  BY DEF SwitchLanguage, land, claim, service, dialled
<1>2. timer' = FALSE /\ missed' = (missed \/ timer)
  BY DEF SwitchLanguage
<1>3. CASE timer = TRUE
  <2>1. missed' = TRUE
    BY <1>2, <1>3
  <2> QED BY <2>1, <1>1, <1>2 DEF PostsPart, PostsAreSound, PostsInv, LastPost
<1>4. CASE timer = FALSE
  <2>1. missed' = missed
    BY <1>2, <1>4 DEF PostsPart, PostsInv
  <2> QED BY <2>1, <1>1, <1>2, <1>4, PostsKept DEF postsVars
<1> QED BY <1>3, <1>4 DEF PostsPart, PostsInv

\* The report opens with nothing to post, and what was taken is the page unless that is missed.
LEMMA PostsOpened ==
  ASSUME PostsPart, ActInv, AnswerInv, SubmissionAnswered
  PROVE  PostsPart'
<1>1. /\ UNCHANGED <<posts, dials, email, position, boundary, held>>
      /\ session' = TRUE /\ timer' = FALSE /\ posted' = dials
      /\ missed' = (documentFrom # act.doc) /\ act.step = "answer"
  BY DEF SubmissionAnswered, dialled, service
<1>2. ~session /\ posts = <<>>
  BY <1>1 DEF ActInv, PostsPart, PostsInv
<1>3. documentFrom' = documentFrom
  BY <1>1 DEF documentFrom
<1>4. ~missed' => Agrees(held', documentFrom')
  BY <1>1, <1>3 DEF AnswerInv, Agrees
<1>5. missed' \in BOOLEAN
  BY <1>1
<1>6. IsSeq(posts') /\ DOMAIN posts' = {}
  BY <1>1, <1>2, NoneSeq, SeqDomain
<1>7. PostsAreSound' /\ PostsInv'
  BY <1>1, <1>2, <1>5, <1>6 DEF PostsAreSound, PostsInv
<1>8. LastPost'
  BY <1>1, <1>4, <1>6 DEF LastPost, InTurn, Untaken
<1> QED BY <1>7, <1>8 DEF PostsPart

\* What is posted is the page as it stands.
LEMMA PostsFired ==
  ASSUME PostsPart, LandInv, TimerFires
  PROVE  PostsPart'
<1> DEFINE new == [doc |-> documentFrom, ticket |-> ticket, taken |-> FALSE]
<1>1. /\ UNCHANGED <<session, missed, posted, dials, held, email, position, boundary>>
      /\ timer' = FALSE /\ posts' = Append(posts, new)
  BY DEF TimerFires, land, dialled, claim, service
<1>2. session /\ IsSeq(posts)
  BY DEF TimerFires, PostsPart, PostsInv
<1>3. /\ new.doc = documentFrom /\ documentFrom' = documentFrom
      /\ DOMAIN new = {"doc", "ticket", "taken"} /\ new.taken = FALSE
  BY <1>1 DEF documentFrom
<1>4. new.doc.land \in Positions => new.doc.land = new.doc.at
  BY DEF LandInv, documentFrom
<1> HIDE DEF new
<1>5. /\ IsSeq(posts') /\ Len(posts') = Len(posts) + 1
      /\ posts'[Len(posts) + 1] = new
      /\ \A i \in 1..Len(posts) : posts'[i] = posts[i]
  BY <1>1, <1>2, AppendSeq
<1>6. /\ Len(posts) \in Nat /\ DOMAIN posts = 1..Len(posts)
      /\ DOMAIN posts' = 1..Len(posts) + 1
      /\ posts' # <<>>
  BY <1>2, <1>5, SeqDomain
<1>7. PostsAreSound'
  <2> SUFFICES ASSUME NEW i \in DOMAIN posts', posts'[i].doc.land \in Positions
               PROVE  posts'[i].doc.land = posts'[i].doc.at
    BY DEF PostsAreSound
  <2>1. CASE i = Len(posts) + 1
    BY <2>1, <1>5, <1>4
  <2>2. CASE i \in DOMAIN posts
    BY <2>2, <1>5, <1>6 DEF PostsPart, PostsAreSound
  <2> QED BY <2>1, <2>2, <1>6
<1>8. \A i \in DOMAIN posts' : IF i = Len(posts) + 1 THEN posts'[i] = new
                                                    ELSE i \in DOMAIN posts /\ posts'[i] = posts[i]
  BY <1>5, <1>6
<1>9. PostsInv'
  BY <1>1, <1>2, <1>3, <1>5, <1>8 DEF PostsPart, PostsInv
<1>10. LastPost'
  <2> SUFFICES ASSUME ~missed' PROVE InTurn' /\ Untaken' # {} /\ posts'[Len(posts')].doc = documentFrom'
    BY DEF LastPost
  <2>1. InTurn
    BY <1>1, <1>2 DEF PostsPart, LastPost
  <2>2. ASSUME NEW k \in DOMAIN posts', posts'[k].taken, NEW j \in 1..k - 1 PROVE posts'[j].taken
    <3>1. k \in 1..Len(posts) /\ posts[k].taken
      BY <2>2, <1>3, <1>6, <1>8
    <3>2. j \in 1..Len(posts) /\ posts[j].taken
      BY <3>1, <2>1, <1>6 DEF InTurn
    <3> QED BY <3>2, <1>5
  <2>3. Len(posts) + 1 \in Untaken'
    BY <1>3, <1>5, <1>6 DEF Untaken
  <2> QED BY <2>2, <2>3, <1>3, <1>5 DEF InTurn
<1> QED BY <1>7, <1>9, <1>10 DEF PostsPart

\* What stays in flight when a post leaves it.
LEMMA PostLeaves ==
  ASSUME PostsPart, ActInv, NEW i \in DOMAIN posts, Leaves(i)
  PROVE  /\ session = TRUE
         /\ UNCHANGED <<session, timer, posted, dials, email, position, boundary>>
         /\ IsSeq(posts') /\ Len(posts) \in Nat \ {0} /\ i \in 1..Len(posts)
         /\ Len(posts') = Len(posts) - 1 /\ DOMAIN posts' = 1..Len(posts) - 1
         /\ DOMAIN posts = 1..Len(posts)
         /\ \A j \in DOMAIN posts' : posts'[j] = IF j < i THEN posts[j] ELSE posts[j + 1]
         /\ PostsAreSound'
         /\ \A j \in DOMAIN posts' : DOMAIN posts'[j] = {"doc", "ticket", "taken"}
                                    /\ posts'[j].taken \in BOOLEAN
<1>1. IsSeq(posts) /\ posts' = RemoveAt(posts, i)
  BY DEF PostsPart, PostsInv, Leaves
<1>2. Len(posts) \in Nat \ {0} /\ i \in 1..Len(posts) /\ DOMAIN posts = 1..Len(posts)
  BY <1>1, SeqDomain
<1>3. /\ IsSeq(posts') /\ Len(posts') = Len(posts) - 1
      /\ \A j \in 1..Len(posts) - 1 : posts'[j] = IF j < i THEN posts[j] ELSE posts[j + 1]
  BY <1>1, RemoveSeq
<1>4. DOMAIN posts' = 1..Len(posts) - 1 /\ (posts' = <<>> <=> Len(posts') = 0)
  BY <1>3, SeqDomain
<1>5. posts # <<>>
  BY <1>1, <1>2, SeqDomain
<1>6. session = TRUE
  BY <1>5 DEF PostsPart, PostsInv, ActInv
<1>7. UNCHANGED <<session, timer, posted, dials, email, position, boundary>>
  BY DEF Leaves, land, dialled, claim
<1>8. \A j \in DOMAIN posts' : \E k \in DOMAIN posts : posts'[j] = posts[k]
  <2> SUFFICES ASSUME NEW j \in DOMAIN posts' PROVE \E k \in DOMAIN posts : posts'[j] = posts[k]
    OBVIOUS
  <2>1. j \in DOMAIN posts /\ j + 1 \in DOMAIN posts
    BY <1>2, <1>4
  <2> QED BY <2>1, <1>3, <1>4
<1>9. PostsAreSound'
  <2> SUFFICES ASSUME NEW j \in DOMAIN posts', posts'[j].doc.land \in Positions
               PROVE  posts'[j].doc.land = posts'[j].doc.at
    BY DEF PostsAreSound
  <2>1. PICK k \in DOMAIN posts : posts'[j] = posts[k]
    BY <1>8
  <2> QED BY <2>1 DEF PostsPart, PostsAreSound
<1>10. \A j \in DOMAIN posts' : DOMAIN posts'[j] = {"doc", "ticket", "taken"}
                                /\ posts'[j].taken \in BOOLEAN
  BY <1>8 DEF PostsPart, PostsInv
<1> QED BY <1>2, <1>3, <1>4, <1>6, <1>7, <1>9, <1>10

\* A post that is lost or refused is missed.
LEMMA PostsLost ==
  ASSUME PostsPart, ActInv, NEW i \in DOMAIN posts, Leaves(i), missed' = TRUE
  PROVE  PostsPart'
<1>1. session' = TRUE /\ timer' = timer /\ posted' = posted /\ dials' = dials /\ session = TRUE
      /\ IsSeq(posts') /\ PostsAreSound'
      /\ \A j \in DOMAIN posts' : DOMAIN posts'[j] = {"doc", "ticket", "taken"}
                                 /\ posts'[j].taken \in BOOLEAN
  BY PostLeaves
<1> QED BY <1>1 DEF PostsPart, PostsInv, LastPost

\* While re-posts are taken in turn, the last is the one that is not taken.
LEMMA LastIsUntaken ==
  ASSUME PostsInv, InTurn, Untaken # {}
  PROVE  Len(posts) \in Untaken
<1>1. Len(posts) \in Nat /\ DOMAIN posts = 1..Len(posts)
  BY SeqDomain DEF PostsInv
<1>2. PICK i \in DOMAIN posts : ~posts[i].taken
  BY DEF Untaken
<1>3. i = Len(posts) \/ i \in 1..Len(posts) - 1
  BY <1>1, <1>2
<1>4. Len(posts) \in DOMAIN posts
  BY <1>1, <1>2
<1> QED BY <1>1, <1>2, <1>3, <1>4 DEF InTurn, Untaken

\* Hearing of a re-post that was taken leaves the others in turn, the last with them.
LEMMA PostsHeard ==
  ASSUME PostsPart, ActInv, NEW i \in DOMAIN posts, Leaves(i), posts[i].taken, missed' = missed
  PROVE  PostsPart'
<1>1. /\ session = TRUE /\ session' = TRUE
      /\ UNCHANGED <<timer, posted, dials, email, position, boundary>>
      /\ IsSeq(posts') /\ Len(posts) \in Nat \ {0} /\ i \in 1..Len(posts)
      /\ Len(posts') = Len(posts) - 1 /\ DOMAIN posts' = 1..Len(posts) - 1
      /\ DOMAIN posts = 1..Len(posts)
      /\ \A j \in DOMAIN posts' : posts'[j] = IF j < i THEN posts[j] ELSE posts[j + 1]
      /\ PostsAreSound'
      /\ \A j \in DOMAIN posts' : DOMAIN posts'[j] = {"doc", "ticket", "taken"}
                                 /\ posts'[j].taken \in BOOLEAN
  BY PostLeaves
<1>2. held' = held
  BY DEF Leaves, service
<1>3. documentFrom' = documentFrom
  BY <1>1 DEF documentFrom
<1>4. PostsInv'
  BY <1>1 DEF PostsPart, PostsInv
<1>5. LastPost'
  <2> SUFFICES ASSUME ~missed
               PROVE  /\ InTurn'
                      /\ ~timer => IF Untaken' = {} THEN Agrees(held, documentFrom)
                                   ELSE posts'[Len(posts')].doc = documentFrom
    BY <1>1, <1>2, <1>3 DEF LastPost, Agrees
  <2>1. InTurn
    BY <1>1 DEF PostsPart, LastPost
  <2>2. ASSUME NEW k \in DOMAIN posts', posts'[k].taken, NEW j \in 1..k - 1 PROVE posts'[j].taken
    <3>1. k \in 1..Len(posts) /\ k + 1 \in 1..Len(posts) /\ j \in DOMAIN posts'
      BY <1>1
    <3>2. CASE k < i
      <4>1. posts'[k] = posts[k] /\ posts'[j] = posts[j]
        BY <3>1, <3>2, <1>1
      <4> QED BY <4>1, <3>1, <2>1, <2>2, <1>1 DEF InTurn
    <3>3. CASE ~(k < i)
      <4>1. posts[k + 1].taken
        BY <3>3, <2>2, <1>1
      <4>2. \A l \in 1..k : posts[l].taken
        BY <4>1, <3>1, <2>1, <1>1 DEF InTurn
      <4>3. j \in 1..k /\ j + 1 \in 1..k
        BY <3>1, <1>1
      <4> QED BY <4>2, <4>3, <3>1, <1>1
    <3> QED BY <3>2, <3>3
  <2>3. CASE Untaken = {}
    <3>1. \A j \in DOMAIN posts' : posts'[j].taken
      <4> SUFFICES ASSUME NEW j \in DOMAIN posts' PROVE posts'[j].taken
        OBVIOUS
      <4>1. j \in DOMAIN posts /\ j + 1 \in DOMAIN posts
        BY <1>1
      <4> QED BY <4>1, <2>3, <1>1 DEF Untaken
    <3>2. Untaken' = {}
      BY <3>1 DEF Untaken
    <3>3. ~timer => Agrees(held, documentFrom)
      BY <2>3, <1>1 DEF PostsPart, LastPost
    <3> QED BY <3>2, <3>3, <2>2 DEF InTurn
  <2>4. CASE Untaken # {}
    <3>1. Len(posts) \in Untaken
      BY <2>1, <2>4, LastIsUntaken DEF PostsPart
    <3>2. i # Len(posts)
      BY <3>1 DEF Untaken
    <3>3. /\ Len(posts) - 1 \in DOMAIN posts' /\ ~(Len(posts) - 1 < i)
          /\ (Len(posts) - 1) + 1 = Len(posts)
      BY <3>2, <1>1
    <3>4. posts'[Len(posts')] = posts[Len(posts)]
      BY <3>3, <1>1
    <3>5. Untaken' # {}
      BY <3>1, <3>3, <3>4, <1>1 DEF Untaken
    <3>6. ~timer => posts[Len(posts)].doc = documentFrom
      BY <2>4, <1>1 DEF PostsPart, LastPost
    <3> QED BY <3>4, <3>5, <3>6, <2>2 DEF InTurn
  <2> QED BY <2>3, <2>4
<1> QED BY <1>1, <1>4, <1>5 DEF PostsPart

\* A re-post that is taken changes nothing else of what is in flight.
LEMMA PostIsMarked ==
  ASSUME PostsPart, ActInv, NEW i \in DOMAIN posts, PostTaken(i)
  PROVE  /\ session = TRUE /\ session' = TRUE
         /\ UNCHANGED <<timer, posted, dials, email, position, boundary>>
         /\ IsSeq(posts) /\ IsSeq(posts') /\ DOMAIN posts' = DOMAIN posts /\ Len(posts') = Len(posts)
         /\ posts'[i].taken /\ \A k \in DOMAIN posts : k # i => posts'[k] = posts[k]
         /\ \A k \in DOMAIN posts : /\ posts'[k].doc = posts[k].doc
                                     /\ DOMAIN posts'[k] = {"doc", "ticket", "taken"}
                                     /\ posts'[k].taken \in BOOLEAN
<1> DEFINE t == [posts[i] EXCEPT !.taken = TRUE]
<1>1. /\ posts' = [posts EXCEPT ![i] = t]
      /\ UNCHANGED <<session, timer, posted, dials, email, position, boundary>>
  BY DEF PostTaken, land, dialled, claim
<1>2. /\ IsSeq(posts)
      /\ \A k \in DOMAIN posts : DOMAIN posts[k] = {"doc", "ticket", "taken"} /\ posts[k].taken \in BOOLEAN
  BY DEF PostsPart, PostsInv
<1>3. DOMAIN t = {"doc", "ticket", "taken"} /\ t.taken = TRUE /\ t.doc = posts[i].doc
  BY <1>2
<1> HIDE DEF t
<1>4. Len(posts) \in Nat /\ DOMAIN posts = 1..Len(posts) /\ posts # <<>>
  BY <1>2, SeqDomain
<1>5. posts' \in Seq({posts[k] : k \in DOMAIN posts} \union {t}) /\ Len(posts') = Len(posts)
  BY <1>1, <1>2, <1>4 DEF IsSeq
<1>6. IsSeq(posts') /\ DOMAIN posts' = DOMAIN posts
  BY <1>5, <1>4, OwnSeq, SeqDomain
<1>7. \A k \in DOMAIN posts : posts'[k] = IF k = i THEN t ELSE posts[k]
  BY <1>1, <1>2, <1>4
<1>8. session = TRUE
  BY <1>4 DEF PostsPart, PostsInv, ActInv
<1> QED BY <1>1, <1>2, <1>3, <1>5, <1>6, <1>7, <1>8

\* The model takes the last re-post, or one that leaves the last to be taken.
LEMMA PostsTaken ==
  ASSUME PostsPart, ActInv, NEW i \in DOMAIN posts, PostTaken(i)
  PROVE  PostsPart'
<1>1. /\ session = TRUE /\ session' = TRUE
      /\ UNCHANGED <<timer, posted, dials, email, position, boundary>>
      /\ IsSeq(posts) /\ IsSeq(posts') /\ DOMAIN posts' = DOMAIN posts /\ Len(posts') = Len(posts)
      /\ posts'[i].taken /\ \A k \in DOMAIN posts : k # i => posts'[k] = posts[k]
      /\ \A k \in DOMAIN posts : /\ posts'[k].doc = posts[k].doc
                                  /\ DOMAIN posts'[k] = {"doc", "ticket", "taken"}
                                  /\ posts'[k].taken \in BOOLEAN
  BY PostIsMarked
<1>2. /\ held' = Over(held, posts[i].doc) /\ ~posts[i].taken
      /\ missed' = IF Untaken = {i} THEN missed /\ posts[i].doc # documentFrom
                   ELSE missed \/ \E j \in Untaken : j < i
  BY DEF PostTaken, Held, Untaken
<1>3. documentFrom' = documentFrom
  BY <1>1 DEF documentFrom
<1>4. Len(posts) \in Nat /\ DOMAIN posts = 1..Len(posts) /\ posts' # <<>>
  BY <1>1, SeqDomain
<1>5. missed' \in BOOLEAN
  BY <1>2 DEF PostsPart, PostsInv
<1>6. PostsInv' /\ PostsAreSound'
  BY <1>1, <1>5 DEF PostsPart, PostsInv, PostsAreSound
<1>7. Untaken' = Untaken \ {i}
  BY <1>1 DEF Untaken
<1>8. CASE Untaken = {i}
  <2>1. Untaken' = {}
    BY <1>7, <1>8
  <2>2. InTurn'
    BY <2>1, <1>1, <1>4 DEF InTurn, Untaken
  <2>3. Agrees(held', posts[i].doc)
    BY <1>2, OverAgrees
  <2>4. ~missed' /\ ~timer => posts[i].doc = documentFrom
    <3> SUFFICES ASSUME ~missed, ~timer PROVE posts[i].doc = documentFrom
      BY <1>2, <1>8
    <3>1. InTurn /\ posts[Len(posts)].doc = documentFrom
      BY <1>1, <1>8 DEF PostsPart, LastPost
    <3>2. Len(posts) = i
      BY <3>1, <1>8, LastIsUntaken DEF PostsPart
    <3> QED BY <3>1, <3>2
  <2>5. LastPost'
    BY <2>1, <2>2, <2>3, <2>4, <1>1, <1>3 DEF LastPost
  <2> QED BY <2>5, <1>6 DEF PostsPart
<1>9. CASE Untaken # {i}
  <2>1. missed' = (missed \/ \E j \in Untaken : j < i)
    BY <1>2, <1>9
  <2>2. i \in Untaken /\ Untaken' # {}
    BY <1>2, <1>7, <1>9 DEF Untaken
  <2>3. ASSUME ~missed' PROVE InTurn'
    <3>1. InTurn /\ \A j \in Untaken : ~(j < i)
      BY <2>1, <2>3, <1>1 DEF PostsPart, LastPost
    <3>2. SUFFICES ASSUME NEW k \in DOMAIN posts, posts'[k].taken, NEW j \in 1..k - 1 PROVE posts'[j].taken
      BY <1>1 DEF InTurn
    <3>3. j \in DOMAIN posts
      BY <1>4
    <3>4. posts[j].taken \/ j = i
      <4>1. CASE k = i
        <5>1. j < i
          BY <4>1, <1>4
        <5> QED BY <5>1, <3>1, <3>3 DEF Untaken
      <4>2. CASE k # i
        BY <4>2, <3>1, <3>2, <1>1 DEF InTurn
      <4> QED BY <4>1, <4>2
    <3> QED BY <3>3, <3>4, <1>1
  <2>4. ~missed' /\ ~timer => posts[Len(posts)].doc = documentFrom
    BY <2>1, <2>2, <1>1 DEF PostsPart, LastPost
  <2>5. posts'[Len(posts')].doc = posts[Len(posts)].doc
    BY <1>1, <1>4
  <2>6. LastPost'
    BY <2>2, <2>3, <2>4, <2>5, <1>1, <1>3 DEF LastPost
  <2> QED BY <2>6, <1>6 DEF PostsPart
<1> QED BY <1>8, <1>9

LEMMA PostsStep == IInv /\ [Next]_vars => PostsPart'
<1> SUFFICES ASSUME IInv, [Next]_vars PROVE PostsPart'
  OBVIOUS
<1>a. PostsPart /\ ActInv /\ AnswerInv /\ LandInv
  BY DEF IInv, PostsPart
<1>b. missed \in BOOLEAN
  BY <1>a DEF PostsPart, PostsInv
<1>1. ASSUME NEW p \in Positions, pick(p) PROVE PostsPart'
  <2>1. ~session /\ session' = session /\ timer' = timer /\ posts' = posts /\ missed' = missed
    BY <1>1 DEF pick, PinTo, report
  <2> QED BY <2>1, <1>a, <1>b, PostsBefore
<1>19. ASSUME NEW p \in Positions, DeviceAnswers(p) PROVE PostsPart'
  BY <1>19, <1>a, PostsMoved
<1>20. CASE useMyLocation \/ DeviceRefuses
  <2>1. UNCHANGED postsVars
    BY <1>20 DEF useMyLocation, DeviceRefuses, dialled, claim, report, service, postsVars
  <2> QED BY <2>1, <1>a, PostsKept
<1>2. ASSUME NEW p \in Positions, ParcelAnswers(p) PROVE PostsPart'
  <2>1. PICK b : Marked(b)
    BY <1>2 DEF ParcelAnswers
  <2> QED BY <2>1, <1>a, PostsMarked
<1>3. CASE Draw
  <2>1. PICK b : Marked(b)
    BY <1>3 DEF Draw
  <2> QED BY <2>1, <1>a, PostsMarked
<1>4. CASE OptionsAnswer \/ Turn
  <2>1. PICK d : Dialled(d)
    BY <1>4 DEF OptionsAnswer, Turn
  <2> QED BY <2>1, <1>a, PostsDialled
<1>5. CASE SwitchLanguage
  BY <1>5, <1>a, PostsSwitched
<1>6. ASSUME NEW a \in Addresses, EditEmail(a) PROVE PostsPart'
  <2>1. ~session /\ session' = session /\ timer' = timer /\ posts' = posts /\ missed' = missed
    BY <1>6 DEF EditEmail, report
  <2> QED BY <2>1, <1>a, <1>b, PostsBefore
<1>7. CASE TypeCode \/ askForCode \/ submit \/ resume
  <2>1. UNCHANGED postsVars
    BY <1>7 DEF TypeCode, askForCode, submit, resume, Begins, report, land, dialled, service, postsVars
  <2> QED BY <2>1, <1>a, PostsKept
<1>8. CASE CodeIsSent \/ AskFails
  <2>1. UNCHANGED postsVars
    BY <1>8 DEF CodeIsSent, AskFails, Asked, Mailed, report, land, dialled, service, postsVars
  <2> QED BY <2>1, <1>a, PostsKept
<1>9. CASE ExchangeForSubmit \/ ExchangeForResume \/ ExchangeFails
  <2>1. UNCHANGED postsVars
    BY <1>9 DEF ExchangeForSubmit, ExchangeForResume, ExchangeFails, Exchanges, Spent, report, land,
                dialled, service, postsVars
  <2> QED BY <2>1, <1>a, PostsKept
<1>10. CASE SubmissionAnswered
  BY <1>10, <1>a, PostsOpened
<1>11. CASE SubmissionIsTaken \/ SubmissionFails
  <2>1. ~session /\ session' = session /\ timer' = timer /\ posts' = posts /\ missed' = missed
    BY <1>11, <1>a DEF SubmissionIsTaken, SubmissionFails, report, ActInv
  <2> QED BY <2>1, <1>a, <1>b, PostsBefore
<1>12. CASE TimerFires
  BY <1>12, <1>a, PostsFired
<1>13. CASE TicketAges \/ poll \/ onRefresh
  <2>1. UNCHANGED postsVars
    BY <1>13 DEF TicketAges, poll, onRefresh, report, land, dialled, claim, service, postsVars
  <2> QED BY <2>1, <1>a, PostsKept
<1>14. ASSUME NEW i \in DOMAIN posts, PostTaken(i) PROVE PostsPart'
  BY <1>14, <1>a, PostsTaken
<1>15. ASSUME NEW i \in DOMAIN posts, PostAnswered(i) \/ PostRefused(i) PROVE PostsPart'
  <2>1. Leaves(i) /\ ((posts[i].taken /\ missed' = missed) \/ missed' = TRUE)
    BY <1>15 DEF PostAnswered, PostRefused
  <2> QED BY <2>1, <1>a, PostsHeard, PostsLost
<1>16. ASSUME NEW i \in DOMAIN posts, PostFails(i) PROVE PostsPart'
  <2>1. Leaves(i) /\ missed' = (missed \/ ~posts[i].taken)
    BY <1>16 DEF PostFails
  <2>2. (posts[i].taken /\ missed' = missed) \/ missed' = TRUE
    BY <2>1, <1>b
  <2> QED BY <2>1, <2>2, <1>a, PostsHeard, PostsLost
<1>17. ASSUME NEW i \in DOMAIN reads, ReadServed(i) \/ ReadAnswered(i) \/ ReadFails(i) PROVE PostsPart'
  <2>1. UNCHANGED postsVars
    BY <1>17 DEF ReadServed, ReadAnswered, ReadFails, Returns, report, land, dialled, claim, service,
                 postsVars
  <2> QED BY <2>1, <1>a, PostsKept
<1>18. CASE UNCHANGED vars
  <2>1. UNCHANGED postsVars
    BY <1>18 DEF vars, report, land, dialled, claim, service, postsVars
  <2> QED BY <2>1, <1>a, PostsKept
<1> QED
  BY <1>1, <1>2, <1>3, <1>4, <1>5, <1>6, <1>7, <1>8, <1>9, <1>10, <1>11, <1>12, <1>13, <1>14, <1>15,
     <1>16, <1>17, <1>18, <1>19, <1>20 DEF Next

-----------------------------------------------------------------------------
ReadsPart == ReadsInv /\ LastRead

Tells(r) == "of" \in DOMAIN r /\ r.of \in {"asked", "is", "was"}

readsVars == <<session, stale, reads, findings>>

LEMMA ReadsKept ==
  ASSUME ReadsPart, UNCHANGED readsVars, NoneToHear' => NoneToHear
  PROVE  ReadsPart'
BY DEF ReadsPart, ReadsInv, LastRead, readsVars

LEMMA SamePosts == UNCHANGED posts => NoneToHear' = NoneToHear
BY DEF NoneToHear, Untaken

\* A re-post that leaves untaken leaves what there is to hear of as it was.
LEMMA UntakenLeaves ==
  ASSUME PostsPart, ActInv, NEW i \in DOMAIN posts, Leaves(i), ~posts[i].taken, NoneToHear'
  PROVE  NoneToHear
<1>1. /\ Len(posts) \in Nat \ {0} /\ i \in 1..Len(posts) /\ DOMAIN posts = 1..Len(posts)
      /\ DOMAIN posts' = 1..Len(posts) - 1
      /\ \A j \in DOMAIN posts' : posts'[j] = IF j < i THEN posts[j] ELSE posts[j + 1]
  BY PostLeaves
<1>2. \A j \in DOMAIN posts' : ~posts'[j].taken
  BY DEF NoneToHear, Untaken
<1>3. \A k \in DOMAIN posts : ~posts[k].taken
  <2> SUFFICES ASSUME NEW k \in DOMAIN posts PROVE ~posts[k].taken
    OBVIOUS
  <2>1. CASE k = i
    BY <2>1
  <2>2. CASE k < i
    <3>1. k \in DOMAIN posts' /\ posts'[k] = posts[k]
      BY <2>2, <1>1
    <3> QED BY <3>1, <1>2
  <2>3. CASE i < k
    <3>1. k - 1 \in DOMAIN posts' /\ ~(k - 1 < i) /\ (k - 1) + 1 = k
      BY <2>3, <1>1
    <3>2. posts'[k - 1] = posts[k]
      BY <3>1, <1>1
    <3> QED BY <3>1, <3>2, <1>2
  <2> QED BY <2>1, <2>2, <2>3, <1>1
<1> QED BY <1>3 DEF NoneToHear, Untaken

LEMMA ReadTells ==
  ASSUME NEW t, NEW own
  PROVE  Tells(Reading(t, own)) /\ Reading(t, own).of = "asked"
BY DEF Tells, Reading

\* A read that leaves is one that has not been served.
LEMMA ReadLeaves ==
  ASSUME ReadsInv, NEW t, NEW own
  PROVE  LET queue == WithRead(t, own)
         IN  /\ IsSeq(queue) /\ queue # <<>>
             /\ \A i \in DOMAIN queue : Tells(queue[i])
             /\ queue[Len(queue)].of = "asked"
<1> DEFINE r == Reading(t, own)
           queue == WithRead(t, own)
<1>1. queue = Append(reads, r) /\ IsSeq(reads)
  BY DEF WithRead, ReadsInv
<1>2. Tells(r) /\ r.of = "asked"
  BY ReadTells
<1>3. \A i \in DOMAIN reads : Tells(reads[i])
  BY DEF ReadsInv, Tells
<1> HIDE DEF r, queue
<1>4. /\ IsSeq(queue) /\ Len(queue) = Len(reads) + 1
      /\ queue[Len(reads) + 1] = r
      /\ \A i \in 1..Len(reads) : queue[i] = reads[i]
  BY <1>1, AppendSeq
<1>5. /\ Len(reads) \in Nat /\ DOMAIN reads = 1..Len(reads)
      /\ DOMAIN queue = 1..Len(reads) + 1 /\ queue # <<>>
  BY <1>1, <1>4, SeqDomain
<1>6. \A i \in DOMAIN queue : Tells(queue[i])
  <2> SUFFICES ASSUME NEW i \in DOMAIN queue PROVE Tells(queue[i])
    OBVIOUS
  <2>1. CASE i = Len(reads) + 1
    BY <2>1, <1>2, <1>4
  <2>2. CASE i \in DOMAIN reads
    BY <2>2, <1>3, <1>4, <1>5
  <2> QED BY <2>1, <2>2, <1>5
<1>7. queue[Len(queue)].of = "asked"
  BY <1>2, <1>4
<1> QED BY <1>4, <1>5, <1>6, <1>7 DEF queue

LEMMA ReadsAsked ==
  ASSUME ReadsPart, session' = TRUE, stale' = stale, NEW t, NEW own, readFindings(t, own)
  PROVE  ReadsPart'
<1>1. /\ IsSeq(reads') /\ reads' # <<>>
      /\ \A i \in DOMAIN reads' : Tells(reads'[i])
      /\ reads'[Len(reads')].of = "asked"
  BY ReadLeaves DEF readFindings, ReadsPart
<1> QED BY <1>1 DEF ReadsPart, ReadsInv, LastRead, Tells

\* A read stays in flight when the model changes, and tells of the model as it was if it told anything.
LEMMA HeldReads ==
  ASSUME NEW h, NEW queue, IsSeq(queue), \A i \in DOMAIN queue : Tells(queue[i]), Held(h, queue)
  PROVE  /\ IsSeq(reads') /\ \A i \in DOMAIN reads' : Tells(reads'[i])
         /\ queue = <<>> => reads' = <<>>
<1> DEFINE at(i) == [queue[i] EXCEPT !.of = Older(@, h)]
<1>1. reads' = [i \in DOMAIN queue |-> at(i)]
  BY DEF Held
<1>2. \A i \in DOMAIN queue : Tells(at(i)) /\ at(i).of = Older(queue[i].of, h)
  <2> SUFFICES ASSUME NEW i \in DOMAIN queue
               PROVE  Tells(at(i)) /\ at(i).of = Older(queue[i].of, h)
    OBVIOUS
  <2>1. "of" \in DOMAIN queue[i] /\ queue[i].of \in {"asked", "is", "was"}
    BY DEF Tells
  <2>2. Older(queue[i].of, h) \in {"asked", "is", "was"}
    BY <2>1 DEF Older
  <2>3. at(i) = [f \in DOMAIN queue[i] |-> IF f = "of" THEN Older(queue[i].of, h) ELSE queue[i][f]]
    BY <2>1
  <2>4. DOMAIN at(i) = DOMAIN queue[i] /\ at(i)["of"] = Older(queue[i].of, h)
    BY <2>1, <2>3
  <2> QED BY <2>1, <2>2, <2>4 DEF Tells
<1> HIDE DEF at
<1>3. Len(queue) \in Nat /\ DOMAIN queue = 1..Len(queue) /\ (queue = <<>> <=> Len(queue) = 0)
  BY SeqDomain
<1>4. reads' \in Seq({at(i) : i \in DOMAIN queue}) /\ Len(reads') = Len(queue)
  BY <1>1, <1>3
<1>5. IsSeq(reads')
  BY <1>4, OwnSeq
<1>6. reads' = <<>> <=> Len(reads') = 0
  BY <1>5, SeqDomain
<1> QED BY <1>1, <1>2, <1>3, <1>4, <1>5, <1>6

\* What stays in flight when a read comes back.
LEMMA ReadReturns ==
  ASSUME ReadsPart, ActInv, NEW i \in DOMAIN reads, Returns(i)
  PROVE  /\ session = TRUE /\ session' = TRUE
         /\ IsSeq(reads') /\ Len(reads) \in Nat \ {0} /\ i \in 1..Len(reads)
         /\ \A j \in DOMAIN reads' : Tells(reads'[j])
         /\ reads' = <<>> <=> Len(reads) = 1
         /\ i < Len(reads) => reads'[Len(reads')] = reads[Len(reads)]
<1>1. IsSeq(reads) /\ reads' = RemoveAt(reads, i)
  BY DEF ReadsPart, ReadsInv, Returns
<1>2. Len(reads) \in Nat \ {0} /\ i \in 1..Len(reads) /\ DOMAIN reads = 1..Len(reads) /\ reads # <<>>
  BY <1>1, SeqDomain
<1>3. /\ IsSeq(reads') /\ Len(reads') = Len(reads) - 1
      /\ \A j \in 1..Len(reads) - 1 : reads'[j] = IF j < i THEN reads[j] ELSE reads[j + 1]
  BY <1>1, RemoveSeq
<1>4. DOMAIN reads' = 1..Len(reads) - 1 /\ (reads' = <<>> <=> Len(reads') = 0)
  BY <1>3, SeqDomain
<1>5. session = TRUE
  BY <1>2 DEF ReadsPart, ReadsInv, ActInv
<1>6. session' = session
  BY DEF Returns
<1>7. i < Len(reads) => reads'[Len(reads')] = reads[Len(reads)]
  <2> SUFFICES ASSUME i < Len(reads) PROVE reads'[Len(reads')] = reads[Len(reads)]
    OBVIOUS
  <2>1. Len(reads) - 1 \in 1..Len(reads) - 1 /\ ~(Len(reads) - 1 < i)
    BY <1>2
  <2>2. (Len(reads) - 1) + 1 = Len(reads)
    BY <1>2
  <2> QED BY <2>1, <2>2, <1>2, <1>3
<1>8. \A j \in DOMAIN reads' : Tells(reads'[j])
  <2> SUFFICES ASSUME NEW j \in DOMAIN reads' PROVE Tells(reads'[j])
    OBVIOUS
  <2>1. PICK k \in DOMAIN reads : reads'[j] = reads[k]
    <3>1. j \in DOMAIN reads /\ j + 1 \in DOMAIN reads
      BY <1>2, <1>4
    <3> QED BY <3>1, <1>3, <1>4
  <2> QED BY <2>1 DEF ReadsPart, ReadsInv, Tells
<1>9. reads' = <<>> <=> Len(reads) = 1
  BY <1>2, <1>3, <1>4
<1> QED BY <1>2, <1>3, <1>5, <1>6, <1>7, <1>8, <1>9

LEMMA ReadsAnswered ==
  ASSUME ReadsPart, ActInv, NEW i \in DOMAIN reads, ReadAnswered(i)
  PROVE  ReadsPart'
<1>1. Returns(i) /\ reads[i].of # "asked" /\ findings' = reads[i].of
  BY DEF ReadAnswered
<1>c. NoneToHear' = NoneToHear
  BY <1>1, SamePosts DEF Returns
<1>2. stale' = IF Len(reads) = 1 THEN stale /\ reads[i].of = "was" ELSE stale \/ i > 1
  BY DEF ReadAnswered
<1>3. /\ session = TRUE /\ session' = TRUE
      /\ IsSeq(reads') /\ Len(reads) \in Nat \ {0} /\ i \in 1..Len(reads)
      /\ \A j \in DOMAIN reads' : Tells(reads'[j])
      /\ reads' = <<>> <=> Len(reads) = 1
      /\ i < Len(reads) => reads'[Len(reads')] = reads[Len(reads)]
  BY <1>1, ReadReturns
<1>b. i \in 1..Len(reads) /\ Len(reads) \in Nat \ {0}
  BY <1>3
<1>4. reads # <<>> /\ reads[i].of \in {"is", "was"}
  BY <1>1, <1>3, SeqDomain DEF ReadsPart, ReadsInv
<1>5. stale' \in BOOLEAN
  BY <1>2 DEF ReadsPart, ReadsInv
<1>6. ReadsInv'
  BY <1>3, <1>5 DEF ReadsInv, Tells
<1>7. CASE Len(reads) = 1
  <2>1. i = 1 /\ reads' = <<>>
    BY <1>3, <1>7
  <2>2. stale' = (stale /\ reads[i].of = "was")
    BY <1>2, <1>7
  <2>3. ~stale /\ NoneToHear => reads[i].of # "was"
    BY <2>1, <1>3, <1>4, <1>7 DEF ReadsPart, LastRead
  <2>4. ~stale' /\ NoneToHear' => findings' = "is"
    BY <2>2, <2>3, <1>1, <1>4, <1>c
  <2>5. LastRead'
    BY <2>1, <2>4 DEF LastRead
  <2> QED BY <2>5, <1>6 DEF ReadsPart
<1>8. CASE Len(reads) # 1
  <2>1. stale' = (stale \/ i > 1)
    BY <1>2, <1>8
  <2>2. i \in Nat /\ Len(reads) \in Nat /\ 1 <= i /\ 1 < Len(reads)
    BY <1>b, <1>8
  <2>3. ~(i > 1) => i < Len(reads)
    BY <2>2
  <2>4. ~stale' => ~stale /\ i < Len(reads)
    BY <2>1, <2>3
  <2>5. reads' # <<>>
    BY <1>3, <1>8
  <2>6. LastRead'
    BY <2>4, <2>5, <1>3, <1>4, <1>c DEF ReadsPart, LastRead
  <2> QED BY <2>6, <1>6 DEF ReadsPart
<1> QED BY <1>7, <1>8

LEMMA ReadsServed ==
  ASSUME ReadsPart, NEW i \in DOMAIN reads, ReadServed(i)
  PROVE  ReadsPart'
<1>1. /\ UNCHANGED <<session, stale, findings>> /\ NoneToHear' = NoneToHear
      /\ reads' = [reads EXCEPT ![i] = [reads[i] EXCEPT !.of = "is"]]
  BY SamePosts DEF ReadServed, report
<1> DEFINE r == [reads[i] EXCEPT !.of = "is"]
<1>2. IsSeq(reads) /\ "of" \in DOMAIN reads[i]
  BY DEF ReadsPart, ReadsInv
<1>3. r.of = "is" /\ Tells(r)
  BY <1>2 DEF Tells
<1> HIDE DEF r
<1>4. Len(reads) \in Nat /\ DOMAIN reads = 1..Len(reads)
  BY <1>2, SeqDomain
<1>a. reads' = [reads EXCEPT ![i] = r]
  BY <1>1 DEF r
<1>5. reads' \in Seq({reads[j] : j \in DOMAIN reads} \union {r}) /\ Len(reads') = Len(reads)
  BY <1>a, <1>2, <1>4 DEF IsSeq
<1>6. IsSeq(reads') /\ DOMAIN reads' = DOMAIN reads
  BY <1>5, <1>4, OwnSeq, SeqDomain
<1>7. \A j \in DOMAIN reads : reads'[j] = IF j = i THEN r ELSE reads[j]
  BY <1>a, <1>4, <1>2
<1>8. reads # <<>> /\ reads' # <<>> /\ Len(reads) \in DOMAIN reads
  BY <1>2, <1>4, <1>5, <1>6, SeqDomain
<1>9. ReadsInv'
  BY <1>1, <1>3, <1>6, <1>7, <1>8 DEF ReadsPart, ReadsInv, Tells
<1>10. reads'[Len(reads')].of = "is" \/ reads'[Len(reads')] = reads[Len(reads)]
  BY <1>3, <1>5, <1>7, <1>8
<1>11. LastRead'
  BY <1>1, <1>8, <1>10 DEF ReadsPart, LastRead
<1> QED BY <1>9, <1>11 DEF ReadsPart

LEMMA ReadsStep == IInv /\ [Next]_vars => ReadsPart'
<1> SUFFICES ASSUME IInv, [Next]_vars PROVE ReadsPart'
  OBVIOUS
<1>a. ReadsPart /\ ActInv /\ PostsPart
  BY DEF IInv, ReadsPart, PostsPart
<1>b. ReadsInv /\ \A i \in DOMAIN reads : Tells(reads[i])
  BY <1>a DEF ReadsPart, ReadsInv, Tells
<1>c. UNCHANGED readsVars /\ UNCHANGED posts => ReadsPart'
  BY <1>a, ReadsKept, SamePosts
<1>1. ASSUME NEW p \in Positions, pick(p) \/ DeviceAnswers(p) \/ ParcelAnswers(p) PROVE ReadsPart'
  <2>1. UNCHANGED readsVars /\ UNCHANGED posts
    BY <1>1 DEF pick, DeviceAnswers, PinTo, ParcelAnswers, Marked, report, readsVars
  <2> QED BY <2>1, <1>c
<1>2. CASE useMyLocation \/ DeviceRefuses \/ Draw \/ OptionsAnswer \/ Turn \/ SwitchLanguage
  <2>1. UNCHANGED readsVars /\ UNCHANGED posts
    BY <1>2 DEF useMyLocation, DeviceRefuses, Draw, Marked, OptionsAnswer, Turn, Dialled, SwitchLanguage,
                report, readsVars
  <2> QED BY <2>1, <1>c
<1>3. ASSUME NEW a \in Addresses, EditEmail(a) PROVE ReadsPart'
  <2>1. UNCHANGED readsVars /\ UNCHANGED posts
    BY <1>3 DEF EditEmail, report, readsVars
  <2> QED BY <2>1, <1>c
<1>4. CASE TypeCode \/ askForCode \/ submit \/ resume
  <2>1. UNCHANGED readsVars /\ UNCHANGED posts
    BY <1>4 DEF TypeCode, askForCode, submit, resume, Begins, report, readsVars
  <2> QED BY <2>1, <1>c
<1>5. CASE CodeIsSent \/ AskFails
  <2>1. UNCHANGED readsVars /\ UNCHANGED posts
    BY <1>5 DEF CodeIsSent, AskFails, Asked, report, readsVars
  <2> QED BY <2>1, <1>c
<1>6. CASE ExchangeForSubmit \/ ExchangeFails \/ SubmissionFails
  <2>1. UNCHANGED readsVars /\ UNCHANGED posts
    BY <1>6 DEF ExchangeForSubmit, ExchangeFails, Exchanges, SubmissionFails, report, readsVars
  <2> QED BY <2>1, <1>c
<1>7. CASE ExchangeForResume
  <2>1. session' = TRUE /\ stale' = stale /\ readFindings(ticket', TRUE)
    BY <1>7, <1>a DEF ExchangeForResume, Exchanges, report, ActInv
  <2> QED BY <2>1, <1>a, ReadsAsked
<1>8. CASE SubmissionAnswered
  <2>1. session' = TRUE /\ stale' = stale /\ readFindings(ticket', TRUE)
    BY <1>8 DEF SubmissionAnswered
  <2> QED BY <2>1, <1>a, ReadsAsked
<1>9. CASE SubmissionIsTaken
  <2>1. Held(Over(held, act.doc), reads)
    BY <1>9 DEF SubmissionIsTaken
  <2>2. session = FALSE /\ session' = FALSE /\ stale' = stale
    BY <1>9, <1>a DEF SubmissionIsTaken, ActInv
  <2>3. reads = <<>> /\ IsSeq(reads)
    BY <2>2, <1>b DEF ReadsInv
  <2>4. reads' = <<>> /\ IsSeq(reads') /\ \A i \in DOMAIN reads' : Tells(reads'[i])
    BY <2>1, <2>3, <1>b, HeldReads
  <2> QED BY <2>2, <2>4, <1>b DEF ReadsPart, ReadsInv, LastRead, Tells
<1>10. CASE TicketAges
  <2>1. UNCHANGED readsVars /\ UNCHANGED posts
    BY <1>10 DEF TicketAges, report, readsVars
  <2> QED BY <2>1, <1>c
<1>11. CASE poll \/ onRefresh
  <2>1. session' = TRUE /\ stale' = stale /\ readFindings(ticket, FALSE)
    BY <1>11, <1>a DEF poll, onRefresh, report, ActInv
  <2> QED BY <2>1, <1>a, ReadsAsked
<1>12. ASSUME NEW i \in DOMAIN posts, PostAnswered(i) PROVE ReadsPart'
  <2>1. session' = TRUE
    BY <1>12, <1>a, PostLeaves DEF PostAnswered
  <2>2. stale' = stale /\ readFindings(ticket', FALSE)
    BY <1>12 DEF PostAnswered
  <2> QED BY <2>1, <2>2, <1>a, ReadsAsked
<1>13. ASSUME NEW i \in DOMAIN posts, PostRefused(i) PROVE ReadsPart'
  <2>1. UNCHANGED readsVars /\ Leaves(i) /\ ~posts[i].taken
    BY <1>13 DEF PostRefused, Leaves, readsVars
  <2> QED BY <2>1, <1>a, ReadsKept, UntakenLeaves
<1>14. ASSUME NEW i \in DOMAIN posts, PostFails(i) PROVE ReadsPart'
  <2>1. /\ session = TRUE /\ session' = TRUE /\ UNCHANGED <<reads, findings>>
        /\ Leaves(i) /\ stale' = (stale \/ posts[i].taken)
    BY <1>14, <1>a, PostLeaves DEF PostFails, Leaves
  <2>2. CASE posts[i].taken
    <3>1. stale' = TRUE
      BY <2>1, <2>2
    <3> QED BY <3>1, <2>1, <1>b DEF ReadsPart, ReadsInv, LastRead
  <2>3. CASE ~posts[i].taken
    <3>1. stale' = stale
      BY <2>1, <2>3, <1>b DEF ReadsInv
    <3> QED BY <3>1, <2>1, <2>3, <1>a, ReadsKept, UntakenLeaves DEF readsVars
  <2> QED BY <2>2, <2>3
<1>19. ASSUME NEW i \in DOMAIN posts, PostTaken(i) PROVE ReadsPart'
  <2>1. /\ session' = TRUE /\ stale' = stale /\ Held(Over(held, posts[i].doc), reads)
        /\ i \in DOMAIN posts' /\ posts'[i].taken
    BY <1>19, <1>a, PostIsMarked DEF PostTaken
  <2>2. IsSeq(reads') /\ \A j \in DOMAIN reads' : Tells(reads'[j])
    BY <2>1, <1>b, HeldReads DEF ReadsInv
  <2>3. ~NoneToHear'
    BY <2>1 DEF NoneToHear, Untaken
  <2> QED BY <2>1, <2>2, <2>3, <1>b DEF ReadsPart, ReadsInv, LastRead, Tells
<1>20. CASE TimerFires
  <2>1. UNCHANGED readsVars /\ posts' = Append(posts, [doc |-> documentFrom, ticket |-> ticket, taken |-> FALSE])
    BY <1>20 DEF TimerFires, readsVars
  <2>2. IsSeq(posts)
    BY <1>a DEF PostsPart, PostsInv
  <2>3. /\ DOMAIN posts = 1..Len(posts) /\ Len(posts) \in Nat
        /\ IsSeq(posts') /\ Len(posts') = Len(posts) + 1
        /\ \A k \in 1..Len(posts) : posts'[k] = posts[k]
    BY <2>1, <2>2, SeqDomain, AppendSeq
  <2>4. DOMAIN posts' = 1..Len(posts) + 1
    BY <2>3, SeqDomain
  <2>5. NoneToHear' => NoneToHear
    BY <2>3, <2>4 DEF NoneToHear, Untaken
  <2> QED BY <2>1, <2>5, <1>a, ReadsKept
<1>15. ASSUME NEW i \in DOMAIN reads, ReadServed(i) PROVE ReadsPart'
  BY <1>15, <1>a, ReadsServed
<1>16. ASSUME NEW i \in DOMAIN reads, ReadAnswered(i) PROVE ReadsPart'
  BY <1>16, <1>a, ReadsAnswered
<1>17. ASSUME NEW i \in DOMAIN reads, ReadFails(i) PROVE ReadsPart'
  <2>1. session' = TRUE /\ IsSeq(reads') /\ \A j \in DOMAIN reads' : Tells(reads'[j])
    BY <1>17, <1>a, ReadReturns DEF ReadFails
  <2>2. stale' = TRUE
    BY <1>17 DEF ReadFails
  <2> QED BY <2>1, <2>2 DEF ReadsPart, ReadsInv, LastRead, Tells
<1>18. CASE UNCHANGED vars
  <2>1. UNCHANGED readsVars /\ UNCHANGED posts
    BY <1>18 DEF vars, report, readsVars
  <2> QED BY <2>1, <1>c
<1> QED
  BY <1>1, <1>2, <1>3, <1>4, <1>5, <1>6, <1>7, <1>8, <1>9, <1>10, <1>11, <1>12, <1>13, <1>14, <1>15,
     <1>16, <1>17, <1>18, <1>19, <1>20 DEF Next

-----------------------------------------------------------------------------
THEOREM Inductive == Spec => []IInv
<1>1. Init => IInv
  BY InitIInv
<1>2. IInv /\ [Next]_vars => IInv'
  BY ActStep, AnswerStep, LandStep, PostsStep, ReadsStep DEF IInv, PostsPart, ReadsPart
<1> QED BY <1>1, <1>2, PTL DEF Spec

\* Land from the register is never the land of a pin that has moved on, on the page or in a re-post.
THEOREM LandIsUnderThePin == Spec => []FetchedIsHere
<1>1. IInv => FetchedIsHere
  BY DEF IInv, LandInv, PostsAreSound, FetchedIsHere
<1> QED BY <1>1, Inductive, PTL

\* However many re-posts are in flight and in whatever order the service takes them, once it has taken
\* them all and the dials rest the model holds what the page states, unless that was missed in one of the
\* ways the page has no answer to, a pin moved by the device over the open report among them.
THEOREM ThePageIsHeld == Spec => []ModelHoldsThePage
<1>1. IInv => ModelHoldsThePage
  BY DEF IInv, LastPost, Agrees, ModelHoldsThePage, Settled
<1> QED BY <1>1, Inductive, PTL

\* However many reads cross however many re-posts, once the page has heard of every re-post the service
\* took, a report with no read in flight tells of the model as it is, unless an answer was lost, refused
\* or overtaken.
THEOREM TheReportIsOfTheModel == Spec => []ReportIsOfTheModel
<1>1. IInv => ReportIsOfTheModel
  BY DEF IInv, LastRead, NoneToHear, ReportIsOfTheModel
<1> QED BY <1>1, Inductive, PTL

=============================================================================
