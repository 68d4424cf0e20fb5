------------------------ MODULE PipelineSweep_proof ------------------------
(***************************************************************************)
(* Proofs about PipelineSweep for any finite set of nodes, any drawings,   *)
(* places, attempts and number of writes that fail.                        *)
(***************************************************************************)
EXTENDS PipelineSweep, FiniteSetTheorems, TLAPS

\* What a drawing says of its nodes, at hand without its whole record.
LEMMA DrawingParts ==
    ASSUME TypeOK
    PROVE  /\ dag.output \in Nodes
           /\ dag.choices \in [Nodes -> SUBSET Choices]
           /\ \A w \in dag.wires : w.from \in Nodes /\ w.to \in Nodes
BY SweepAssumption DEF TypeOK, Drawing, Wires

LEMMA ResultTypes ==
    /\ \A s \in Statuses : Bare(s) \in Result
    /\ Failed \in Result
BY DEF Bare, Failed, Result, Statuses, Outcomes

\* What the check before a wait works on, typed.
LEMMA WriteRecordTypes ==
    ASSUME TypeOK
    PROVE  /\ [n \in Nodes |-> Undecided(n)] \in [Nodes -> Result]
           /\ \A rec : Unrecorded(rec) \in SUBSET Nodes
<1>1. \A n \in Nodes : Undecided(n) \in Result
  BY DEF Undecided, TypeOK, Result, Statuses, Outcomes
<1>2. \A rec : Unrecorded(rec) \in SUBSET Nodes
  BY DEF Unrecorded
<1> QED BY <1>1, <1>2

\* What a write of the nodes in ns may do to the record, and does where nothing is lost.
Touches(ns, res) == /\ created' = created \union ns
                    /\ \A n \in Nodes : record'[n] = record[n] \/ (n \in ns /\ record'[n] = res[n])
                    /\ \A n \in Nodes : Unrelated(n) => record'[n] = record[n]

Arrives(ns, res) == \A n \in ns : Unrelated(n) \/ record'[n] = res[n]

\* What a write does: it keeps the types, touches no record but those it is for, and where
\* nothing is lost does all it is asked.
LEMMA WriteDoes ==
    ASSUME TypeOK, NEW failed \in Nat, NEW ns \in SUBSET Nodes, NEW res \in [Nodes -> Result],
           NEW status \in RunStatuses, WriteBeside(failed, ns, res, status)
    PROVE  /\ record' \in [Nodes -> Result]
           /\ runStatus' \in {runStatus, status}
           /\ lost' \in 0 .. MaxLost /\ lost + failed <= lost'
           /\ created' \in SUBSET Nodes
           /\ Touches(ns, res)
           /\ lost' = 0 => Arrives(ns, res) /\ runStatus' = status
<1>1. PICK failing \in SUBSET ns, refused \in {FALSE, status # runStatus} :
         /\ lost' = lost + failed + Cardinality(failing) + (IF refused THEN 1 ELSE 0)
         /\ lost' <= MaxLost
         /\ record' = [n \in Nodes |-> IF n \in ns \ failing /\ ~Unrelated(n) THEN res[n]
                                       ELSE record[n]]
         /\ created' = created \union ns
         /\ runStatus' = IF refused THEN runStatus ELSE status
  BY DEF WriteBeside
<1>2. IsFiniteSet(failing)
  BY SweepAssumption, FS_Subset
<1>3. Cardinality(failing) \in Nat /\ (Cardinality(failing) = 0 => failing = {})
  BY <1>2, FS_CardinalityType, FS_EmptySet
<1>4. lost \in Nat /\ MaxLost \in Nat
  BY SweepAssumption DEF TypeOK
<1>5. record \in [Nodes -> Result]
  BY DEF TypeOK
<1>6. /\ lost' \in 0 .. MaxLost /\ lost + failed <= lost'
      /\ lost' = 0 => failing = {} /\ ~refused
  <2>1. (IF refused THEN 1 ELSE 0) \in Nat
    OBVIOUS
  <2>2. refused => (IF refused THEN 1 ELSE 0) = 1
    OBVIOUS
  <2> DEFINE r == IF refused THEN 1 ELSE 0
  <2>3. lost' = lost + failed + Cardinality(failing) + r
    BY <1>1
  <2> HIDE DEF r
  <2>4. /\ lost' \in 0 .. MaxLost /\ lost + failed <= lost'
        /\ lost' = 0 => Cardinality(failing) = 0 /\ r = 0
    BY <2>1, <2>3, <1>1, <1>3, <1>4 DEF r
  <2> QED BY <2>4, <2>2, <1>3 DEF r
<1>7. record' \in [Nodes -> Result]
  BY <1>1, <1>5
<1>8. \A n \in Nodes : record'[n] = IF n \in ns \ failing /\ ~Unrelated(n) THEN res[n]
                                     ELSE record[n]
  BY <1>1
<1>9. runStatus' \in {runStatus, status} /\ (~refused => runStatus' = status)
  BY <1>1
<1>10. created' = created \union ns /\ created' \in SUBSET Nodes
  BY <1>1 DEF TypeOK
<1> QED BY <1>6, <1>7, <1>8, <1>9, <1>10 DEF Touches, Arrives

\* The same of what the sweep writes, which is nothing once its caller has left.
LEMMA PersistDoes ==
    ASSUME TypeOK, NEW ns \in SUBSET Nodes, NEW res \in [Nodes -> Result],
           NEW status \in RunStatuses, Persist(ns, res, status)
    PROVE  /\ record' \in [Nodes -> Result]
           /\ runStatus' \in {runStatus, status}
           /\ lost' \in 0 .. MaxLost /\ lost <= lost'
           /\ created' \in SUBSET Nodes
           /\ caller = "left" => record' = record /\ runStatus' = runStatus
           /\ Touches(ns, res)
           /\ lost' = 0 /\ caller # "left" => Arrives(ns, res) /\ runStatus' = status
<1>1. CASE caller = "left"
  BY <1>1 DEF Persist, WriteNothing, TypeOK, Touches
<1>2. CASE caller # "left"
  <2>1. WriteBeside(0, ns, res, status)
    BY <1>2 DEF Persist, Write
  <2>2. lost \in Nat
    BY SweepAssumption DEF TypeOK
  <2> QED BY <1>2, <2>1, <2>2, WriteDoes
<1> QED BY <1>1, <1>2

\* Whatever a node answers is an answer, and says something.
LEMMA AnswersType ==
    ASSUME TypeOK, NEW n \in Nodes, NEW r \in Answers(n)
    PROVE  r \in Result /\ r.status # "none"
<1>1. \A o \in TakenOn(n) : o \in Outcomes
  BY DrawingParts DEF TakenOn, Outcomes
<1>2. \A s \in Succeeded(n) : s \in Result /\ s.status = "succeeded"
  BY <1>1 DEF Succeeded, Result, Statuses
<1>3. \A s \in AnswersOfItems(n) : s \in Result /\ s.status # "none"
  <2>1. \A o \in SUBSET (TakenOn(n) \union {"fail"}) : o \in SUBSET Outcomes
    BY <1>1 DEF Outcomes
  <2> QED BY <2>1 DEF AnswersOfItems, Result, Statuses, Outcomes
<1>4. \A s \in {[q EXCEPT !.status = "waiting"] : q \in Succeeded(n)} :
         s \in Result /\ s.status # "none"
  BY <1>2 DEF Result, Statuses
<1>5. Failed \in Result /\ Failed.status # "none"
  BY ResultTypes DEF Failed
<1>6. /\ Bare("cannotRehearse") \in Result
      /\ Bare("cannotRehearse").status # "none"
  BY ResultTypes DEF Bare, Statuses
<1> QED BY <1>2, <1>3, <1>4, <1>5, <1>6 DEF Answers, Result, Statuses, Outcomes
-----------------------------------------------------------------------------
LEMMA InitTypeOK == Init => TypeOK
<1> SUFFICES ASSUME Init PROVE TypeOK
  OBVIOUS
<1>1. Bare("none") \in Result
  BY ResultTypes DEF Statuses
<1>2. 0 \in 0 .. MaxLost
  BY SweepAssumption
<1>3. /\ result \in [Nodes -> Result] /\ answer \in [Nodes -> Result]
      /\ record \in [Nodes -> Result]
  BY <1>1 DEF Init
<1>4. /\ task \in [Nodes -> Stages] /\ calls \in [Nodes -> Nat]
      /\ vigil \in [Nodes -> {"none", "live", "answered", "gone"}]
  BY DEF Init, Stages
<1> QED BY <1>2, <1>3, <1>4 DEF Init, TypeOK, Places, RunStatuses

\* The statuses the sweep judges its run by are a run's.
LEMMA JudgedType == \A passes \in BOOLEAN : StatusJudged(passes) \in RunStatuses
BY DEF StatusJudged, RunStatuses

LEMMA SweepStepType ==
    ASSUME TypeOK, SweepStep
    PROVE  TypeOK'
<1> USE ResultTypes
<1>1. CASE SeeStop
  BY <1>1 DEF SeeStop, TypeOK, Places, run, tasks, others, broker, writes
<1>2. CASE Look
  <2> DEFINE notTaken == [n \in Nodes |-> Bare("notTaken")]
  <2>1. Bare("notTaken") \in Result
    BY DEF Statuses
  <2>2. notTaken \in [Nodes -> Result]
    BY <2>1
  <2>3. NotTaken \in SUBSET Nodes
    BY DEF NotTaken, Ready, Pending
  <2>4. Persist(NotTaken, notTaken, runStatus) /\ runStatus \in RunStatuses
    BY <1>2 DEF Look, LookAt, TypeOK
  <2> HIDE DEF notTaken
  <2>5. /\ record' \in [Nodes -> Result] /\ runStatus' \in RunStatuses
        /\ lost' \in 0 .. MaxLost /\ created' \in SUBSET Nodes
    BY <2>2, <2>3, <2>4, PersistDoes
  <2>6. result' \in [Nodes -> Result] /\ task' \in [Nodes -> Stages] /\ pc' \in Places
    BY <1>2, <2>1 DEF Look, LookAt, TypeOK, Places, Stages
  <2> QED BY <1>2, <2>5, <2>6 DEF Look, LookAt, TypeOK, run, locals, others
<1>3. CASE StopLooking
  BY <1>3 DEF StopLooking, TypeOK, Places, run, locals, tasks, others, broker, writes
<1>4. ASSUME NEW n \in Nodes, Take(n)
      PROVE  TypeOK'
  <2>1. PICK res : res = result' /\ Persist({n}, res, runStatus)
    BY <1>4 DEF Take, TakeAs
  <2>2. res \in [Nodes -> Result]
    BY <1>4, <2>1 DEF Take, TakeAs, TypeOK
  <2>3. runStatus \in RunStatuses /\ {n} \in SUBSET Nodes
    BY DEF TypeOK
  <2>4. /\ record' \in [Nodes -> Result] /\ runStatus' \in RunStatuses
        /\ lost' \in 0 .. MaxLost /\ created' \in SUBSET Nodes
    BY <2>1, <2>2, <2>3, PersistDoes
  <2>5. task' \in [Nodes -> Stages] /\ pc' \in Places
    BY <1>4 DEF Take, TakeAs, TypeOK, Places, Stages
  <2>6. halted' \in BOOLEAN /\ unhandled' \in BOOLEAN /\ stopped' \in BOOLEAN
    BY <1>4 DEF Take, TakeAs
  <2> QED
    BY <1>4, <2>1, <2>2, <2>4, <2>5, <2>6 DEF Take, TakeAs, TypeOK, run, others
<1>5. ASSUME NEW n \in Nodes, TakeThrown(n)
      PROVE  TypeOK'
  BY <1>5 DEF TakeThrown, TypeOK, Places, Stages, run, locals, others, broker, writes
<1>6. CASE Throw
  BY <1>6 DEF Throw, TypeOK, Places, Stages, run, locals, broker, writes
<1>7. CASE DrainEnds
  BY <1>7 DEF DrainEnds, TypeOK, Places, run, locals, tasks, others, broker, writes
<1>8. CASE WriteRecordAgain
  <2>1. PICK unread, unreadAfter \in BOOLEAN, known, missed \in SUBSET Nodes,
            written \in [Nodes -> Result] :
          /\ known = {n \in Nodes : result[n].status # "none"}
          /\ written = [n \in Nodes |-> Undecided(n)]
          /\ caller = "left" \/ WriteBeside((IF unread THEN 1 ELSE 0) + (IF unreadAfter THEN 1 ELSE 0),
                                            IF unread THEN known ELSE Unrecorded(record),
                                            written, runStatus)
          /\ result' = [n \in Nodes |-> IF n \in missed THEN Failed ELSE result[n]]
          /\ pc' = IF missed = {} THEN "placing" ELSE "failing"
    BY <1>8, WriteRecordTypes DEF WriteRecordAgain, WriteRecordChecking
  <2>2. /\ written \in [Nodes -> Result]
        /\ caller = "left" =>
               created' \in SUBSET Nodes /\ UNCHANGED <<record, runStatus, lost>>
    BY <1>8 DEF WriteRecordAgain, WriteRecordChecking, WriteNothing, TypeOK
  <2>3. /\ known \in SUBSET Nodes /\ Unrecorded(record) \in SUBSET Nodes
        /\ runStatus \in RunStatuses
    BY WriteRecordTypes DEF TypeOK
  <2>4. (IF unread THEN 1 ELSE 0) + (IF unreadAfter THEN 1 ELSE 0) \in Nat
    OBVIOUS
  <2>5. /\ record' \in [Nodes -> Result] /\ runStatus' \in RunStatuses
        /\ lost' \in 0 .. MaxLost /\ created' \in SUBSET Nodes
    <3>1. CASE caller = "left"
      BY <2>2, <3>1 DEF TypeOK
    <3>2. CASE caller # "left"
      <4>1. PICK cost \in Nat, todo \in SUBSET Nodes : WriteBeside(cost, todo, written, runStatus)
        BY <2>1, <2>3, <2>4, <3>2
      <4> QED BY <2>2, <2>3, <4>1, WriteDoes
    <3> QED BY <3>1, <3>2
  <2>6. result' \in [Nodes -> Result] /\ pc' \in Places
    BY <2>1 DEF TypeOK, Places
  <2> QED
    BY <1>8, <2>5, <2>6
    DEF WriteRecordAgain, WriteRecordChecking, TypeOK, run, locals, tasks, others
<1>9. ASSUME NEW n \in Nodes, Place(n)
      PROVE  TypeOK'
  <2>1. result' \in [Nodes -> Result]
    BY <1>9 DEF Place, PlaceOr, TypeOK
  <2>2. /\ holding' \in SUBSET Nodes
        /\ vigil' \in [Nodes -> {"none", "live", "answered", "gone"}]
    BY <1>9 DEF Place, PlaceOr, TypeOK
  <2>3. unhandled' \in BOOLEAN
    BY <1>9 DEF Place, PlaceOr, TypeOK
  <2> QED BY <1>9, <2>1, <2>2, <2>3 DEF Place, PlaceOr, writes, TypeOK, run, tasks, others
<1>10. CASE HoldEnds
  <2>1. CASE unhandled
    BY <1>10, <2>1 DEF HoldEnds, TypeOK, Places, run, locals, tasks, broker, writes
  <2>2. CASE ~unhandled
    <3>1. Persist({}, record, "waiting") /\ "waiting" \in RunStatuses
      BY <1>10, <2>2 DEF HoldEnds, RunStatuses
    <3>2. record \in [Nodes -> Result] /\ {} \in SUBSET Nodes
      BY DEF TypeOK
    <3>3. /\ record' \in [Nodes -> Result] /\ runStatus' \in {runStatus, "waiting"}
          /\ lost' \in 0 .. MaxLost /\ created' \in SUBSET Nodes
      BY <3>1, <3>2, PersistDoes
    <3> QED
      BY <1>10, <2>2, <3>1, <3>3 DEF HoldEnds, TypeOK, Places, run, locals, tasks
  <2> QED BY <2>1, <2>2
<1>11. CASE FailUnheld
  <2> DEFINE unwritten == {n \in Nodes : result[n].status = "failed"} \intersect Unrecorded(record)
  <2>1. Persist(unwritten, result, runStatus) /\ unwritten \in SUBSET Nodes
    BY <1>11 DEF FailUnheld
  <2>2. result \in [Nodes -> Result] /\ runStatus \in RunStatuses
    BY DEF TypeOK
  <2> HIDE DEF unwritten
  <2>3. /\ record' \in [Nodes -> Result] /\ runStatus' \in RunStatuses
        /\ lost' \in 0 .. MaxLost /\ created' \in SUBSET Nodes
    BY <2>1, <2>2, PersistDoes
  <2> QED BY <1>11, <2>3 DEF FailUnheld, TypeOK, Places, run, tasks, others
<1>12. CASE Close
  <2> DEFINE unreached == {n \in Nodes : ~Settled(n)}
  <2>1. PICK passes \in Verdicts : Persist(unreached, result', StatusJudged(passes))
    BY <1>12 DEF Close, CloseRecording
  <2>2. result' \in [Nodes -> Result]
    <3>1. Bare(IF stopped THEN "cancelled" ELSE "skipped") \in Result
      BY DEF Statuses
    <3> QED BY <1>12, <3>1 DEF Close, CloseRecording, TypeOK
  <2>3. StatusJudged(passes) \in RunStatuses
    BY JudgedType DEF Verdicts
  <2> HIDE DEF unreached
  <2>4. /\ record' \in [Nodes -> Result] /\ runStatus' \in {runStatus, StatusJudged(passes)}
        /\ lost' \in 0 .. MaxLost /\ created' \in SUBSET Nodes
    <3>1. unreached \in SUBSET Nodes
      BY DEF unreached
    <3> QED BY <2>1, <2>2, <2>3, <3>1, PersistDoes
  <2>5. runStatus' \in RunStatuses
    BY <2>3, <2>4 DEF TypeOK
  <2> QED
    BY <1>12, <2>2, <2>4, <2>5 DEF Close, CloseRecording, TypeOK, Places, run, locals, tasks
<1> QED
  BY <1>1, <1>2, <1>3, <1>4, <1>5, <1>6, <1>7, <1>8, <1>9, <1>10, <1>11, <1>12 DEF SweepStep

LEMMA TaskStepType ==
    ASSUME TypeOK, NEW n \in Nodes, TaskStep(n)
    PROVE  TypeOK'
<1> USE ResultTypes
<1>1. CASE EnterGate(n)
  <2> DEFINE running == [m \in Nodes |-> Bare("running")]
  <2>1. Persist({n}, running, runStatus) /\ runStatus \in RunStatuses
    BY <1>1 DEF EnterGate, TypeOK
  <2>2. running \in [Nodes -> Result]
    BY DEF Statuses
  <2> HIDE DEF running
  <2>3. /\ record' \in [Nodes -> Result] /\ runStatus' \in RunStatuses
        /\ lost' \in 0 .. MaxLost /\ created' \in SUBSET Nodes
    BY <2>1, <2>2, PersistDoes
  <2>4. task' \in [Nodes -> Stages] /\ calls' \in [Nodes -> Nat]
    BY <1>1 DEF EnterGate, TypeOK, Stages
  <2> QED BY <1>1, <2>3, <2>4 DEF EnterGate, TypeOK, run, locals, others
<1>2. CASE LoseTheGate(n)
  BY <1>2 DEF LoseTheGate, TypeOK, Stages, run, locals, others, broker, writes
<1>3. CASE StartAttempt(n)
  <2>1. Bare("cancelled") \in Result
    BY DEF Statuses
  <2>2. /\ task' \in [Nodes -> Stages] /\ calls' \in [Nodes -> Nat]
        /\ answer' \in [Nodes -> Result]
    BY <1>3, <2>1 DEF StartAttempt, TypeOK, Stages
  <2> QED BY <1>3, <2>2 DEF StartAttempt, TypeOK, run, locals, others, broker, writes
<1>4. CASE PauseAttempts(n)
  <2> DEFINE trying == [m \in Nodes |-> Bare("trying")]
  <2>1. Persist({n}, trying, runStatus) /\ runStatus \in RunStatuses
    BY <1>4 DEF PauseAttempts, TypeOK
  <2>2. trying \in [Nodes -> Result]
    BY DEF Statuses
  <2> HIDE DEF trying
  <2>3. /\ record' \in [Nodes -> Result] /\ runStatus' \in RunStatuses
        /\ lost' \in 0 .. MaxLost /\ created' \in SUBSET Nodes
    BY <2>1, <2>2, PersistDoes
  <2>4. task' \in [Nodes -> Stages]
    BY <1>4 DEF PauseAttempts, TypeOK, Stages
  <2> QED BY <1>4, <2>3, <2>4 DEF PauseAttempts, TypeOK, run, locals, others
<1>5. CASE Answer(n)
  <2>1. PICK r \in Answers(n) : answer' = [answer EXCEPT ![n] = r]
    BY <1>5 DEF Answer
  <2>2. r \in Result
    BY AnswersType
  <2>3. answer' \in [Nodes -> Result] /\ task' \in [Nodes -> Stages]
    BY <1>5, <2>1, <2>2 DEF Answer, TypeOK, Stages
  <2> QED BY <1>5, <2>3 DEF Answer, TypeOK, run, locals, others, broker, writes
<1> QED BY <1>1, <1>2, <1>3, <1>4, <1>5 DEF TaskStep

LEMMA OtherStepType ==
    ASSUME TypeOK,
           \/ \E n \in Nodes : VigilIsAnswered(n) \/ Resume(n)
           \/ CallerLeaves \/ AskStop \/ EndStopped
    PROVE  TypeOK'
<1> USE ResultTypes
<1>1. ASSUME NEW n \in Nodes, VigilIsAnswered(n)
      PROVE  TypeOK'
  BY <1>1 DEF VigilIsAnswered, writes, TypeOK, run, locals, tasks, others
<1>2. ASSUME NEW n \in Nodes, Resume(n)
      PROVE  TypeOK'
  <2> DEFINE res   == [Progress EXCEPT ![n].status = "succeeded"]
             waits == {m \in Nodes \ {n} : record[m].status = "waiting"}
  <2>1. res \in [Nodes -> Result]
    <3>1. Bare("none") \in Result
      BY DEF Statuses
    <3>2. Progress \in [Nodes -> Result]
      BY <3>1 DEF Progress, TypeOK
    <3>3. [Progress[n] EXCEPT !.status = "succeeded"] \in Result
      BY <3>2 DEF Result, Statuses
    <3> QED BY <3>2, <3>3
  <2>2. waits \in SUBSET Nodes
    OBVIOUS
  <2>3. ResumeFrom(n, res, waits)
    BY <1>2 DEF Resume
  <2> HIDE DEF res, waits
  <2>4. vigil' \in [Nodes -> {"none", "live", "answered", "gone"}]
    BY <2>3 DEF ResumeFrom, writes, TypeOK
  <2>5. CASE record[n].status # "waiting"
    BY <2>3, <2>4, <2>5 DEF ResumeFrom, writes, TypeOK, run, locals, tasks
  <2>6. CASE record[n].status = "waiting" /\ Missing \union Caught # {}
    <3>1. WriteBeside(0, {}, record, "failed") /\ record \in [Nodes -> Result]
      BY <2>3, <2>6 DEF ResumeFrom, writes, Write, TypeOK
    <3>2. "failed" \in RunStatuses /\ {} \in SUBSET Nodes
      BY DEF RunStatuses
    <3>3. /\ record' \in [Nodes -> Result] /\ runStatus' \in {runStatus, "failed"}
          /\ lost' \in 0 .. MaxLost /\ created' \in SUBSET Nodes
      BY <3>1, <3>2, WriteDoes
    <3> QED
      BY <2>3, <2>4, <2>6, <3>2, <3>3 DEF ResumeFrom, writes, TypeOK, Places, run, locals, tasks
  <2>7. CASE record[n].status = "waiting" /\ Missing \union Caught = {}
    <3>1. WriteBeside(0, {n}, res, "running")
      BY <2>3, <2>7 DEF ResumeFrom, writes, Write
    <3>2. "running" \in RunStatuses /\ {n} \in SUBSET Nodes
      BY DEF RunStatuses
    <3>3. /\ record' \in [Nodes -> Result] /\ runStatus' \in {runStatus, "running"}
          /\ lost' \in 0 .. MaxLost /\ created' \in SUBSET Nodes
      BY <2>1, <3>1, <3>2, WriteDoes
    <3> QED
      BY <2>1, <2>2, <2>3, <2>4, <2>7, <3>2, <3>3 DEF ResumeFrom, writes, TypeOK, Places, run, tasks
  <2> QED BY <2>5, <2>6, <2>7
<1>3. CASE CallerLeaves
  BY <1>3 DEF CallerLeaves, TypeOK, run, locals, tasks, broker, writes
<1>4. CASE AskStop
  BY <1>4 DEF AskStop, TypeOK, run, locals, tasks, broker, writes
<1>5. CASE EndStopped
  <2>1. CASE Finished(runStatus)
    BY <1>5, <2>1 DEF EndStopped, EndStoppedUnless, TypeOK, run, locals, tasks, broker, writes
  <2>2. CASE ~Finished(runStatus)
    <3> DEFINE unfinished == {n \in Nodes : ~Finished(record[n].status)}
               cancelled  == [n \in Nodes |-> Bare("cancelled")]
               held       == {n \in Nodes : record[n].status = "waiting" /\ vigil[n] = "live"}
    <3>1. PICK kept \in SUBSET held :
             /\ vigil' = [n \in Nodes |-> IF /\ record[n].status = "waiting"
                                             /\ vigil[n] = "live" /\ n \notin kept
                                          THEN "gone" ELSE vigil[n]]
             /\ WriteBeside(Cardinality(kept), unfinished, cancelled, "cancelled")
      BY <1>5, <2>2 DEF EndStopped, EndStoppedUnless
    <3>2. Cardinality(kept) \in Nat
      <4>1. kept \in SUBSET Nodes
        OBVIOUS
      <4> QED BY <4>1, SweepAssumption, FS_Subset, FS_CardinalityType
    <3>3. cancelled \in [Nodes -> Result]
      BY DEF Statuses
    <3>4. "cancelled" \in RunStatuses /\ unfinished \in SUBSET Nodes
      BY DEF RunStatuses
    <3> HIDE DEF unfinished, cancelled, held
    <3>5. /\ record' \in [Nodes -> Result] /\ runStatus' \in {runStatus, "cancelled"}
          /\ lost' \in 0 .. MaxLost /\ created' \in SUBSET Nodes
      BY <3>1, <3>2, <3>3, <3>4, WriteDoes
    <3>6. vigil' \in [Nodes -> {"none", "live", "answered", "gone"}]
      BY <3>1 DEF TypeOK
    <3> QED
      BY <1>5, <2>2, <3>4, <3>5, <3>6
      DEF EndStopped, EndStoppedUnless, TypeOK, Places, run, locals, tasks
  <2> QED BY <2>1, <2>2
<1> QED BY <1>1, <1>2, <1>3, <1>4, <1>5

LEMMA NextTypeOK == TypeOK /\ [Next]_vars => TypeOK'
<1> SUFFICES ASSUME TypeOK, [Next]_vars PROVE TypeOK'
  OBVIOUS
<1>1. CASE Next
  BY <1>1, SweepStepType, TaskStepType, OtherStepType DEF Next
<1>2. CASE UNCHANGED vars
  BY <1>2 DEF TypeOK, vars, run, locals, tasks, others, broker, writes
<1> QED BY <1>1, <1>2

\* The state of a sweep, of its tasks and of the broker's record keep their types through
\* every interleaving of answers, stops, resumes and writes that fail.
THEOREM TypeCorrect == Spec => []TypeOK
BY InitTypeOK, NextTypeOK, PTL DEF Spec
-----------------------------------------------------------------------------
(***************************************************************************)
(* The order of calls.  CalledInOrder is inductive together with two facts *)
(* about when tasks are there at all: a started node is not settled, and   *)
(* past the drain no task is left.                                         *)
(***************************************************************************)
StartedUnsettled == \A n \in Nodes : task[n] # "none" => result[n].status = "none"

PastTheDrain == {"writing", "placing", "failing", "closing", "waits", "ended", "thrown"}

NoTaskIsLeft == pc \in PastTheDrain => \A n \in Nodes : task[n] = "none"

OrderInv == StartedUnsettled /\ NoTaskIsLeft /\ CalledInOrder

LEMMA InitOrderInv == Init => OrderInv
BY DEF Init, OrderInv, StartedUnsettled, NoTaskIsLeft, CalledInOrder, Calling, PastTheDrain, Bare

\* A step that starts no node and leaves what is settled alone keeps the order.
LEMMA OrderKept ==
    ASSUME TypeOK, CalledInOrder, dag' = dag,
           \A n \in Nodes : task'[n] # "none" => task[n] # "none",
           \A n \in Nodes : Settled(n) => result'[n] = result[n]
    PROVE  CalledInOrder'
<1>1. \A n \in Nodes : WiresInto(n)' = WiresInto(n)
  BY DEF WiresInto
<1>2. \A n \in Nodes : \A w \in WiresInto(n) : w.from \in Nodes
  BY DrawingParts DEF WiresInto
<1>3. \A n \in Nodes : Settled(n) => Settled(n)'
  BY DEF Settled
<1>4. ASSUME NEW n \in Nodes, NEW w \in WiresInto(n), Settled(w.from), Carried(w)
      PROVE  Carried(w)'
  BY <1>2, <1>4 DEF Carried, Carries
<1> QED
  BY <1>1, <1>2, <1>3, <1>4 DEF CalledInOrder, Calling

\* A step with no task before and none after.
LEMMA OrderOfNone ==
    ASSUME OrderInv, pc \in PastTheDrain, UNCHANGED task
    PROVE  OrderInv'
BY DEF OrderInv, StartedUnsettled, NoTaskIsLeft, CalledInOrder, Calling

\* A step that keeps the drawing and the answers taken, and starts nothing.
LEMMA OrderOfSame ==
    ASSUME TypeOK, OrderInv, UNCHANGED <<dag, result>>,
           \A n \in Nodes : task'[n] # "none" => task[n] # "none",
           pc' \in PastTheDrain => pc \in PastTheDrain \/ \A n \in Nodes : task'[n] = "none"
    PROVE  OrderInv'
<1>1. CalledInOrder'
  BY OrderKept DEF OrderInv
<1>2. StartedUnsettled'
  BY DEF OrderInv, StartedUnsettled
<1>3. NoTaskIsLeft'
  BY DEF OrderInv, NoTaskIsLeft
<1> QED BY <1>1, <1>2, <1>3 DEF OrderInv

LEMMA OrderOfLook ==
    ASSUME TypeOK, OrderInv, Look
    PROVE  OrderInv'
<1>1. /\ pc = "looking" /\ dag' = dag
      /\ result' = [n \in Nodes |-> IF n \in NotTaken THEN Bare("notTaken") ELSE result[n]]
      /\ task' = [n \in Nodes |-> IF n \in Ready \ NotTaken THEN "queued" ELSE task[n]]
      /\ pc' \in {"looking", "draining", "taking"}
  BY DEF Look, LookAt, run
<1>2. /\ NotTaken \subseteq Ready
      /\ \A n \in Ready : n \in Nodes /\ result[n].status = "none" /\ task[n] = "none"
  BY DEF NotTaken, Ready, Pending
<1>3. StartedUnsettled'
  <2>1. ASSUME NEW n \in Nodes, task'[n] # "none"
        PROVE  n \notin NotTaken /\ result[n].status = "none"
    BY <1>1, <1>2, <2>1 DEF OrderInv, StartedUnsettled
  <2>2. \A n \in Nodes : n \notin NotTaken => result'[n] = result[n]
    BY <1>1
  <2> QED BY <2>1, <2>2 DEF StartedUnsettled
<1>4. NoTaskIsLeft'
  BY <1>1 DEF NoTaskIsLeft, PastTheDrain
<1>5. \A n \in Nodes : Settled(n) => result'[n] = result[n]
  BY <1>1, <1>2 DEF Settled
<1>6. ASSUME NEW n \in Nodes, task'[n] # "none"
      PROVE  /\ \A w \in WiresInto(n) : Settled(w.from)
             /\ WiresInto(n) = {} \/ \E w \in WiresInto(n) : Carried(w)
  <2>1. CASE task[n] # "none"
    BY <2>1 DEF OrderInv, CalledInOrder, Calling
  <2>2. CASE task[n] = "none"
    <3>1. n \in Ready \ NotTaken
      BY <1>1, <1>6, <2>2
    <3> QED BY <3>1 DEF Ready, NotTaken
  <2> QED BY <2>1, <2>2
<1>7. CalledInOrder'
  <2>1. \A n \in Nodes : WiresInto(n)' = WiresInto(n)
    BY <1>1 DEF WiresInto
  <2>2. \A n \in Nodes : \A w \in WiresInto(n) : w.from \in Nodes
    BY DrawingParts DEF WiresInto
  <2>3. \A n \in Nodes : Settled(n) => Settled(n)'
    BY <1>5 DEF Settled
  <2>4. ASSUME NEW n \in Nodes, NEW w \in WiresInto(n), Settled(w.from), Carried(w)
        PROVE  Carried(w)'
    BY <1>5, <2>2, <2>4 DEF Carried, Carries
  <2> QED BY <1>6, <2>1, <2>2, <2>3, <2>4 DEF CalledInOrder, Calling
<1> QED BY <1>3, <1>4, <1>7 DEF OrderInv

LEMMA OrderOfTake ==
    ASSUME TypeOK, OrderInv, NEW n \in Nodes, Take(n)
    PROVE  OrderInv'
<1>1. /\ task[n] = "answered" /\ dag' = dag
      /\ task' = [task EXCEPT ![n] = "none"]
      /\ result' = [result EXCEPT ![n] = answer[n]]
      /\ pc' \in {"looking", "draining"}
  BY DEF Take, TakeAs, run
<1>2. /\ \A m \in Nodes : task'[m] # "none" => m # n /\ task[m] # "none"
      /\ \A m \in Nodes : m # n => result'[m] = result[m]
  BY <1>1 DEF TypeOK
<1>3. ~Settled(n)
  BY <1>1 DEF OrderInv, StartedUnsettled, Settled
<1>4. CalledInOrder'
  BY <1>1, <1>2, <1>3, OrderKept DEF OrderInv
<1>5. StartedUnsettled'
  BY <1>2 DEF OrderInv, StartedUnsettled
<1>6. NoTaskIsLeft'
  BY <1>1 DEF NoTaskIsLeft, PastTheDrain
<1> QED BY <1>4, <1>5, <1>6 DEF OrderInv

LEMMA NextOrderInv ==
    ASSUME TypeOK, OrderInv, [Next]_vars
    PROVE  OrderInv'
<1>1. CASE SweepStep
  <2>1. CASE SeeStop \/ StopLooking
    BY <2>1, OrderOfSame DEF SeeStop, StopLooking, run, tasks, PastTheDrain
  <2>2. CASE Look
    BY <2>2, OrderOfLook
  <2>3. ASSUME NEW n \in Nodes, Take(n) PROVE OrderInv'
    BY <2>3, OrderOfTake
  <2>4. ASSUME NEW n \in Nodes, TakeThrown(n) PROVE OrderInv'
    <3>1. /\ \A m \in Nodes : task'[m] # "none" => task[m] # "none"
          /\ pc' \notin PastTheDrain
          /\ UNCHANGED <<dag, result>>
      BY <2>4 DEF TakeThrown, TypeOK, run, PastTheDrain
    <3> QED BY <3>1, OrderOfSame
  <2>5. CASE Throw
    <3>1. /\ \A m \in Nodes : task'[m] = "none"
          /\ UNCHANGED <<dag, result>>
      BY <2>5 DEF Throw, run
    <3> QED BY <3>1, OrderOfSame
  <2>6. CASE DrainEnds
    <3>1. /\ \A m \in Nodes : task'[m] = "none"
          /\ UNCHANGED <<dag, result>>
      BY <2>6 DEF DrainEnds, run, tasks, Calling
    <3> QED BY <3>1, OrderOfSame
  <2>7. CASE \/ WriteRecordAgain \/ \E n \in Nodes : Place(n)
             \/ HoldEnds \/ FailUnheld \/ Close
    <3>1. pc \in PastTheDrain /\ UNCHANGED task
      BY <2>7 DEF WriteRecordAgain, WriteRecordChecking, Place, PlaceOr, writes, HoldEnds, FailUnheld,
                  Close, CloseRecording, tasks, PastTheDrain
    <3> QED BY <3>1, OrderOfNone
  <2> QED BY <1>1, <2>1, <2>2, <2>3, <2>4, <2>5, <2>6, <2>7 DEF SweepStep
<1>2. ASSUME NEW n \in Nodes, TaskStep(n)
      PROVE  OrderInv'
  <2>1. /\ task[n] # "none" /\ UNCHANGED <<dag, result, pc>>
        /\ \A m \in Nodes : task'[m] # "none" => task[m] # "none"
    BY <1>2 DEF TaskStep, EnterGate, LoseTheGate, StartAttempt, PauseAttempts,
                Answer, run, TypeOK
  <2> QED BY <2>1, OrderOfSame
<1>3. ASSUME NEW n \in Nodes, VigilIsAnswered(n)
      PROVE  OrderInv'
  BY <1>3, OrderOfSame DEF VigilIsAnswered, writes, run, tasks
<1>4. ASSUME NEW n \in Nodes, Resume(n)
      PROVE  OrderInv'
  BY <1>4, OrderOfNone DEF Resume, ResumeFrom, writes, TurnIsFree, PastTheDrain, tasks
<1>5. CASE EndStopped
  BY <1>5, OrderOfNone DEF EndStopped, EndStoppedUnless, TurnIsFree, PastTheDrain, tasks
<1>6. CASE CallerLeaves \/ AskStop
  BY <1>6, OrderOfSame DEF CallerLeaves, AskStop, run, tasks
<1>7. CASE UNCHANGED vars
  BY <1>7, OrderOfSame DEF vars, run, tasks
<1> QED BY <1>1, <1>2, <1>3, <1>4, <1>5, <1>6, <1>7 DEF Next

\* Whichever drawing a run is of, a node is started only with every node before it settled
\* and a wire carried into it.
THEOREM StartsInOrder == Spec => []CalledInOrder
<1>1. Init => TypeOK /\ OrderInv
  BY InitTypeOK, InitOrderInv
<1>2. (TypeOK /\ OrderInv) /\ [Next]_vars => (TypeOK /\ OrderInv)'
  BY NextTypeOK, NextOrderInv
<1>3. TypeOK /\ OrderInv => CalledInOrder
  BY DEF OrderInv
<1> QED BY <1>1, <1>2, <1>3, PTL DEF Spec
-----------------------------------------------------------------------------
(***************************************************************************)
(* The places at the gate.                                                 *)
(***************************************************************************)
LEMMA InAPlaceIsFinite == IsFiniteSet(InAPlace) /\ Cardinality(InAPlace) \in Nat
<1>1. InAPlace \subseteq Nodes
  BY DEF InAPlace
<1> QED BY <1>1, SweepAssumption, FS_Subset, FS_CardinalityType

\* A step that puts no other node in a place keeps the places.
LEMMA PlacesOfSame ==
    ASSUME PlacesAreKept,
           \A n \in Nodes : task'[n] \in {"between", "calling"} => task[n] \in {"between", "calling"}
    PROVE  PlacesAreKept'
<1> DEFINE after == InAPlace'
<1>1. after \subseteq InAPlace
  BY DEF InAPlace
<1> HIDE DEF after
<1>2. Cardinality(after) <= Cardinality(InAPlace) /\ Cardinality(after) \in Nat
  BY <1>1, InAPlaceIsFinite, FS_Subset, FS_CardinalityType
<1>3. Cardinality(after) <= MaxConcurrency
  BY <1>2, InAPlaceIsFinite, SweepAssumption DEF PlacesAreKept
<1> QED BY <1>3 DEF after, PlacesAreKept

LEMMA PlacesOfEnterGate ==
    ASSUME TypeOK, PlacesAreKept, NEW n \in Nodes, EnterGate(n)
    PROVE  PlacesAreKept'
<1> DEFINE after == InAPlace'
<1>1. after \subseteq InAPlace \union {n} /\ Cardinality(InAPlace) < MaxConcurrency
  BY DEF EnterGate, InAPlace, TypeOK
<1> HIDE DEF after
<1>2. /\ IsFiniteSet(InAPlace \union {n})
      /\ Cardinality(InAPlace \union {n}) <= Cardinality(InAPlace) + 1
  BY InAPlaceIsFinite, FS_AddElement
<1>3. /\ Cardinality(after) <= Cardinality(InAPlace \union {n})
      /\ Cardinality(after) \in Nat /\ Cardinality(InAPlace \union {n}) \in Nat
  BY <1>1, <1>2, FS_Subset, FS_CardinalityType
<1>4. Cardinality(after) <= MaxConcurrency
  BY <1>1, <1>2, <1>3, InAPlaceIsFinite, SweepAssumption
<1> QED BY <1>4 DEF after, PlacesAreKept

LEMMA NextPlaces ==
    ASSUME TypeOK, PlacesAreKept, [Next]_vars
    PROVE  PlacesAreKept'
<1>1. CASE SweepStep
  <2>1. CASE SeeStop \/ StopLooking \/ Throw \/ DrainEnds
    BY <2>1, PlacesOfSame DEF SeeStop, StopLooking, Throw, DrainEnds, tasks
  <2>2. CASE Look
    BY <2>2, PlacesOfSame DEF Look, LookAt
  <2>3. ASSUME NEW n \in Nodes, Take(n) \/ TakeThrown(n) PROVE PlacesAreKept'
    BY <2>3, PlacesOfSame DEF Take, TakeAs, TakeThrown, TypeOK
  <2>4. CASE \/ WriteRecordAgain \/ \E n \in Nodes : Place(n)
             \/ HoldEnds \/ FailUnheld \/ Close
    <3>1. UNCHANGED task
      BY <2>4 DEF WriteRecordAgain, WriteRecordChecking, Place, PlaceOr, writes, HoldEnds, FailUnheld,
                  Close, CloseRecording, tasks
    <3> QED BY <3>1, PlacesOfSame
  <2> QED BY <1>1, <2>1, <2>2, <2>3, <2>4 DEF SweepStep
<1>2. ASSUME NEW n \in Nodes, TaskStep(n)
      PROVE  PlacesAreKept'
  <2>1. CASE EnterGate(n)
    BY <2>1, PlacesOfEnterGate
  <2>2. CASE LoseTheGate(n) \/ StartAttempt(n) \/ PauseAttempts(n) \/ Answer(n)
    BY <2>2, PlacesOfSame DEF LoseTheGate, StartAttempt, PauseAttempts, Answer, TypeOK
  <2> QED BY <1>2, <2>1, <2>2 DEF TaskStep
<1>3. CASE \/ \E n \in Nodes : VigilIsAnswered(n) \/ Resume(n)
           \/ CallerLeaves \/ AskStop \/ EndStopped \/ UNCHANGED vars
  <2>1. UNCHANGED task
    BY <1>3 DEF VigilIsAnswered, writes, Resume, ResumeFrom, CallerLeaves, AskStop, EndStopped,
                EndStoppedUnless, vars, tasks
  <2> QED BY <2>1, PlacesOfSame
<1> QED BY <1>1, <1>2, <1>3 DEF Next

\* However many nodes are ready at once, no more calls are under way than there are places.
THEOREM CallsKeepPlaces == Spec => []PlacesAreKept
<1>1. Init => TypeOK /\ PlacesAreKept
  <2>1. Init => InAPlace = {}
    BY DEF Init, InAPlace
  <2> QED BY <2>1, InitTypeOK, FS_EmptySet, SweepAssumption DEF PlacesAreKept
<1>2. (TypeOK /\ PlacesAreKept) /\ [Next]_vars => (TypeOK /\ PlacesAreKept)'
  BY NextTypeOK, NextPlaces
<1> QED BY <1>1, <1>2, PTL DEF Spec
-----------------------------------------------------------------------------
(***************************************************************************)
(* The record of a run that waits.  Between the record made whole and the  *)
(* vigils placed nothing is settled but a node whose vigil is refused, and *)
(* that ends the run.                                                      *)
(***************************************************************************)
RecordedAsSettled ==
    \A n \in Nodes : result[n].status # "none" => record[n].status = result[n].status

WholeInv == (pc = "placing" /\ ~unhandled) \/ pc = "waits" => RecordedAsSettled

LEMMA WholeOfWrite ==
    ASSUME TypeOK, WriteRecordAgain, pc' = "placing"
    PROVE  RecordedAsSettled'
<1>1. PICK unread, unreadAfter \in BOOLEAN, missed \in SUBSET Nodes :
        /\ missed = IF unreadAfter THEN {n \in Nodes : result[n].status # "none"}
                    ELSE Unrecorded(record')
        /\ result' = [n \in Nodes |-> IF n \in missed THEN Failed ELSE result[n]]
        /\ pc' = IF missed = {} THEN "placing" ELSE "failing"
  BY WriteRecordTypes DEF WriteRecordAgain, WriteRecordChecking
<1>2. missed = {}
  BY <1>1
<1>3. result' = result
  BY <1>1, <1>2 DEF TypeOK
<1>4. \A n \in Nodes : result[n].status # "none" => record'[n].status = result[n].status
  BY <1>1, <1>2 DEF Unrecorded
<1> QED BY <1>3, <1>4 DEF RecordedAsSettled

LEMMA NextWholeInv ==
    ASSUME TypeOK, OrderInv, WholeInv, [Next]_vars
    PROVE  WholeInv'
<1>1. CASE SweepStep
  <2>1. CASE \/ SeeStop \/ Look \/ StopLooking
             \/ \E n \in Nodes : Take(n) \/ TakeThrown(n)
             \/ Throw \/ DrainEnds \/ FailUnheld \/ Close
    BY <2>1 DEF SeeStop, Look, LookAt, StopLooking, Take, TakeAs, TakeThrown, Throw, DrainEnds,
                FailUnheld, Close, CloseRecording, WholeInv
  <2>2. CASE WriteRecordAgain
    <3>1. pc' # "waits"
      BY <2>2 DEF WriteRecordAgain, WriteRecordChecking
    <3> QED BY <2>2, <3>1, WholeOfWrite DEF WholeInv
  <2>3. ASSUME NEW n \in Nodes, Place(n) PROVE WholeInv'
    <3>1. /\ pc' = "placing" /\ UNCHANGED record
          /\ unhandled' \/ (UNCHANGED <<result, unhandled>>)
      BY <2>3 DEF Place, PlaceOr, writes
    <3>2. pc = "placing"
      BY <2>3 DEF Place, PlaceOr, writes
    <3> QED BY <3>1, <3>2 DEF WholeInv, RecordedAsSettled
  <2>4. CASE HoldEnds
    <3>1. CASE unhandled
      BY <2>4, <3>1 DEF HoldEnds, WholeInv
    <3>2. CASE ~unhandled
      <4>1. Persist({}, record, "waiting") /\ UNCHANGED result /\ pc = "placing"
        BY <2>4, <3>2 DEF HoldEnds
      <4>2. \A n \in Nodes : record'[n] = record[n]
        <5>1. record \in [Nodes -> Result] /\ "waiting" \in RunStatuses /\ {} \in SUBSET Nodes
          BY DEF TypeOK, RunStatuses
        <5>2. Touches({}, record)
          BY <4>1, <5>1, PersistDoes
        <5> QED BY <5>2 DEF Touches
      <4> QED BY <3>2, <4>1, <4>2 DEF WholeInv, RecordedAsSettled
    <3> QED BY <3>1, <3>2
  <2> QED BY <1>1, <2>1, <2>2, <2>3, <2>4 DEF SweepStep
<1>2. ASSUME NEW n \in Nodes, TaskStep(n)
      PROVE  WholeInv'
  <2>1. pc' \notin {"placing", "waits"}
    BY <1>2 DEF TaskStep, EnterGate, LoseTheGate, StartAttempt, PauseAttempts,
                Answer, OrderInv, NoTaskIsLeft, PastTheDrain
  <2> QED BY <2>1 DEF WholeInv
<1>3. ASSUME NEW n \in Nodes, VigilIsAnswered(n)
      PROVE  WholeInv'
  BY <1>3 DEF VigilIsAnswered, writes, WholeInv, RecordedAsSettled, locals
<1>4. ASSUME NEW n \in Nodes, Resume(n)
      PROVE  WholeInv'
  <2>1. CASE record[n].status # "waiting"
    BY <1>4, <2>1 DEF Resume, ResumeFrom, writes, WholeInv, RecordedAsSettled, locals
  <2>2. CASE record[n].status = "waiting"
    BY <1>4, <2>2 DEF Resume, ResumeFrom, writes, WholeInv
  <2> QED BY <2>1, <2>2
<1>5. CASE CallerLeaves \/ AskStop
  BY <1>5 DEF CallerLeaves, AskStop, WholeInv, RecordedAsSettled, locals, broker, writes
<1>6. CASE EndStopped
  <2>1. CASE Finished(runStatus)
    BY <1>6, <2>1 DEF EndStopped, EndStoppedUnless, WholeInv, RecordedAsSettled, locals, broker, writes
  <2>2. CASE ~Finished(runStatus)
    BY <1>6, <2>2 DEF EndStopped, EndStoppedUnless, WholeInv
  <2> QED BY <2>1, <2>2
<1>7. CASE UNCHANGED vars
  BY <1>7 DEF vars, locals, broker, writes, WholeInv, RecordedAsSettled
<1> QED BY <1>1, <1>2, <1>3, <1>4, <1>5, <1>6, <1>7 DEF Next

\* Whichever writes failed on the way, a run waits only on a record that has every settled
\* node and every wait as the sweep has them.
THEOREM WaitsOnItsRecord == Spec => []WaitIsRecorded
<1>1. Init => TypeOK /\ OrderInv /\ WholeInv
  BY InitTypeOK, InitOrderInv DEF Init, WholeInv
<1>2. (TypeOK /\ OrderInv /\ WholeInv) /\ [Next]_vars => (TypeOK /\ OrderInv /\ WholeInv)'
  BY NextTypeOK, NextOrderInv, NextWholeInv
<1>3. WholeInv => WaitIsRecorded
  BY DEF WholeInv, RecordedAsSettled, WaitIsRecorded
<1> QED BY <1>1, <1>2, <1>3, PTL DEF Spec
-----------------------------------------------------------------------------
(***************************************************************************)
(* What ends stays ended.  Where no write failed, the record follows the   *)
(* sweep; so a run that ended has no node left waiting for a late answer   *)
(* to take it up from, or one whose record refuses to be resumed.          *)
(***************************************************************************)
\* What a task has answered says something.
AnswersInv == \A n \in Nodes : task[n] = "answered" => answer[n].status # "none"

LEMMA NextAnswersInv ==
    ASSUME TypeOK, AnswersInv, [Next]_vars
    PROVE  AnswersInv'
<1>1. ASSUME \A n \in Nodes : task'[n] = "answered" => task[n] = "answered",
             UNCHANGED answer
      PROVE  AnswersInv'
  BY <1>1 DEF AnswersInv
<1>2. CASE SweepStep
  BY <1>1, <1>2 DEF SweepStep, SeeStop, Look, LookAt, StopLooking, Take, TakeAs, TakeThrown,
     Throw, DrainEnds, WriteRecordAgain, WriteRecordChecking, Place, PlaceOr, HoldEnds,
     FailUnheld, Close, CloseRecording, TypeOK, tasks
<1>3. ASSUME NEW n \in Nodes, TaskStep(n)
      PROVE  AnswersInv'
  <2>1. CASE Answer(n)
    BY <2>1, AnswersType DEF Answer, AnswersInv, TypeOK
  <2>2. CASE StartAttempt(n)
    BY <2>2 DEF StartAttempt, AnswersInv, TypeOK, Bare
  <2>3. CASE EnterGate(n) \/ LoseTheGate(n) \/ PauseAttempts(n)
    BY <1>1, <2>3 DEF EnterGate, LoseTheGate, PauseAttempts, TypeOK
  <2> QED BY <1>3, <2>1, <2>2, <2>3 DEF TaskStep
<1>4. CASE \/ \E n \in Nodes : VigilIsAnswered(n) \/ Resume(n)
           \/ CallerLeaves \/ AskStop \/ EndStopped \/ UNCHANGED vars
  BY <1>1, <1>4 DEF VigilIsAnswered, Resume, ResumeFrom, CallerLeaves, AskStop, EndStopped,
     EndStoppedUnless, vars, tasks
<1> QED BY <1>2, <1>3, <1>4 DEF Next

LeavingThrows ==
    \/ pc \in {"throwing", "thrown"}
    \/ \E n \in Nodes : task[n] = "threw"
    => caller = "left"

\* The record of a node follows its result, but for the moment a refused vigil has failed it,
\* and but for a node run its run does not have.
RecordFollows(n) ==
    \/ Unrelated(n)
    \/ result[n].status = "none" /\ record[n].status \in {"none", "running", "trying"}
    \/ result[n].status # "none" /\ record[n].status = result[n].status
    \/ /\ pc \in {"placing", "failing"} /\ unhandled
       /\ result[n].status = "failed" /\ record[n].status = "waiting"

\* A node run is unrelated to its run only by a write that failed or a caller that left.
AllRelated == Undisturbed => \A n \in Nodes : ~Unrelated(n)

RecordFollowsAll == lost = 0 /\ caller # "left" /\ pc # "ended" =>
                        \A n \in Nodes : RecordFollows(n)

RunGoesOn == lost = 0 /\ pc # "ended" => runStatus \in {"running", "waiting"}

EndIsFinished == lost = 0 /\ caller # "left" /\ pc = "ended" => Finished(runStatus)

CannotResume == Missing \union Caught # {}

NothingToResume ==
    lost = 0 /\ pc = "ended" /\ Finished(runStatus) =>
        \/ \A n \in Nodes : record[n].status # "waiting"
        \/ CannotResume /\ runStatus = "failed"

WaitsAreHeld == pc = "waits" => Waiting \subseteq holding

HeldHaveVigils ==
    Undisturbed /\ pc # "ended" =>
        \A n \in holding : result[n].status = "waiting" /\ vigil[n] \in {"live", "answered"}

FinalInv == /\ LeavingThrows
            /\ RecordFollowsAll
            /\ AllRelated
            /\ RunGoesOn
            /\ EndIsFinished
            /\ NothingToResume
            /\ WaitsAreHeld
            /\ HeldHaveVigils

IInv == TypeOK /\ OrderInv /\ WholeInv /\ AnswersInv /\ FinalInv

LEMMA InitFinalInv == Init => AnswersInv /\ FinalInv
BY DEF Init, AnswersInv, FinalInv, AllRelated, Unrelated, LeavingThrows, RecordFollowsAll, RecordFollows, RunGoesOn, EndIsFinished,
       NothingToResume, WaitsAreHeld, HeldHaveVigils, Bare

LEMMA SameResume ==
    ASSUME UNCHANGED <<dag, record>>
    PROVE  CannotResume' <=> CannotResume
BY DEF CannotResume, Missing, Caught, UnderWay, Downstream, NoWireLeaves

\* What a step that creates the node runs of the nodes in ns leaves unrelated.
LEMMA RelatedOfWrite ==
    ASSUME AllRelated, Undisturbed' => Undisturbed, NEW ns \in SUBSET Nodes,
           created' = created \union ns,
           \A n \in Nodes : n \in ns \/ record'[n] = record[n],
           Undisturbed' => \A n \in ns : Unrelated(n) \/ record'[n].status # "none"
    PROVE  AllRelated'
BY DEF AllRelated, Unrelated

\* A step of the sweep or a task that writes nothing, ends nothing and places nothing.
LEMMA FinalOfQuiet ==
    ASSUME FinalInv, UNCHANGED <<result, holding, caller, broker>>,
           pc \notin {"placing", "failing", "ended"}, pc' \notin {"waits", "ended"},
           LeavingThrows'
    PROVE  FinalInv'
<1>1. RecordFollowsAll' /\ AllRelated'
  BY DEF FinalInv, RecordFollowsAll, RecordFollows, AllRelated, Unrelated, Undisturbed,
         broker, writes
<1>2. RunGoesOn' /\ EndIsFinished' /\ NothingToResume' /\ WaitsAreHeld'
  BY DEF FinalInv, RunGoesOn, EndIsFinished, NothingToResume, WaitsAreHeld, broker, writes
<1>3. HeldHaveVigils'
  BY DEF FinalInv, HeldHaveVigils, Undisturbed, broker, writes
<1> QED BY <1>1, <1>2, <1>3 DEF FinalInv

\* A step that writes what it settles or starts: the sweep's record follows it.
LEMMA FinalOfPersist ==
    ASSUME IInv, UNCHANGED <<holding, caller, vigil>>,
           pc \notin {"placing", "failing", "ended"}, pc' \notin {"placing", "waits", "failing", "ended"},
           LeavingThrows', NEW ns \in SUBSET Nodes, NEW res \in [Nodes -> Result],
           Persist(ns, res, runStatus),
           \A n \in Nodes : IF n \in ns
                            THEN IF result'[n].status = "none"
                                 THEN res[n].status \in {"none", "running", "trying"}
                                 ELSE res[n].status = result'[n].status
                            ELSE result'[n] = result[n],
           \A n \in Nodes : result[n].status = "waiting" => result'[n] = result[n],
           \A n \in ns : res[n].status # "none"
    PROVE  FinalInv'
<1>1. runStatus \in RunStatuses /\ lost \in Nat
  BY SweepAssumption DEF IInv, TypeOK
<1>2. /\ runStatus' = runStatus /\ lost <= lost' /\ lost' \in Nat
      /\ created' = created \union ns
      /\ \A n \in Nodes : record'[n] = record[n] \/ (n \in ns /\ record'[n] = res[n])
      /\ \A n \in Nodes : Unrelated(n) => record'[n] = record[n]
      /\ lost' = 0 /\ caller # "left" => \A n \in ns : Unrelated(n) \/ record'[n] = res[n]
  <2>1. MaxLost \in Nat /\ TypeOK
    BY SweepAssumption DEF IInv
  <2>2. /\ runStatus' = runStatus /\ lost <= lost' /\ lost' \in 0 .. MaxLost
        /\ Touches(ns, res) /\ (lost' = 0 /\ caller # "left" => Arrives(ns, res))
    BY <1>1, <2>1, PersistDoes
  <2> QED BY <2>1, <2>2 DEF Touches, Arrives
<1>3. /\ lost' = 0 => lost = 0
      /\ \A n \in Nodes : Unrelated(n) => Unrelated(n)'
  BY <1>1, <1>2 DEF Unrelated
<1>4. RecordFollowsAll'
  <2> SUFFICES ASSUME lost' = 0, caller # "left", NEW n \in Nodes
               PROVE  RecordFollows(n)'
    BY DEF RecordFollowsAll
  <2>1. RecordFollows(n) /\ lost = 0
    BY <1>3 DEF IInv, FinalInv, RecordFollowsAll
  <2>2. CASE Unrelated(n)
    BY <1>3, <2>2 DEF RecordFollows
  <2>3. CASE n \in ns /\ ~Unrelated(n)
    <3>1. record'[n] = res[n]
      BY <1>2, <2>3
    <3> QED BY <2>3, <3>1 DEF RecordFollows
  <2>4. CASE n \notin ns
    BY <1>2, <1>3, <2>1, <2>4 DEF RecordFollows
  <2> QED BY <2>2, <2>3, <2>4
<1>5. RunGoesOn' /\ EndIsFinished' /\ NothingToResume' /\ WaitsAreHeld'
  BY <1>2, <1>3 DEF IInv, FinalInv, RunGoesOn, EndIsFinished, NothingToResume, WaitsAreHeld
<1>6. HeldHaveVigils'
  BY <1>3 DEF IInv, TypeOK, FinalInv, HeldHaveVigils, Undisturbed
<1>7. AllRelated'
  <2>1. Undisturbed' => Undisturbed
    BY <1>3 DEF Undisturbed
  <2>2. \A n \in Nodes : n \in ns \/ record'[n] = record[n]
    BY <1>2
  <2>3. Undisturbed' => \A n \in ns : Unrelated(n) \/ record'[n].status # "none"
    BY <1>2 DEF Undisturbed
  <2> QED BY <1>2, <2>1, <2>2, <2>3, RelatedOfWrite DEF IInv, FinalInv
<1> QED BY <1>4, <1>5, <1>6, <1>7 DEF FinalInv

LEMMA FinalOfSweepQuiet ==
    ASSUME IInv, \/ SeeStop \/ StopLooking \/ Throw \/ DrainEnds
                 \/ \E n \in Nodes : TakeThrown(n)
    PROVE  FinalInv'
<1>1. /\ UNCHANGED <<result, holding, caller, broker>>
      /\ pc \notin {"placing", "failing", "ended"} /\ pc' \notin {"waits", "ended"}
  BY DEF SeeStop, StopLooking, Throw, DrainEnds, TakeThrown, locals, others
<1>2. LeavingThrows'
  <2>1. CASE SeeStop \/ StopLooking \/ DrainEnds
    BY <2>1 DEF SeeStop, StopLooking, DrainEnds, tasks, others, IInv, FinalInv, LeavingThrows
  <2>2. CASE Throw
    BY <2>2 DEF Throw, IInv, FinalInv, LeavingThrows
  <2>3. ASSUME NEW n \in Nodes, TakeThrown(n) PROVE LeavingThrows'
    BY <2>3 DEF TakeThrown, others, IInv, FinalInv, LeavingThrows
  <2> QED BY <2>1, <2>2, <2>3
<1> QED BY <1>1, <1>2, FinalOfQuiet DEF IInv

LEMMA FinalOfLook ==
    ASSUME IInv, Look
    PROVE  FinalInv'
<1> DEFINE res == [n \in Nodes |-> Bare("notTaken")]
<1>1. /\ UNCHANGED <<holding, caller, vigil>>
      /\ pc = "looking" /\ pc' \in {"looking", "draining", "taking"}
      /\ result' = [n \in Nodes |-> IF n \in NotTaken THEN Bare("notTaken") ELSE result[n]]
      /\ task' = [n \in Nodes |-> IF n \in Ready \ NotTaken THEN "queued" ELSE task[n]]
      /\ Persist(NotTaken, res, runStatus)
  BY DEF Look, LookAt, locals, others
<1>2. NotTaken \in SUBSET Nodes /\ \A n \in NotTaken : result[n].status = "none"
  BY DEF NotTaken, Ready, Pending
<1>3. res \in [Nodes -> Result] /\ \A n \in Nodes : res[n].status = "notTaken"
  BY ResultTypes DEF Statuses, Bare
<1> HIDE DEF res
<1>4. LeavingThrows'
  BY <1>1 DEF IInv, FinalInv, LeavingThrows
<1>5. \A n \in Nodes : IF n \in NotTaken THEN result'[n].status = "notTaken"
                       ELSE result'[n] = result[n]
  BY <1>1 DEF Bare
<1> QED BY <1>1, <1>2, <1>3, <1>4, <1>5, FinalOfPersist

LEMMA FinalOfTake ==
    ASSUME IInv, NEW n \in Nodes, Take(n)
    PROVE  FinalInv'
<1>1. /\ UNCHANGED <<holding, caller, vigil>>
      /\ pc \in {"taking", "draining"} /\ pc' \in {"looking", "draining"}
      /\ task[n] = "answered" /\ task' = [task EXCEPT ![n] = "none"]
      /\ result' = [result EXCEPT ![n] = answer[n]]
      /\ Persist({n}, result', runStatus)
  BY DEF Take, TakeAs, others
<1>2. PICK res : res = result'
  OBVIOUS
<1>3. res \in [Nodes -> Result] /\ {n} \in SUBSET Nodes /\ Persist({n}, res, runStatus)
  BY <1>1, <1>2 DEF IInv, TypeOK
<1>4. LeavingThrows'
  BY <1>1 DEF IInv, FinalInv, LeavingThrows, TypeOK
<1>5. result[n].status = "none"
  BY <1>1 DEF IInv, OrderInv, StartedUnsettled
<1>6. \A m \in Nodes : m # n => result'[m] = result[m]
  BY <1>1 DEF IInv, TypeOK
<1>7. res[n].status # "none"
  BY <1>1, <1>2 DEF IInv, AnswersInv, TypeOK
<1> QED BY <1>1, <1>2, <1>3, <1>4, <1>5, <1>6, <1>7, FinalOfPersist

LEMMA FinalOfTask ==
    ASSUME IInv, NEW n \in Nodes, TaskStep(n)
    PROVE  FinalInv'
<1>1. /\ task[n] # "none" /\ UNCHANGED <<result, pc, holding, caller, vigil>>
  BY DEF TaskStep, EnterGate, LoseTheGate, StartAttempt, PauseAttempts,
         Answer, locals, others, broker, writes
<1>2. pc \notin PastTheDrain /\ result[n].status = "none"
  BY <1>1 DEF IInv, OrderInv, NoTaskIsLeft, StartedUnsettled
<1>3. LeavingThrows'
  BY <1>1 DEF TaskStep, EnterGate, LoseTheGate, StartAttempt, PauseAttempts,
              Answer, IInv, FinalInv, LeavingThrows, TypeOK
<1>4. CASE LoseTheGate(n) \/ StartAttempt(n) \/ Answer(n)
  <2>1. UNCHANGED broker
    BY <1>4 DEF LoseTheGate, StartAttempt, Answer
  <2> QED BY <1>1, <1>2, <1>3, <2>1, FinalOfQuiet DEF IInv, PastTheDrain
<1>5. ASSUME NEW status \in {"running", "trying"}, Persist({n}, [m \in Nodes |-> Bare(status)], runStatus)
      PROVE  FinalInv'
  <2> DEFINE res == [m \in Nodes |-> Bare(status)]
  <2>1. res \in [Nodes -> Result] /\ \A m \in Nodes : res[m].status = status
    BY ResultTypes DEF Statuses, Bare
  <2>2. Persist({n}, res, runStatus) /\ {n} \in SUBSET Nodes
    BY <1>5
  <2> HIDE DEF res
  <2> QED BY <1>1, <1>2, <1>3, <2>1, <2>2, FinalOfPersist DEF PastTheDrain
<1>6. CASE EnterGate(n)
  BY <1>5, <1>6 DEF EnterGate
<1>7. CASE PauseAttempts(n)
  BY <1>5, <1>7 DEF PauseAttempts
<1> QED BY <1>4, <1>6, <1>7 DEF TaskStep

LEMMA FinalOfWriteRecord ==
    ASSUME IInv, WriteRecordAgain
    PROVE  FinalInv'
<1> DEFINE known   == {n \in Nodes : result[n].status # "none"}
           written == [n \in Nodes |-> Undecided(n)]
<1>0. written \in [Nodes -> Result] /\ \A rec : Unrecorded(rec) \in SUBSET Nodes
  BY WriteRecordTypes DEF IInv
<1>1. PICK unread, unreadAfter \in BOOLEAN, missed \in SUBSET Nodes :
        /\ missed = IF unreadAfter THEN known ELSE Unrecorded(record')
        /\ caller = "left" \/ WriteBeside((IF unread THEN 1 ELSE 0) + (IF unreadAfter THEN 1 ELSE 0),
                                          IF unread THEN known ELSE Unrecorded(record),
                                          written, runStatus)
        /\ caller = "left" => UNCHANGED <<record, runStatus, lost>>
        /\ result' = [n \in Nodes |-> IF n \in missed THEN Failed ELSE result[n]]
        /\ pc' = IF missed = {} THEN "placing" ELSE "failing"
  BY <1>0 DEF WriteRecordAgain, WriteRecordChecking, WriteNothing
<1> HIDE DEF written
<1>2. /\ pc = "writing" /\ UNCHANGED <<holding, unhandled, task, caller, vigil>>
  BY DEF WriteRecordAgain, WriteRecordChecking, locals, tasks, others
<1>3. lost \in Nat /\ runStatus \in RunStatuses /\ result \in [Nodes -> Result]
  BY SweepAssumption DEF IInv, TypeOK
<1>4. LeavingThrows'
  BY <1>1, <1>2 DEF IInv, FinalInv, LeavingThrows
<1>5. CASE caller = "left"
  BY <1>1, <1>2, <1>4, <1>5 DEF IInv, FinalInv, RecordFollowsAll, AllRelated, RunGoesOn,
     EndIsFinished, NothingToResume, WaitsAreHeld, HeldHaveVigils, Undisturbed
<1>6. CASE caller # "left"
  <2>1. written \in [Nodes -> Result]
    BY <1>0
  <2>2. PICK cost \in Nat, todo \in SUBSET Nodes :
          /\ WriteBeside(cost, todo, written, runStatus)
          /\ unread \/ unreadAfter => cost > 0
          /\ ~unread => todo = Unrecorded(record)
    <3>1. known \in SUBSET Nodes /\ Unrecorded(record) \in SUBSET Nodes
      BY <1>1 DEF Unrecorded
    <3> DEFINE cost == (IF unread THEN 1 ELSE 0) + (IF unreadAfter THEN 1 ELSE 0)
    <3>2. cost \in Nat /\ (unread \/ unreadAfter => cost > 0)
      OBVIOUS
    <3>3. WriteBeside(cost, IF unread THEN known ELSE Unrecorded(record), written, runStatus)
      BY <1>1, <1>6
    <3> QED BY <3>1, <3>2, <3>3
  <2>3. /\ runStatus' = runStatus /\ lost' \in Nat /\ lost + cost <= lost'
        /\ created' = created \union todo
        /\ \A n \in Nodes : record'[n] = record[n] \/ (n \in todo /\ record'[n] = written[n])
        /\ \A n \in Nodes : Unrelated(n) => record'[n] = record[n]
    <3>1. MaxLost \in Nat /\ TypeOK
      BY SweepAssumption DEF IInv
    <3>2. /\ runStatus' = runStatus /\ lost + cost <= lost' /\ lost' \in 0 .. MaxLost
          /\ Touches(todo, written)
      BY <1>3, <2>1, <2>2, <3>1, WriteDoes
    <3> QED BY <3>1, <3>2 DEF Touches
  <2>4. ASSUME lost' = 0
        PROVE  /\ lost = 0
               /\ \A n \in Nodes : record'[n] = record[n] /\ (n \in todo => Unrelated(n))
               /\ \A n \in Nodes : Unrelated(n) \/ result'[n] = result[n]
    <3>1. lost = 0 /\ cost = 0
      BY <1>3, <2>2, <2>3, <2>4
    <3>2. \A n \in Nodes : RecordFollows(n)
      BY <1>2, <1>6, <3>1 DEF IInv, FinalInv, RecordFollowsAll
    <3>3. \A n \in Unrecorded(record) : Unrelated(n)
      BY <1>2, <3>2 DEF Unrecorded, RecordFollows
    <3>4. ~unread /\ ~unreadAfter /\ todo = Unrecorded(record)
      BY <2>2, <3>1
    <3>5. \A n \in Nodes : record'[n] = record[n]
      BY <2>3, <3>3, <3>4
    <3>6. \A n \in missed : Unrelated(n)
      BY <1>1, <3>3, <3>4, <3>5 DEF Unrecorded
    <3> QED BY <1>1, <1>3, <3>1, <3>3, <3>4, <3>5, <3>6
  <2>5. RecordFollowsAll' /\ AllRelated'
    <3>1. ASSUME lost' = 0, NEW n \in Nodes
          PROVE  RecordFollows(n)' /\ (Unrelated(n)' => Unrelated(n))
      <4>1. RecordFollows(n)
        BY <1>2, <1>6, <2>4, <3>1 DEF IInv, FinalInv, RecordFollowsAll
      <4>2. Unrelated(n)' <=> Unrelated(n)
        BY <2>3, <2>4, <3>1 DEF Unrelated
      <4>3. Unrelated(n) \/ (record'[n] = record[n] /\ result'[n] = result[n])
        BY <2>4, <3>1
      <4> QED BY <1>2, <4>1, <4>2, <4>3 DEF RecordFollows
    <3> QED BY <1>2, <2>4, <3>1 DEF IInv, FinalInv, RecordFollowsAll, AllRelated, Undisturbed
  <2>6. pc' \in {"placing", "failing"}
    BY <1>1
  <2>7. RunGoesOn' /\ EndIsFinished' /\ NothingToResume' /\ WaitsAreHeld'
    BY <1>2, <2>3, <2>4, <2>6
    DEF IInv, FinalInv, RunGoesOn, EndIsFinished, NothingToResume, WaitsAreHeld
  <2>8. HeldHaveVigils'
    <3>1. \A n \in holding : n \in Nodes
      BY DEF IInv, TypeOK
    <3> QED
      BY <1>2, <2>4, <3>1 DEF IInv, FinalInv, AllRelated, HeldHaveVigils, Undisturbed
  <2> QED BY <1>4, <2>5, <2>7, <2>8 DEF FinalInv
<1> QED BY <1>5, <1>6

LEMMA FinalOfPlace ==
    ASSUME IInv, NEW n \in Nodes, Place(n)
    PROVE  FinalInv'
<1>1. /\ pc = "placing" /\ pc' = "placing"
      /\ n \in Waiting \ holding
      /\ UNCHANGED <<task, caller, record, created, runStatus, lost>>
      /\ \/ /\ vigil' = [vigil EXCEPT ![n] = "live"]
            /\ holding' = holding \union {n}
            /\ UNCHANGED <<result, unhandled>>
         \/ /\ result' = [result EXCEPT ![n] = Failed]
            /\ holding' = holding
            /\ unhandled' = TRUE
            /\ UNCHANGED vigil
  BY DEF Place, PlaceOr, writes, tasks, others, IInv, TypeOK
<1>2. LeavingThrows'
  BY <1>1 DEF IInv, FinalInv, LeavingThrows
<1>3. RecordFollowsAll' /\ AllRelated'
  <2>0. AllRelated' /\ \A m \in Nodes : Unrelated(m) <=> Unrelated(m)'
    BY <1>1 DEF IInv, FinalInv, AllRelated, Unrelated, Undisturbed
  <2> SUFFICES ASSUME lost = 0, caller # "left", NEW m \in Nodes
               PROVE  RecordFollows(m)'
    BY <1>1, <2>0 DEF RecordFollowsAll
  <2>1. RecordFollows(m)
    BY <1>1 DEF IInv, FinalInv, RecordFollowsAll
  <2>2. CASE UNCHANGED <<result, unhandled>>
    BY <1>1, <2>0, <2>1, <2>2 DEF RecordFollows
  <2>3. CASE result' = [result EXCEPT ![n] = Failed] /\ unhandled' = TRUE
    <3>1. CASE m = n
      <4>1. result[n].status = "waiting" /\ result'[n].status = "failed"
        BY <1>1, <2>3 DEF Waiting, Failed, IInv, TypeOK
      <4>2. Unrelated(n) \/ record[n].status = "waiting"
        BY <2>1, <3>1, <4>1 DEF RecordFollows
      <4> QED BY <1>1, <2>0, <2>3, <3>1, <4>1, <4>2 DEF RecordFollows
    <3>2. CASE m # n
      BY <1>1, <2>0, <2>1, <2>3, <3>2 DEF RecordFollows, IInv, TypeOK
    <3> QED BY <3>1, <3>2
  <2> QED BY <1>1, <2>2, <2>3
<1>4. RunGoesOn' /\ EndIsFinished' /\ NothingToResume' /\ WaitsAreHeld'
  BY <1>1 DEF IInv, FinalInv, RunGoesOn, EndIsFinished, NothingToResume, WaitsAreHeld
<1>5. HeldHaveVigils'
  BY <1>1 DEF IInv, TypeOK, FinalInv, HeldHaveVigils, Undisturbed, Waiting
<1> QED BY <1>2, <1>3, <1>4, <1>5 DEF FinalInv

LEMMA FinalOfHoldEnds ==
    ASSUME IInv, HoldEnds
    PROVE  FinalInv'
<1>1. /\ pc = "placing" /\ Waiting \subseteq holding
      /\ UNCHANGED <<result, holding, unhandled, task, caller>>
  BY DEF HoldEnds, locals, tasks
<1>2. LeavingThrows'
  BY <1>1 DEF HoldEnds, IInv, FinalInv, LeavingThrows
<1>3. CASE unhandled
  <2>1. pc' = "failing" /\ UNCHANGED broker
    BY <1>3 DEF HoldEnds
  <2>2. RecordFollowsAll' /\ AllRelated'
    BY <1>1, <2>1 DEF broker, writes, IInv, FinalInv, RecordFollowsAll, RecordFollows, AllRelated,
                      Unrelated, Undisturbed
  <2>3. RunGoesOn' /\ EndIsFinished' /\ NothingToResume' /\ WaitsAreHeld'
    BY <1>1, <2>1 DEF broker, writes, IInv, FinalInv, RunGoesOn, EndIsFinished, NothingToResume, WaitsAreHeld
  <2>4. HeldHaveVigils'
    BY <1>1, <2>1 DEF broker, writes, IInv, FinalInv, HeldHaveVigils, Undisturbed
  <2> QED BY <1>2, <2>2, <2>3, <2>4 DEF FinalInv
<1>4. CASE ~unhandled
  <2>1. pc' = "waits" /\ Persist({}, record, "waiting") /\ UNCHANGED vigil
    BY <1>4 DEF HoldEnds
  <2>2. /\ \A n \in Nodes : record'[n] = record[n]
        /\ created' = created
        /\ runStatus' \in {runStatus, "waiting"} /\ lost <= lost' /\ lost' \in Nat /\ lost \in Nat
    <3>1. /\ record \in [Nodes -> Result] /\ "waiting" \in RunStatuses /\ {} \in SUBSET Nodes
          /\ lost \in Nat
      BY SweepAssumption DEF IInv, TypeOK, RunStatuses
    <3>2. MaxLost \in Nat /\ TypeOK
      BY SweepAssumption DEF IInv
    <3>3. /\ runStatus' \in {runStatus, "waiting"} /\ lost <= lost' /\ lost' \in 0 .. MaxLost
          /\ Touches({}, record)
      BY <2>1, <3>1, <3>2, PersistDoes
    <3> QED BY <3>1, <3>2, <3>3 DEF Touches
  <2>3. lost' = 0 => lost = 0
    BY <2>2
  <2>4. RecordFollowsAll' /\ AllRelated'
    BY <1>1, <1>4, <2>1, <2>2, <2>3 DEF IInv, FinalInv, RecordFollowsAll, RecordFollows,
                                        AllRelated, Unrelated, Undisturbed
  <2>5. RunGoesOn' /\ EndIsFinished' /\ NothingToResume'
    BY <1>1, <2>1, <2>2, <2>3 DEF IInv, FinalInv, RunGoesOn, EndIsFinished, NothingToResume
  <2>6. WaitsAreHeld'
    BY <1>1 DEF WaitsAreHeld, Waiting
  <2>7. HeldHaveVigils'
    BY <1>1, <2>1, <2>3 DEF IInv, FinalInv, HeldHaveVigils, Undisturbed
  <2> QED BY <1>2, <2>4, <2>5, <2>6, <2>7 DEF FinalInv
<1> QED BY <1>3, <1>4

LEMMA FinalOfFailUnheld ==
    ASSUME IInv, FailUnheld
    PROVE  FinalInv'
<1> DEFINE unwritten == {n \in Nodes : result[n].status = "failed"} \intersect Unrecorded(record)
<1>1. /\ pc = "failing" /\ pc' = "closing"
      /\ UNCHANGED <<result, holding, task, caller, vigil>>
      /\ Persist(unwritten, result, runStatus) /\ unwritten \in SUBSET Nodes
  BY DEF FailUnheld, tasks, others
<1>2. \A n \in Nodes : n \in unwritten <=> /\ result[n].status = "failed"
                                           /\ record[n].status # result[n].status
  BY DEF Unrecorded
<1>3. /\ result \in [Nodes -> Result] /\ runStatus \in RunStatuses /\ lost \in Nat
  BY SweepAssumption DEF IInv, TypeOK
<1> HIDE DEF unwritten
<1>4. /\ runStatus' = runStatus /\ lost <= lost' /\ lost' \in Nat
      /\ created' = created \union unwritten
      /\ \A n \in Nodes : record'[n] = record[n] \/ (n \in unwritten /\ record'[n] = result[n])
      /\ \A n \in Nodes : Unrelated(n) => record'[n] = record[n]
      /\ lost' = 0 /\ caller # "left" =>
             \A n \in unwritten : Unrelated(n) \/ record'[n] = result[n]
  <2>1. MaxLost \in Nat /\ TypeOK
    BY SweepAssumption DEF IInv
  <2>2. /\ runStatus' = runStatus /\ lost <= lost' /\ lost' \in 0 .. MaxLost
        /\ Touches(unwritten, result)
        /\ lost' = 0 /\ caller # "left" => Arrives(unwritten, result)
    BY <1>1, <1>3, <2>1, PersistDoes
  <2> QED BY <2>1, <2>2 DEF Touches, Arrives
<1>5. lost' = 0 => lost = 0
  BY <1>3, <1>4
<1>6. LeavingThrows'
  BY <1>1 DEF IInv, FinalInv, LeavingThrows
<1>7. RecordFollowsAll'
  <2> SUFFICES ASSUME lost' = 0, caller # "left", NEW n \in Nodes
               PROVE  RecordFollows(n)'
    BY <1>1 DEF RecordFollowsAll
  <2>1. RecordFollows(n)
    BY <1>1, <1>5 DEF IInv, FinalInv, RecordFollowsAll
  <2>2. Unrelated(n) => Unrelated(n)'
    BY <1>4 DEF Unrelated
  <2>3. CASE n \in unwritten
    BY <1>1, <1>2, <1>4, <2>2, <2>3 DEF RecordFollows
  <2>4. CASE n \notin unwritten
    BY <1>1, <1>2, <1>4, <2>1, <2>2, <2>4 DEF RecordFollows
  <2> QED BY <2>3, <2>4
<1>8. RunGoesOn' /\ EndIsFinished' /\ NothingToResume' /\ WaitsAreHeld'
  BY <1>1, <1>4, <1>5 DEF IInv, FinalInv, RunGoesOn, EndIsFinished, NothingToResume, WaitsAreHeld
<1>9. HeldHaveVigils'
  BY <1>1, <1>5 DEF IInv, FinalInv, HeldHaveVigils, Undisturbed
<1>10. AllRelated'
  <2>1. Undisturbed' => Undisturbed
    BY <1>1, <1>5 DEF Undisturbed
  <2>2. \A n \in Nodes : n \in unwritten \/ record'[n] = record[n]
    BY <1>4
  <2>3. Undisturbed' => \A n \in unwritten : Unrelated(n) \/ record'[n].status # "none"
    BY <1>1, <1>2, <1>4 DEF Undisturbed
  <2> QED BY <1>1, <1>4, <2>1, <2>2, <2>3, RelatedOfWrite DEF IInv, FinalInv
<1> QED BY <1>6, <1>7, <1>8, <1>9, <1>10 DEF FinalInv

LEMMA JudgedIsFinished == \A passes \in BOOLEAN : Finished(StatusJudged(passes))
BY DEF StatusJudged, Finished

LEMMA FinalOfClose ==
    ASSUME IInv, Close
    PROVE  FinalInv'
<1> DEFINE unreached == {n \in Nodes : ~Settled(n)}
           leftOut   == Bare(IF stopped THEN "cancelled" ELSE "skipped")
<1>1. /\ pc = "closing" /\ pc' = "ended" /\ UNCHANGED <<task, caller>>
      /\ result' = [n \in Nodes |-> IF n \notin unreached THEN result[n] ELSE leftOut]
  BY DEF Close, CloseRecording, tasks
<1>2. PICK passes \in Verdicts : Persist(unreached, result', StatusJudged(passes))
  BY DEF Close, CloseRecording
<1>3. PICK res : res = result'
  OBVIOUS
<1>4. leftOut \in Result /\ leftOut.status \in {"cancelled", "skipped"}
  BY ResultTypes DEF Statuses, Bare
<1>5. \A n \in Nodes : n \in unreached <=> ~Settled(n)
  OBVIOUS
<1> HIDE DEF unreached, leftOut
<1>6. /\ res \in [Nodes -> Result]
      /\ \A n \in unreached : res[n].status \in {"cancelled", "skipped"}
      /\ unreached \in SUBSET Nodes
  BY <1>1, <1>3, <1>4 DEF IInv, TypeOK, unreached
<1>7. PICK status \in RunStatuses : Finished(status) /\ status = StatusJudged(passes)
  BY JudgedType, JudgedIsFinished DEF Verdicts
<1>8. /\ lost <= lost' /\ lost' \in Nat /\ lost \in Nat
      /\ caller = "left" => runStatus' = runStatus
      /\ created' = created \union unreached
      /\ lost' = 0 /\ caller # "left" => /\ \A n \in unreached : Unrelated(n) \/ record'[n] = res[n]
                                         /\ runStatus' = status
      /\ \A n \in Nodes : record'[n] = record[n] \/ (n \in unreached /\ record'[n] = res[n])
      /\ \A n \in Nodes : Unrelated(n) => record'[n] = record[n]
  <2>1. Persist(unreached, res, status) /\ lost \in Nat
    BY <1>2, <1>3, <1>7, SweepAssumption DEF IInv, TypeOK
  <2>2. record \in [Nodes -> Result] /\ runStatus \in RunStatuses
    BY DEF IInv, TypeOK
  <2>3. caller = "left" => runStatus' = runStatus
    BY <2>1 DEF Persist, WriteNothing
  <2>4. TypeOK /\ MaxLost \in Nat
    BY SweepAssumption DEF IInv
  <2>5. /\ lost' \in 0 .. MaxLost /\ lost <= lost'
        /\ Touches(unreached, res)
        /\ lost' = 0 /\ caller # "left" => Arrives(unreached, res) /\ runStatus' = status
    BY <1>6, <2>1, <2>4, PersistDoes
  <2>6. lost' \in Nat
    BY <2>4, <2>5
  <2> QED BY <2>1, <2>3, <2>5, <2>6 DEF Touches, Arrives
<1>9. lost' = 0 => lost = 0
  BY <1>8
<1>10. LeavingThrows'
  BY <1>1 DEF IInv, FinalInv, LeavingThrows
<1>11. EndIsFinished'
  BY <1>1, <1>7, <1>8 DEF EndIsFinished, Finished
<1>12. NothingToResume'
  <2>1. ASSUME lost' = 0, caller # "left", NEW n \in Nodes
        PROVE  record'[n].status # "waiting"
    <3>1. RecordFollows(n)
      BY <1>1, <1>9, <2>1 DEF IInv, FinalInv, RecordFollowsAll
    <3>2. CASE Unrelated(n)
      BY <1>8, <3>2 DEF Unrelated
    <3>3. CASE n \in unreached /\ ~Unrelated(n)
      BY <1>6, <1>8, <2>1, <3>3
    <3>4. CASE n \notin unreached /\ ~Unrelated(n)
      BY <1>1, <1>5, <1>8, <3>1, <3>4 DEF RecordFollows, Settled
    <3> QED BY <3>2, <3>3, <3>4
  <2>2. ASSUME lost' = 0, caller = "left"
        PROVE  ~Finished(runStatus)'
    BY <1>1, <1>8, <1>9, <2>2 DEF IInv, FinalInv, RunGoesOn, Finished
  <2> QED BY <2>1, <2>2 DEF NothingToResume
<1>13. RecordFollowsAll' /\ RunGoesOn' /\ WaitsAreHeld' /\ HeldHaveVigils'
  BY <1>1 DEF RecordFollowsAll, RunGoesOn, WaitsAreHeld, HeldHaveVigils
<1>14. AllRelated'
  <2>1. Undisturbed' => Undisturbed
    BY <1>1, <1>9 DEF Undisturbed
  <2>2. \A n \in Nodes : n \in unreached \/ record'[n] = record[n]
    BY <1>8
  <2>3. Undisturbed' => \A n \in unreached : Unrelated(n) \/ record'[n].status # "none"
    BY <1>1, <1>6, <1>8 DEF Undisturbed
  <2> QED BY <1>6, <1>8, <2>1, <2>2, <2>3, RelatedOfWrite DEF IInv, FinalInv
<1> QED BY <1>10, <1>11, <1>12, <1>13, <1>14 DEF FinalInv

LEMMA FinalOfVigil ==
    ASSUME IInv, NEW n \in Nodes, VigilIsAnswered(n)
    PROVE  FinalInv'
<1>1. /\ vigil' = [vigil EXCEPT ![n] = "answered"]
      /\ UNCHANGED <<dag, pc, result, holding, unhandled, task, caller, record, created, runStatus,
                     lost>>
  BY DEF VigilIsAnswered, writes, run, locals, tasks, others
<1>2. LeavingThrows' /\ RunGoesOn' /\ EndIsFinished'
  BY <1>1 DEF IInv, FinalInv, LeavingThrows, RunGoesOn, EndIsFinished, Finished
<1>3. RecordFollowsAll' /\ AllRelated' /\ WaitsAreHeld'
  BY <1>1 DEF IInv, FinalInv, RecordFollowsAll, RecordFollows, AllRelated, Unrelated, Undisturbed,
              WaitsAreHeld, Waiting
<1>4. NothingToResume'
  BY <1>1, SameResume DEF IInv, FinalInv, NothingToResume, Finished
<1>5. HeldHaveVigils'
  BY <1>1 DEF IInv, TypeOK, FinalInv, HeldHaveVigils, Undisturbed
<1> QED BY <1>2, <1>3, <1>4, <1>5 DEF FinalInv

LEMMA FinalOfOthers ==
    ASSUME IInv, CallerLeaves \/ AskStop \/ UNCHANGED vars
    PROVE  FinalInv'
<1>1. /\ UNCHANGED <<dag, pc, result, holding, unhandled, task, record, created, runStatus, vigil,
                     lost>>
      /\ UNCHANGED caller \/ (caller' = "left" /\ pc # "ended")
  BY DEF CallerLeaves, AskStop, vars, run, locals, tasks, others, broker, writes
<1>2. LeavingThrows' /\ RunGoesOn' /\ EndIsFinished'
  BY <1>1 DEF IInv, FinalInv, LeavingThrows, RunGoesOn, EndIsFinished, Finished
<1>3. RecordFollowsAll' /\ AllRelated' /\ WaitsAreHeld'
  BY <1>1 DEF IInv, FinalInv, RecordFollowsAll, RecordFollows, AllRelated, Unrelated, Undisturbed,
              WaitsAreHeld, Waiting
<1>4. NothingToResume'
  BY <1>1, SameResume DEF IInv, FinalInv, NothingToResume, Finished
<1>5. HeldHaveVigils'
  BY <1>1 DEF IInv, TypeOK, FinalInv, HeldHaveVigils, Undisturbed
<1> QED BY <1>2, <1>3, <1>4, <1>5 DEF FinalInv

LEMMA FinalOfEndStopped ==
    ASSUME IInv, EndStopped
    PROVE  FinalInv'
<1>1. UNCHANGED <<dag, result, holding, unhandled, task, caller>>
  BY DEF EndStopped, EndStoppedUnless, run, locals, tasks
<1>2. CASE Finished(runStatus)
  <2>1. UNCHANGED <<pc, record, created, runStatus, vigil, lost>>
    BY <1>2 DEF EndStopped, EndStoppedUnless, broker, writes
  <2>2. LeavingThrows' /\ RunGoesOn' /\ EndIsFinished'
    BY <1>1, <2>1 DEF IInv, FinalInv, LeavingThrows, RunGoesOn, EndIsFinished, Finished
  <2>3. RecordFollowsAll' /\ AllRelated' /\ WaitsAreHeld'
    BY <1>1, <2>1 DEF IInv, FinalInv, RecordFollowsAll, RecordFollows, AllRelated, Unrelated,
                      Undisturbed, WaitsAreHeld, Waiting
  <2>4. NothingToResume'
    BY <1>1, <2>1, SameResume DEF IInv, FinalInv, NothingToResume, Finished
  <2>5. HeldHaveVigils'
    BY <1>1, <2>1 DEF IInv, FinalInv, HeldHaveVigils, Undisturbed
  <2> QED BY <2>2, <2>3, <2>4, <2>5 DEF FinalInv
<1>3. CASE ~Finished(runStatus)
  <2> DEFINE res        == [n \in Nodes |-> Bare("cancelled")]
             unfinished == {n \in Nodes : ~Finished(record[n].status)}
             atStake    == {n \in Nodes : record[n].status = "waiting" /\ vigil[n] = "live"}
  <2>1. PICK kept \in SUBSET atStake :
            WriteBeside(Cardinality(kept), unfinished, res, "cancelled")
    BY <1>3 DEF EndStopped, EndStoppedUnless
  <2>2. pc' = "ended"
    BY <1>3 DEF EndStopped, EndStoppedUnless
  <2>3. res \in [Nodes -> Result] /\ \A n \in Nodes : res[n].status = "cancelled"
    BY ResultTypes DEF Statuses, Bare
  <2>4. \A n \in Nodes : n \in unfinished <=> ~Finished(record[n].status)
    OBVIOUS
  <2>5. unfinished \in SUBSET Nodes /\ "cancelled" \in RunStatuses /\ TypeOK
    BY DEF RunStatuses, IInv
  <2>6. Cardinality(kept) \in Nat
    <3>1. kept \in SUBSET Nodes
      BY <2>1
    <3> QED BY <3>1, SweepAssumption, FS_Subset, FS_CardinalityType
  <2> HIDE DEF res, unfinished, atStake
  <2>7. /\ \A n \in Nodes : record'[n] = record[n] \/ (n \in unfinished /\ record'[n] = res[n])
        /\ created' = created \union unfinished
        /\ \A n \in Nodes : Unrelated(n) => record'[n] = record[n]
        /\ lost' = 0 => /\ \A n \in unfinished : Unrelated(n) \/ record'[n] = res[n]
                        /\ runStatus' = "cancelled"
        /\ lost + Cardinality(kept) <= lost' /\ lost' \in 0 .. MaxLost
    <3>1. /\ lost + Cardinality(kept) <= lost' /\ lost' \in 0 .. MaxLost
          /\ Touches(unfinished, res)
          /\ lost' = 0 => Arrives(unfinished, res) /\ runStatus' = "cancelled"
      BY <2>1, <2>3, <2>5, <2>6, WriteDoes
    <3> QED BY <3>1 DEF Touches, Arrives
  <2>8. LeavingThrows'
    BY <1>1, <2>2 DEF IInv, FinalInv, LeavingThrows
  <2>9. EndIsFinished'
    BY <2>7 DEF EndIsFinished, Finished
  <2>10. NothingToResume'
    <3>1. ASSUME lost' = 0, NEW n \in Nodes
          PROVE  record'[n].status # "waiting"
      <4>1. CASE Unrelated(n)
        BY <2>7, <4>1 DEF Unrelated
      <4>2. CASE n \in unfinished /\ ~Unrelated(n)
        BY <2>3, <2>7, <3>1, <4>2
      <4>3. CASE n \notin unfinished
        BY <2>4, <2>7, <4>3 DEF Finished
      <4> QED BY <4>1, <4>2, <4>3
    <3> QED BY <3>1 DEF NothingToResume
  <2>11. RecordFollowsAll' /\ RunGoesOn' /\ WaitsAreHeld' /\ HeldHaveVigils'
    BY <2>2 DEF RecordFollowsAll, RunGoesOn, WaitsAreHeld, HeldHaveVigils
  <2>12. AllRelated'
    <3>1. lost' = 0 => lost = 0
      BY <2>6, <2>7, SweepAssumption DEF IInv, TypeOK
    <3>2. Undisturbed' => Undisturbed
      BY <1>1, <3>1 DEF Undisturbed
    <3>3. \A n \in Nodes : n \in unfinished \/ record'[n] = record[n]
      BY <2>7
    <3>4. Undisturbed' => \A n \in unfinished : Unrelated(n) \/ record'[n].status # "none"
      <4>1. \A n \in unfinished : res[n].status # "none"
        BY <2>3, <2>5
      <4> QED BY <2>7, <4>1 DEF Undisturbed
    <3> QED BY <2>5, <2>7, <3>2, <3>3, <3>4, RelatedOfWrite DEF IInv, FinalInv
  <2> QED BY <2>8, <2>9, <2>10, <2>11, <2>12 DEF FinalInv
<1> QED BY <1>2, <1>3

\* Where nothing disturbed the run, only a wait of a run that waits is taken up again.
LEMMA ResumedWaits ==
    ASSUME IInv, NEW n \in Nodes, vigil[n] = "answered", TurnIsFree, Undisturbed,
           record[n].status = "waiting", ~CannotResume
    PROVE  pc = "waits"
<1>1. pc # "thrown"
  BY DEF IInv, FinalInv, LeavingThrows, Undisturbed
<1>2. pc # "ended"
  BY DEF IInv, FinalInv, EndIsFinished, NothingToResume, Undisturbed
<1> QED BY <1>1, <1>2 DEF TurnIsFree

LEMMA FinalOfResume ==
    ASSUME IInv, NEW n \in Nodes, Resume(n)
    PROVE  FinalInv'
<1>1. /\ vigil[n] = "answered" /\ vigil' = [vigil EXCEPT ![n] = "gone"]
      /\ TurnIsFree /\ pc \in {"waits", "ended", "thrown"}
      /\ UNCHANGED <<dag, task>>
  BY DEF Resume, ResumeFrom, writes, run, tasks, TurnIsFree
<1>2. \A m \in Nodes : task[m] = "none"
  BY <1>1 DEF IInv, OrderInv, NoTaskIsLeft, PastTheDrain
<1>3. TypeOK /\ lost \in Nat /\ record \in [Nodes -> Result] /\ vigil' \in [Nodes -> {"none", "live", "answered", "gone"}]
  BY <1>1, SweepAssumption DEF IInv, TypeOK
<1>4. CASE record[n].status # "waiting"
  <2>1. UNCHANGED <<pc, result, holding, unhandled, caller, record, created, runStatus, lost>>
    BY <1>4 DEF Resume, ResumeFrom, writes, locals
  <2>2. LeavingThrows' /\ RunGoesOn' /\ EndIsFinished'
    BY <1>1, <2>1 DEF IInv, FinalInv, LeavingThrows, RunGoesOn, EndIsFinished, Finished
  <2>3. RecordFollowsAll' /\ AllRelated' /\ WaitsAreHeld'
    BY <2>1 DEF IInv, FinalInv, RecordFollowsAll, RecordFollows, AllRelated, Unrelated,
                Undisturbed, WaitsAreHeld, Waiting
  <2>4. NothingToResume'
    BY <1>1, <2>1, SameResume DEF IInv, FinalInv, NothingToResume, Finished
  <2>5. HeldHaveVigils'
    <3> SUFFICES ASSUME Undisturbed, pc # "ended", NEW m \in holding
                 PROVE  result[m].status = "waiting" /\ vigil'[m] \in {"live", "answered"}
      BY <2>1 DEF HeldHaveVigils, Undisturbed
    <3>1. /\ result[m].status = "waiting" /\ vigil[m] \in {"live", "answered"}
          /\ m \in Nodes
      BY DEF IInv, TypeOK, FinalInv, HeldHaveVigils
    <3>2. RecordFollows(m) /\ ~Unrelated(m)
      BY <3>1 DEF IInv, FinalInv, RecordFollowsAll, AllRelated, Undisturbed
    <3>3. m # n
      BY <1>4, <3>1, <3>2 DEF RecordFollows
    <3> QED BY <1>1, <1>3, <3>1, <3>3 DEF IInv, TypeOK
  <2> QED BY <2>2, <2>3, <2>4, <2>5 DEF FinalInv
<1>5. CASE record[n].status = "waiting" /\ CannotResume
  <2>1. pc' = "ended" /\ Write({}, record, "failed") /\ UNCHANGED <<result, holding, caller>>
    BY <1>5 DEF Resume, ResumeFrom, writes, locals, CannotResume
  <2>2. {} \in SUBSET Nodes /\ "failed" \in RunStatuses /\ WriteBeside(0, {}, record, "failed")
    BY <2>1 DEF RunStatuses, Write
  <2>3. /\ record' \in [Nodes -> Result] /\ \A m \in Nodes : record'[m] = record[m]
        /\ created' = created
        /\ lost' = 0 => runStatus' = "failed"
        /\ lost + 0 <= lost' /\ lost' \in 0 .. MaxLost
    <3>1. /\ record' \in [Nodes -> Result] /\ Touches({}, record)
          /\ lost' = 0 => runStatus' = "failed"
          /\ lost + 0 <= lost' /\ lost' \in 0 .. MaxLost
      BY <1>3, <2>2, WriteDoes
    <3> QED BY <3>1 DEF Touches
  <2>4. record' = record
    BY <1>3, <2>3
  <2>5. CannotResume'
    BY <1>1, <1>5, <2>4, SameResume
  <2>6. LeavingThrows'
    BY <1>1, <1>2, <2>1 DEF LeavingThrows
  <2>7. EndIsFinished' /\ NothingToResume'
    BY <2>3, <2>5 DEF EndIsFinished, NothingToResume, Finished
  <2>8. RecordFollowsAll' /\ RunGoesOn' /\ WaitsAreHeld' /\ HeldHaveVigils'
    BY <2>1 DEF RecordFollowsAll, RunGoesOn, WaitsAreHeld, HeldHaveVigils
  <2>9. AllRelated'
    <3>1. lost' = 0 => lost = 0
      BY <1>3, <2>3, SweepAssumption
    <3> QED
      BY <2>1, <2>3, <2>4, <3>1 DEF IInv, FinalInv, AllRelated, Unrelated, Undisturbed
  <2> QED BY <2>6, <2>7, <2>8, <2>9 DEF FinalInv
<1>6. CASE record[n].status = "waiting" /\ ~CannotResume
  <2> DEFINE rec == [Progress EXCEPT ![n].status = "succeeded"]
  <2>1. /\ pc' = "looking" /\ result' = rec
        /\ holding' = {m \in Nodes \ {n} : record[m].status = "waiting"}
        /\ caller' = IF caller \in {"left", "gone"} THEN "gone" ELSE "none"
        /\ Write({n}, rec, "running")
    BY <1>6 DEF Resume, ResumeFrom, writes, locals, CannotResume
  <2>2. Progress \in [Nodes -> Result]
    BY <1>3, ResultTypes DEF Progress, Statuses, Bare
  <2>3. /\ rec \in [Nodes -> Result] /\ rec[n].status = "succeeded"
        /\ \A m \in Nodes : m # n => rec[m] = Progress[m]
    BY <2>2 DEF Result, Statuses
  <2> HIDE DEF rec
  <2>4. /\ lost' \in Nat /\ lost <= lost'
        /\ created' = created \union {n}
        /\ \A m \in Nodes : record'[m] = record[m] \/ (m \in {n} /\ record'[m] = rec[m])
        /\ lost' = 0 => record'[n] = rec[n] /\ runStatus' = "running"
    <3>1. {n} \in SUBSET Nodes /\ "running" \in RunStatuses /\ WriteBeside(0, {n}, rec, "running")
      BY <2>1 DEF RunStatuses, Write
    <3>2. MaxLost \in Nat /\ 0 \in Nat
      BY SweepAssumption
    <3>3. /\ lost' \in 0 .. MaxLost /\ lost + 0 <= lost'
          /\ Touches({n}, rec)
          /\ lost' = 0 => Arrives({n}, rec) /\ runStatus' = "running"
      BY <1>3, <2>3, <3>1, <3>2, WriteDoes
    <3>4. ~Unrelated(n)
      BY <1>6 DEF Unrelated
    <3> QED BY <1>3, <3>2, <3>3, <3>4 DEF Touches, Arrives
  <2>5. lost' = 0 => lost = 0
    BY <1>3, <2>4
  <2>6. LeavingThrows'
    BY <1>1, <1>2, <2>1 DEF LeavingThrows
  <2>7. RecordFollowsAll'
    <3> SUFFICES ASSUME lost' = 0, NEW m \in Nodes
                 PROVE  RecordFollows(m)'
      BY DEF RecordFollowsAll
    <3>1. CASE m = n
      BY <2>1, <2>3, <2>4, <3>1 DEF RecordFollows
    <3>2. CASE m # n
      <4>1. record'[m] = record[m] /\ result'[m] = Progress[m]
        BY <2>1, <2>3, <2>4, <3>2
      <4>2. Progress[m] = IF record[m].status \in {"running", "trying"} THEN Bare("none")
                          ELSE record[m]
        BY DEF Progress
      <4> QED BY <4>1, <4>2 DEF RecordFollows, Bare
    <3> QED BY <3>1, <3>2
  <2>8. RunGoesOn' /\ EndIsFinished' /\ NothingToResume' /\ WaitsAreHeld'
    BY <2>1, <2>4 DEF RunGoesOn, EndIsFinished, NothingToResume, WaitsAreHeld
  <2>9. HeldHaveVigils'
    <3> SUFFICES ASSUME Undisturbed', NEW m \in holding'
                 PROVE  result'[m].status = "waiting" /\ vigil'[m] \in {"live", "answered"}
      BY DEF HeldHaveVigils
    <3>1. Undisturbed
      BY <2>1, <2>5 DEF Undisturbed, IInv, TypeOK
    <3>2. pc = "waits"
      BY <1>1, <1>6, <3>1, ResumedWaits
    <3>3. m \in Nodes /\ m # n /\ record[m].status = "waiting"
      BY <2>1
    <3>4. result[m].status = "waiting"
      <4>1. RecordFollows(m) /\ ~Unrelated(m)
        BY <3>1, <3>2, <3>3 DEF IInv, FinalInv, RecordFollowsAll, AllRelated, Undisturbed
      <4> QED BY <3>2, <3>3, <4>1 DEF RecordFollows
    <3>5. m \in holding
      BY <3>2, <3>3, <3>4 DEF IInv, FinalInv, WaitsAreHeld, Waiting
    <3>6. vigil[m] \in {"live", "answered"}
      BY <3>1, <3>2, <3>5 DEF IInv, FinalInv, HeldHaveVigils
    <3>7. vigil'[m] = vigil[m]
      BY <1>1, <3>3 DEF IInv, TypeOK
    <3>8. result'[m].status = "waiting"
      <4>1. result'[m] = Progress[m]
        BY <2>1, <2>3, <3>3
      <4>2. Progress[m] = record[m]
        BY <3>3 DEF Progress
      <4> QED BY <3>3, <4>1, <4>2
    <3> QED BY <3>6, <3>7, <3>8
  <2>10. AllRelated'
    <3>1. Undisturbed' => Undisturbed
      BY <2>1, <2>5 DEF Undisturbed, IInv, TypeOK
    <3>2. \A m \in Nodes : m \in {n} \/ record'[m] = record[m]
      BY <2>4
    <3>3. Undisturbed' => \A m \in {n} : Unrelated(m) \/ record'[m].status # "none"
      BY <2>3, <2>4 DEF Undisturbed
    <3>4. AllRelated /\ {n} \in SUBSET Nodes
      BY DEF IInv, FinalInv
    <3> QED BY <2>4, <3>1, <3>2, <3>3, <3>4, RelatedOfWrite
  <2> QED BY <2>6, <2>7, <2>8, <2>9, <2>10 DEF FinalInv
<1> QED BY <1>4, <1>5, <1>6

LEMMA NextFinalInv ==
    ASSUME IInv, [Next]_vars
    PROVE  FinalInv'
<1>1. CASE SweepStep
  <2>1. CASE \/ SeeStop \/ StopLooking \/ Throw \/ DrainEnds
             \/ \E n \in Nodes : TakeThrown(n)
    BY <2>1, FinalOfSweepQuiet
  <2>2. ASSUME NEW n \in Nodes, Take(n) PROVE FinalInv'
    BY <2>2, FinalOfTake
  <2>3. ASSUME NEW n \in Nodes, Place(n) PROVE FinalInv'
    BY <2>3, FinalOfPlace
  <2> QED BY <1>1, <2>1, <2>2, <2>3, FinalOfLook, FinalOfWriteRecord, FinalOfHoldEnds,
             FinalOfFailUnheld, FinalOfClose DEF SweepStep
<1>2. ASSUME NEW n \in Nodes, TaskStep(n) \/ VigilIsAnswered(n) \/ Resume(n)
      PROVE  FinalInv'
  BY <1>2, FinalOfTask, FinalOfVigil, FinalOfResume
<1>3. CASE CallerLeaves \/ AskStop \/ UNCHANGED vars
  BY <1>3, FinalOfOthers
<1>4. CASE EndStopped
  BY <1>4, FinalOfEndStopped
<1> QED BY <1>1, <1>2, <1>3, <1>4 DEF Next

LEMMA Inductive == /\ Init => IInv
                   /\ IInv /\ [Next]_vars => IInv'
<1>1. Init => IInv
  BY InitTypeOK, InitOrderInv, InitFinalInv DEF Init, WholeInv, IInv
<1>2. IInv /\ [Next]_vars => IInv'
  <2> SUFFICES ASSUME IInv, [Next]_vars PROVE IInv'
    OBVIOUS
  <2>1. FinalInv'
    BY NextFinalInv
  <2>2. TypeOK' /\ OrderInv' /\ WholeInv' /\ AnswersInv'
    BY NextTypeOK, NextOrderInv, NextWholeInv, NextAnswersInv DEF IInv
  <2> QED BY <2>1, <2>2 DEF IInv
<1> QED BY <1>1, <1>2

\* Where nothing disturbed it, a run that waits has a vigil for each of its waits, over every
\* resume that left others waiting: a sweep holds what the record says waits, and the record
\* follows the sweep that placed the vigils.
THEOREM WaitsAreAnswered == Spec => []WaitsHaveVigils
<1>1. IInv => WaitsHaveVigils
  BY DEF IInv, FinalInv, WaitsAreHeld, HeldHaveVigils, WaitsHaveVigils
<1> QED BY <1>1, Inductive, PTL DEF Spec

LEMMA FinishedStays ==
    ASSUME IInv, Next, Finished(runStatus), lost = 0
    PROVE  runStatus' = runStatus
<1>1. pc = "ended"
  BY DEF IInv, FinalInv, RunGoesOn, Finished
<1>2. ~SweepStep
  BY <1>1 DEF SweepStep, SeeStop, Look, LookAt, StopLooking, Take, TakeAs, TakeThrown, Throw,
              DrainEnds, WriteRecordAgain, WriteRecordChecking, Place, PlaceOr, writes, HoldEnds,
              FailUnheld, Close, CloseRecording
<1>3. ASSUME NEW n \in Nodes PROVE ~TaskStep(n)
  <2>1. task[n] = "none"
    BY <1>1 DEF IInv, OrderInv, NoTaskIsLeft, PastTheDrain
  <2> QED BY <2>1 DEF TaskStep, EnterGate, LoseTheGate, StartAttempt, PauseAttempts,
                      Answer
<1>4. CASE CallerLeaves \/ AskStop \/ EndStopped \/ \E n \in Nodes : VigilIsAnswered(n)
  BY <1>4 DEF CallerLeaves, AskStop, EndStopped, EndStoppedUnless, VigilIsAnswered, broker, writes
<1>5. ASSUME NEW n \in Nodes, Resume(n) PROVE runStatus' = runStatus
  <2>1. CASE record[n].status # "waiting"
    BY <1>5, <2>1 DEF Resume, ResumeFrom, writes
  <2>2. CASE record[n].status = "waiting"
    <3>1. CannotResume /\ runStatus = "failed"
      BY <1>1, <2>2 DEF IInv, FinalInv, NothingToResume
    <3>2. Write({}, record, "failed")
      BY <1>5, <2>2, <3>1 DEF Resume, ResumeFrom, writes, CannotResume
    <3> QED BY <3>1, <3>2 DEF Write, WriteBeside
  <2> QED BY <2>1, <2>2
<1> QED BY <1>2, <1>3, <1>4, <1>5 DEF Next

\* Until a write fails, nobody changes the status of a run that is recorded finished: neither
\* a stop that comes late, nor the answer of a vigil the run left behind.
THEOREM FinishedStaysFinal == Spec => FinishedIsFinal
<1>1. IInv /\ [Next]_vars => [Finished(runStatus) /\ lost = 0 => runStatus' = runStatus]_vars
  BY FinishedStays
<1> QED BY <1>1, Inductive, PTL DEF Spec, FinishedIsFinal
-----------------------------------------------------------------------------
(***************************************************************************)
(* The calls of a run.  A node without a result is called no more than its *)
(* policy allows, so over a resume the record must miss no node that was   *)
(* called: a run has a vigil only once its record was made whole, and a    *)
(* run that threw never had one.                                           *)
(***************************************************************************)
InFirstSweep == caller \in {"here", "left"}

StillToRun == {"none", "running", "trying"}

OfCalls ==
    /\ \A n \in Nodes : calls[n] <= Budget(n)
    /\ \A n \in Nodes : task[n] = "between" => n \in dag.retried /\ calls[n] < MaxAttempts
    /\ ~TurnIsFree => \A n \in Nodes : task[n] \in {"none", "queued", "threw"}
                                       /\ result[n].status = "none" => calls[n] = 0

RecordHasCalls == \A n \in Nodes : calls[n] > 0 => record[n].status \notin StillToRun

Placed == \E n \in Nodes : vigil[n] # "none"

NoVigilYet == /\ InFirstSweep
              /\ pc \in {"looking", "taking", "draining", "writing", "throwing", "thrown"}
              => ~Placed

AnswersSettle == \A n \in Nodes : task[n] = "answered" => answer[n].status \notin StillToRun

ResultsSettle == \A n \in Nodes : result[n].status \notin {"running", "trying"}

HasItsCalls == /\ pc \in {"placing", "waits"} => RecordHasCalls
               /\ InFirstSweep /\ Placed /\ pc \in {"failing", "closing", "ended"} => RecordHasCalls

CallsInv == NoVigilYet /\ AnswersSettle /\ ResultsSettle /\ (~revived => OfCalls /\ HasItsCalls)

LEMMA InitCallsInv == Init => CallsInv
<1> SUFFICES ASSUME Init PROVE CallsInv
  OBVIOUS
<1>1. NoVigilYet /\ AnswersSettle /\ ResultsSettle /\ HasItsCalls
  BY DEF Init, NoVigilYet, Placed, AnswersSettle, ResultsSettle, HasItsCalls, Bare
<1>2. OfCalls
  BY SweepAssumption DEF Init, OfCalls, Budget
<1> QED BY <1>1, <1>2 DEF CallsInv

\* What is answered or taken is settled or waits, whatever the node.
LEMMA AnswersAreSettled ==
    ASSUME TypeOK, NEW n \in Nodes, NEW r \in Answers(n)
    PROVE  r.status \notin StillToRun
<1>1. \A s \in Succeeded(n) : s.status = "succeeded"
  BY DEF Succeeded
<1>2. \A s \in AnswersOfItems(n) : s.status \in {"succeeded", "failed", "partial", "cancelled"}
  BY DEF AnswersOfItems
<1>3. \A s \in {[q EXCEPT !.status = "waiting"] : q \in Succeeded(n)} : s.status = "waiting"
  BY DEF Succeeded
<1> QED BY <1>1, <1>2, <1>3 DEF Answers, StillToRun, Failed, Bare

LEMMA NextAnswersSettle ==
    ASSUME TypeOK, AnswersSettle, [Next]_vars
    PROVE  AnswersSettle'
<1>1. ASSUME \A n \in Nodes : task'[n] = "answered" => task[n] = "answered",
             UNCHANGED answer
      PROVE  AnswersSettle'
  BY <1>1 DEF AnswersSettle
<1>2. CASE SweepStep
  BY <1>1, <1>2 DEF SweepStep, SeeStop, Look, LookAt, StopLooking, Take, TakeAs, TakeThrown,
     Throw, DrainEnds, WriteRecordAgain, WriteRecordChecking, Place, PlaceOr, HoldEnds,
     FailUnheld, Close, CloseRecording, TypeOK, tasks
<1>3. ASSUME NEW n \in Nodes, TaskStep(n)
      PROVE  AnswersSettle'
  <2>1. CASE Answer(n)
    BY <2>1, AnswersAreSettled DEF Answer, AnswersSettle, TypeOK
  <2>2. CASE StartAttempt(n)
    BY <2>2 DEF StartAttempt, AnswersSettle, TypeOK, Bare, StillToRun
  <2>3. CASE EnterGate(n) \/ LoseTheGate(n) \/ PauseAttempts(n)
    BY <1>1, <2>3 DEF EnterGate, LoseTheGate, PauseAttempts, TypeOK
  <2> QED BY <1>3, <2>1, <2>2, <2>3 DEF TaskStep
<1>4. CASE \/ \E n \in Nodes : VigilIsAnswered(n) \/ Resume(n)
           \/ CallerLeaves \/ AskStop \/ EndStopped \/ UNCHANGED vars
  BY <1>1, <1>4 DEF VigilIsAnswered, Resume, ResumeFrom, CallerLeaves, AskStop, EndStopped,
     EndStoppedUnless, vars, tasks
<1> QED BY <1>2, <1>3, <1>4 DEF Next

LEMMA NextResultsSettle ==
    ASSUME TypeOK, AnswersSettle, ResultsSettle, [Next]_vars
    PROVE  ResultsSettle'
<1>1. ASSUME \A n \in Nodes : result'[n] = result[n] \/ result'[n].status \notin {"running", "trying"}
      PROVE  ResultsSettle'
  BY <1>1 DEF ResultsSettle
<1>2. CASE UNCHANGED result
  BY <1>1, <1>2
<1>3. CASE Look
  BY <1>1, <1>3 DEF Look, LookAt, Bare
<1>4. ASSUME NEW n \in Nodes, Take(n) PROVE ResultsSettle'
  BY <1>1, <1>4 DEF Take, TakeAs, TypeOK, AnswersSettle, StillToRun
<1>5. CASE WriteRecordAgain
  <2>1. PICK missed : result' = [n \in Nodes |-> IF n \in missed THEN Failed ELSE result[n]]
    BY <1>5 DEF WriteRecordAgain, WriteRecordChecking
  <2> QED BY <1>1, <2>1 DEF Failed
<1>6. ASSUME NEW n \in Nodes, Place(n) PROVE ResultsSettle'
  BY <1>1, <1>6 DEF Place, PlaceOr, Failed, TypeOK
<1>7. CASE Close
  BY <1>1, <1>7 DEF Close, CloseRecording, Bare
<1>8. ASSUME NEW n \in Nodes, Resume(n), ~UNCHANGED result PROVE ResultsSettle'
  <2>1. result' = [Progress EXCEPT ![n].status = "succeeded"]
    BY <1>8 DEF Resume, ResumeFrom, locals
  <2>2. \A m \in Nodes : Progress[m].status \notin {"running", "trying"}
    BY DEF Progress, Bare
  <2>3. Progress \in [Nodes -> Result]
    BY ResultTypes DEF Progress, TypeOK, Statuses
  <2>4. \A m \in Nodes : IF m = n THEN result'[m].status = "succeeded" ELSE result'[m] = Progress[m]
    BY <2>1, <2>3 DEF Result
  <2> QED BY <1>1, <2>2, <2>4
<1>9. CASE SweepStep
  <2>1. CASE SeeStop \/ StopLooking \/ Throw \/ DrainEnds \/ HoldEnds \/ FailUnheld
             \/ \E n \in Nodes : TakeThrown(n)
    BY <1>2, <2>1 DEF SeeStop, StopLooking, Throw, DrainEnds, HoldEnds, FailUnheld, TakeThrown
  <2> QED BY <1>3, <1>4, <1>5, <1>6, <1>7, <1>9, <2>1 DEF SweepStep
<1>10. CASE \E n \in Nodes : TaskStep(n)
  BY <1>2, <1>10 DEF TaskStep, EnterGate, LoseTheGate, StartAttempt, PauseAttempts, Answer
<1>11. CASE \/ \E n \in Nodes : VigilIsAnswered(n)
            \/ CallerLeaves \/ AskStop \/ EndStopped \/ UNCHANGED vars
  BY <1>2, <1>11 DEF VigilIsAnswered, CallerLeaves, AskStop, EndStopped, EndStoppedUnless, vars
<1> QED BY <1>2, <1>8, <1>9, <1>10, <1>11 DEF Next

\* A step that begins no call and leaves without a result only what had none.
LEMMA OfCallsKept ==
    ASSUME OfCalls, UNCHANGED <<dag, calls>>,
           \A n \in Nodes : task'[n] = "between" => task[n] = "between",
           TurnIsFree' \/ ~TurnIsFree,
           ~TurnIsFree' => \A n \in Nodes :
               task'[n] \in {"none", "queued", "threw"} /\ result'[n].status = "none"
               => task[n] \in {"none", "queued", "threw"} /\ result[n].status = "none"
    PROVE  OfCalls'
BY DEF OfCalls, Budget

\* A step that touches the record of a node only to settle it, or says it waits.
LEMMA RecordOfCallsKept ==
    ASSUME RecordHasCalls, UNCHANGED calls,
           \A n \in Nodes : record'[n] = record[n] \/ record'[n].status \notin StillToRun
    PROVE  RecordHasCalls'
BY DEF RecordHasCalls

\* A step of the sweep before its record is made whole.
LEMMA CallsOfSweep ==
    ASSUME IInv, CallsInv,
           \/ SeeStop \/ Look \/ StopLooking \/ Throw \/ DrainEnds
           \/ \E n \in Nodes : Take(n) \/ TakeThrown(n)
    PROVE  NoVigilYet' /\ (~revived' => OfCalls' /\ HasItsCalls')
<1>1. /\ UNCHANGED <<dag, calls, vigil, caller, revived>>
      /\ pc \in {"looking", "taking", "draining", "throwing"}
      /\ pc' \in {"looking", "taking", "draining", "writing", "closing", "throwing", "thrown"}
      /\ pc' # "thrown" => ~TurnIsFree'
  BY DEF SeeStop, Look, LookAt, StopLooking, Throw, DrainEnds, Take, TakeAs, TakeThrown, run,
         locals, tasks, others, broker, TurnIsFree
<1>2. /\ \A n \in Nodes : task'[n] = "between" => task[n] = "between"
      /\ pc' # "thrown" => \A n \in Nodes :
            task'[n] \in {"none", "queued", "threw"} /\ result'[n].status = "none"
            => task[n] \in {"none", "queued", "threw"} /\ result[n].status = "none"
  <2>1. CASE SeeStop \/ StopLooking \/ DrainEnds
    BY <2>1 DEF SeeStop, StopLooking, DrainEnds, tasks
  <2>2. CASE Throw
    BY <2>2 DEF Throw
  <2>3. CASE Look
    BY <2>3 DEF Look, LookAt, Ready, Pending, Bare
  <2>4. ASSUME NEW n \in Nodes, Take(n)
        PROVE  /\ \A m \in Nodes : task'[m] = "between" => task[m] = "between"
               /\ \A m \in Nodes :
                    task'[m] \in {"none", "queued", "threw"} /\ result'[m].status = "none"
                    => task[m] \in {"none", "queued", "threw"} /\ result[m].status = "none"
    <3>1. result'[n].status # "none"
      BY <2>4 DEF Take, TakeAs, IInv, TypeOK, CallsInv, AnswersSettle, StillToRun
    <3>2. \A m \in Nodes \ {n} : task'[m] = task[m] /\ result'[m] = result[m]
      BY <2>4 DEF Take, TakeAs, IInv, TypeOK
    <3>3. task'[n] = "none"
      BY <2>4 DEF Take, TakeAs, IInv, TypeOK
    <3> QED BY <3>1, <3>2, <3>3
  <2>5. ASSUME NEW n \in Nodes, TakeThrown(n)
        PROVE  /\ \A m \in Nodes : task'[m] = "between" => task[m] = "between"
               /\ \A m \in Nodes :
                    task'[m] \in {"none", "queued", "threw"} /\ result'[m].status = "none"
                    => task[m] \in {"none", "queued", "threw"} /\ result[m].status = "none"
    BY <2>5 DEF TakeThrown, IInv, TypeOK
  <2> QED BY <2>1, <2>2, <2>3, <2>4, <2>5
<1>3. ~TurnIsFree
  BY <1>1 DEF TurnIsFree
<1>4. ~revived' => OfCalls'
  <2>1. CASE revived
    BY <1>1, <2>1
  <2>2. CASE ~revived
    BY <1>1, <1>2, <1>3, <2>2, OfCallsKept DEF CallsInv, TurnIsFree
  <2> QED BY <2>1, <2>2
<1>5. NoVigilYet' /\ HasItsCalls'
  BY <1>1 DEF CallsInv, NoVigilYet, InFirstSweep, Placed, HasItsCalls
<1> QED BY <1>4, <1>5

\* A started node: its call is counted where it begins.
LEMMA CallsOfTask ==
    ASSUME IInv, CallsInv, NEW n \in Nodes, TaskStep(n)
    PROVE  NoVigilYet' /\ (~revived' => OfCalls' /\ HasItsCalls')
<1>1. /\ task[n] # "none"
      /\ UNCHANGED <<dag, result, pc, caller, vigil, revived>>
      /\ \A m \in Nodes \ {n} : task'[m] = task[m] /\ calls'[m] = calls[m]
  BY DEF TaskStep, EnterGate, LoseTheGate, StartAttempt, PauseAttempts, Answer, run, locals,
         others, broker, IInv, TypeOK
<1>2. pc \notin PastTheDrain /\ result[n].status = "none" /\ ~TurnIsFree
  BY <1>1 DEF IInv, OrderInv, NoTaskIsLeft, StartedUnsettled, PastTheDrain, TurnIsFree
<1>3. NoVigilYet' /\ HasItsCalls'
  BY <1>1, <1>2 DEF CallsInv, NoVigilYet, InFirstSweep, Placed, HasItsCalls, PastTheDrain
<1>4. ASSUME OfCalls
      PROVE  OfCalls'
  <2>1. MaxAttempts \in Nat \ {0} /\ calls[n] \in Nat
    BY SweepAssumption DEF IInv, TypeOK
  <2>2. \A m \in Nodes : Budget(m)' = Budget(m) /\ (TurnIsFree' <=> TurnIsFree)
    BY <1>1 DEF Budget, TurnIsFree
  <2>3. /\ calls'[n] <= Budget(n)
        /\ task'[n] = "between" => n \in dag.retried /\ calls'[n] < MaxAttempts
        /\ task'[n] \in {"none", "queued", "threw"} => calls'[n] = 0
    <3>1. CASE EnterGate(n)
      <4>1. /\ task'[n] = IF Tries(n) THEN "between" ELSE "calling"
            /\ calls'[n] = IF Tries(n) THEN calls[n] ELSE calls[n] + 1
            /\ task[n] = "queued"
        BY <3>1 DEF EnterGate, IInv, TypeOK
      <4>2. calls[n] = 0
        BY <1>2, <1>4, <4>1 DEF OfCalls
      <4> QED BY <2>1, <4>1, <4>2 DEF Tries, Budget
    <3>2. CASE LoseTheGate(n)
      BY <1>2, <1>4, <3>2 DEF LoseTheGate, IInv, TypeOK, tasks, OfCalls
    <3>3. CASE StartAttempt(n)
      <4>1. n \in dag.retried /\ calls[n] < MaxAttempts /\ calls[n] <= Budget(n)
        BY <1>4, <3>3 DEF StartAttempt, OfCalls
      <4>2. calls'[n] \in {calls[n], calls[n] + 1} /\ task'[n] \in {"answered", "calling"}
        BY <3>3 DEF StartAttempt, IInv, TypeOK
      <4> QED BY <2>1, <4>1, <4>2 DEF Budget
    <3>4. CASE PauseAttempts(n)
      BY <1>4, <3>4 DEF PauseAttempts, Tries, IInv, TypeOK, OfCalls
    <3>5. CASE Answer(n)
      BY <1>4, <3>5 DEF Answer, IInv, TypeOK, OfCalls
    <3> QED BY <3>1, <3>2, <3>3, <3>4, <3>5 DEF TaskStep
  <2>4. \A m \in Nodes : Budget(m)' = Budget(m) /\ (m # n => task'[m] = task[m] /\ calls'[m] = calls[m])
    BY <1>1, <2>2
  <2>5. UNCHANGED <<result, dag>>
    BY <1>1
  <2> QED BY <1>2, <1>4, <2>3, <2>4, <2>5 DEF OfCalls
<1> QED BY <1>1, <1>3, <1>4 DEF CallsInv

\* The record is made whole: it misses no node that was called.
LEMMA CallsOfWriteRecord ==
    ASSUME IInv, CallsInv, WriteRecordAgain
    PROVE  NoVigilYet' /\ (~revived' => OfCalls' /\ HasItsCalls')
<1>1. /\ pc = "writing" /\ pc' \in {"placing", "failing"}
      /\ UNCHANGED <<dag, task, calls, vigil, caller, revived>>
  BY DEF WriteRecordAgain, WriteRecordChecking, run, tasks, others
<1>2. /\ \A n \in Nodes : result'[n] = result[n] \/ result'[n].status = "failed"
      /\ pc' = "placing" => /\ UNCHANGED result
                            /\ \A n \in Nodes : result[n].status # "none" =>
                                                    record'[n].status = result[n].status
  <2>0. TypeOK /\ \A rec : Unrecorded(rec) \in SUBSET Nodes
    BY WriteRecordTypes DEF IInv
  <2>1. PICK unread, unreadAfter \in BOOLEAN, missed \in SUBSET Nodes :
          /\ missed = IF unreadAfter THEN {n \in Nodes : result[n].status # "none"}
                      ELSE Unrecorded(record')
          /\ result' = [n \in Nodes |-> IF n \in missed THEN Failed ELSE result[n]]
          /\ pc' = IF missed = {} THEN "placing" ELSE "failing"
    BY <2>0 DEF WriteRecordAgain, WriteRecordChecking
  <2>2. \A n \in Nodes : result'[n] = result[n] \/ result'[n].status = "failed"
    BY <2>1 DEF Failed
  <2>3. CASE pc' = "placing"
    <3>1. missed = {}
      BY <2>1, <2>3
    <3>2. UNCHANGED result
      BY <2>1, <3>1 DEF IInv, TypeOK
    <3>3. \A n \in Nodes : result[n].status # "none" => record'[n].status = result[n].status
      BY <2>1, <3>1 DEF Unrecorded
    <3> QED BY <2>2, <3>2, <3>3
  <2> QED BY <2>2, <2>3
<1>3. ~revived => OfCalls'
  BY <1>1, <1>2, OfCallsKept DEF CallsInv, TurnIsFree
<1>4. NoVigilYet' /\ ~(InFirstSweep' /\ Placed' /\ pc' = "failing")
  BY <1>1 DEF CallsInv, NoVigilYet, InFirstSweep, Placed
<1>5. ASSUME ~revived, pc' = "placing"
      PROVE  RecordHasCalls'
  <2> SUFFICES ASSUME NEW n \in Nodes, calls[n] > 0
               PROVE  record'[n].status \notin StillToRun
    BY <1>1 DEF RecordHasCalls
  <2>1. task[n] = "none"
    BY <1>1 DEF IInv, OrderInv, NoTaskIsLeft, PastTheDrain
  <2>2. calls[n] # 0
    OBVIOUS
  <2>3. result[n].status # "none"
    BY <1>1, <1>5, <2>1, <2>2 DEF CallsInv, OfCalls, TurnIsFree
  <2>4. result[n].status \notin StillToRun
    BY <2>3 DEF CallsInv, ResultsSettle, StillToRun
  <2> QED BY <1>2, <1>5, <2>3, <2>4
<1>6. ~revived => HasItsCalls'
  BY <1>1, <1>4, <1>5 DEF HasItsCalls
<1> QED BY <1>1, <1>3, <1>4, <1>6

\* From there on a record is only added to.
LEMMA CallsOfHold ==
    ASSUME IInv, CallsInv, HoldEnds \/ FailUnheld \/ \E n \in Nodes : Place(n)
    PROVE  NoVigilYet' /\ (~revived' => OfCalls' /\ HasItsCalls')
<1>1. /\ pc \in {"placing", "failing"} /\ pc' \in {"placing", "waits", "failing", "closing"}
      /\ pc = "failing" => pc' = "closing" /\ UNCHANGED vigil
      /\ pc = "placing" => pc' # "closing"
      /\ UNCHANGED <<dag, task, calls, caller, revived>>
  BY DEF HoldEnds, FailUnheld, Place, PlaceOr, run, tasks, others
<1>2. \A n \in Nodes : result'[n] = result[n] \/ result'[n].status = "failed"
  BY DEF HoldEnds, FailUnheld, Place, PlaceOr, Failed, IInv, TypeOK
<1>3. \A n \in Nodes : record'[n] = record[n] \/ record'[n].status \notin StillToRun
  <2>1. CASE HoldEnds
    <3>1. CASE unhandled
      BY <2>1, <3>1 DEF HoldEnds, broker, writes
    <3>2. CASE ~unhandled
      <4>1. Persist({}, record, "waiting") /\ "waiting" \in RunStatuses /\ {} \in SUBSET Nodes
            /\ record \in [Nodes -> Result] /\ TypeOK
        BY <2>1, <3>2 DEF HoldEnds, RunStatuses, IInv, TypeOK
      <4>2. Touches({}, record)
        BY <4>1, PersistDoes
      <4> QED BY <4>2 DEF Touches
    <3> QED BY <3>1, <3>2
  <2>2. CASE FailUnheld
    <3> DEFINE unwritten == {n \in Nodes : result[n].status = "failed"} \intersect Unrecorded(record)
    <3>1. Persist(unwritten, result, runStatus) /\ unwritten \in SUBSET Nodes
      BY <2>2 DEF FailUnheld
    <3>2. \A n \in unwritten : result[n].status = "failed"
      OBVIOUS
    <3>3. result \in [Nodes -> Result] /\ runStatus \in RunStatuses /\ TypeOK
      BY DEF IInv, TypeOK
    <3> HIDE DEF unwritten
    <3>4. Touches(unwritten, result)
      BY <3>1, <3>3, PersistDoes
    <3> QED BY <3>2, <3>4 DEF Touches, StillToRun
  <2>3. CASE \E n \in Nodes : Place(n)
    BY <2>3 DEF Place, PlaceOr, writes
  <2> QED BY <2>1, <2>2, <2>3
<1>4. ~revived => OfCalls'
  BY <1>1, <1>2, OfCallsKept DEF CallsInv, TurnIsFree
<1>5. NoVigilYet'
  BY <1>1 DEF NoVigilYet
<1>6. ~revived => HasItsCalls'
  <2>1. RecordHasCalls => RecordHasCalls'
    BY <1>1, <1>3, RecordOfCallsKept
  <2>2. CASE pc = "placing"
    BY <1>1, <2>1, <2>2 DEF CallsInv, HasItsCalls
  <2>3. CASE pc = "failing"
    BY <1>1, <2>1, <2>3 DEF CallsInv, HasItsCalls, InFirstSweep, Placed
  <2> QED BY <1>1, <2>2, <2>3
<1> QED BY <1>1, <1>4, <1>5, <1>6

LEMMA CallsOfClose ==
    ASSUME IInv, CallsInv, Close
    PROVE  NoVigilYet' /\ (~revived' => OfCalls' /\ HasItsCalls')
<1> DEFINE unreached == {n \in Nodes : ~Settled(n)}
           leftOut   == Bare(IF stopped THEN "cancelled" ELSE "skipped")
<1>1. /\ pc = "closing" /\ pc' = "ended"
      /\ UNCHANGED <<dag, task, calls, vigil, caller, revived>>
      /\ result' = [n \in Nodes |-> IF n \notin unreached THEN result[n] ELSE leftOut]
  BY DEF Close, CloseRecording, run, tasks
<1>r. PICK res : res = result'
  OBVIOUS
<1>2. PICK passes \in Verdicts : res = result' /\ Persist(unreached, res, StatusJudged(passes))
  BY <1>r DEF Close, CloseRecording
<1>3. leftOut \in Result /\ leftOut.status \in {"cancelled", "skipped"}
  BY ResultTypes DEF Statuses, Bare
<1>4. unreached \in SUBSET Nodes
  OBVIOUS
<1>5. StatusJudged(passes) \in RunStatuses
  BY <1>2, JudgedType DEF Verdicts
<1> HIDE DEF unreached, leftOut
<1>6. res \in [Nodes -> Result] /\ \A n \in unreached : res[n].status \in {"cancelled", "skipped"}
  BY <1>1, <1>2, <1>3, <1>4 DEF IInv, TypeOK
<1>7. Touches(unreached, res)
  BY <1>2, <1>4, <1>5, <1>6, PersistDoes DEF IInv
<1>8. \A n \in Nodes : record'[n] = record[n] \/ record'[n].status \notin StillToRun
  BY <1>6, <1>7 DEF Touches, StillToRun
<1>9. ~revived => OfCalls'
  BY <1>1, OfCallsKept DEF CallsInv, TurnIsFree
<1>10. RecordHasCalls => RecordHasCalls'
  BY <1>1, <1>8, RecordOfCallsKept
<1>11. NoVigilYet' /\ (~revived => HasItsCalls')
  BY <1>1, <1>10 DEF NoVigilYet, CallsInv, HasItsCalls, InFirstSweep, Placed
<1> QED BY <1>1, <1>9, <1>11

\* What others do beside the sweep: a run that has a vigil keeps what its record has.
LEMMA CallsOfOthers ==
    ASSUME IInv, CallsInv,
           CallerLeaves \/ AskStop \/ UNCHANGED vars \/ \E n \in Nodes : VigilIsAnswered(n)
    PROVE  NoVigilYet' /\ (~revived' => OfCalls' /\ HasItsCalls')
<1>1. /\ UNCHANGED <<dag, pc, result, task, calls, record, revived>>
      /\ InFirstSweep' <=> InFirstSweep
      /\ Placed' => Placed
  BY DEF CallerLeaves, AskStop, VigilIsAnswered, vars, run, tasks, others, broker, writes,
         InFirstSweep, Placed, IInv, TypeOK
<1>2. ~revived => OfCalls'
  BY <1>1, OfCallsKept DEF CallsInv, TurnIsFree
<1>3. RecordHasCalls' <=> RecordHasCalls
  BY <1>1 DEF RecordHasCalls
<1> QED BY <1>1, <1>2, <1>3 DEF CallsInv, NoVigilYet, HasItsCalls

LEMMA CallsOfEndStopped ==
    ASSUME IInv, CallsInv, EndStopped
    PROVE  NoVigilYet' /\ (~revived' => OfCalls' /\ HasItsCalls')
<1>1. /\ UNCHANGED <<dag, result, task, calls, caller, revived>>
      /\ TurnIsFree
      /\ pc' = pc \/ pc' = "ended"
      /\ Placed' => Placed
  BY DEF EndStopped, EndStoppedUnless, run, locals, tasks, broker, writes, Placed
<1>2. ~revived => OfCalls'
  BY <1>1, OfCallsKept DEF CallsInv, TurnIsFree
<1>3. \A n \in Nodes : record'[n] = record[n] \/ record'[n].status \notin StillToRun
  <2>1. CASE Finished(runStatus)
    BY <2>1 DEF EndStopped, EndStoppedUnless, broker, writes
  <2>2. CASE ~Finished(runStatus)
    <3> DEFINE res        == [n \in Nodes |-> Bare("cancelled")]
               unfinished == {n \in Nodes : ~Finished(record[n].status)}
               atStake    == {n \in Nodes : record[n].status = "waiting" /\ vigil[n] = "live"}
    <3>1. PICK kept \in SUBSET atStake :
              WriteBeside(Cardinality(kept), unfinished, res, "cancelled")
      BY <2>2 DEF EndStopped, EndStoppedUnless
    <3>2. res \in [Nodes -> Result] /\ \A n \in Nodes : res[n].status = "cancelled"
      BY ResultTypes DEF Statuses, Bare
    <3>3. unfinished \in SUBSET Nodes /\ "cancelled" \in RunStatuses /\ TypeOK
      BY DEF RunStatuses, IInv
    <3>4. Cardinality(kept) \in Nat
      <4>1. kept \in SUBSET Nodes
        BY <3>1
      <4> QED BY <4>1, SweepAssumption, FS_Subset, FS_CardinalityType
    <3> HIDE DEF res, unfinished, atStake
    <3>5. Touches(unfinished, res)
      BY <3>1, <3>2, <3>3, <3>4, WriteDoes
    <3> QED BY <3>2, <3>5 DEF Touches, StillToRun
  <2> QED BY <2>1, <2>2
<1>4. RecordHasCalls => RecordHasCalls'
  BY <1>1, <1>3, RecordOfCallsKept
<1>5. InFirstSweep' <=> InFirstSweep
  BY <1>1 DEF InFirstSweep
<1>6. NoVigilYet' /\ (~revived => HasItsCalls')
  <2>1. CASE pc' = pc
    BY <1>1, <1>4, <1>5, <2>1 DEF CallsInv, NoVigilYet, HasItsCalls
  <2>2. CASE pc' = "ended"
    BY <1>1, <1>4, <1>5, <2>2 DEF CallsInv, NoVigilYet, HasItsCalls, TurnIsFree
  <2> QED BY <1>1, <2>1, <2>2
<1> QED BY <1>1, <1>2, <1>6

\* A run is taken up from a record that has every node that was called.
LEMMA CallsOfResume ==
    ASSUME IInv, CallsInv, NEW n \in Nodes, Resume(n)
    PROVE  NoVigilYet' /\ (~revived' => OfCalls' /\ HasItsCalls')
<1>1. /\ vigil[n] = "answered" /\ vigil' = [vigil EXCEPT ![n] = "gone"]
      /\ TurnIsFree
      /\ UNCHANGED <<dag, task, calls>>
  BY DEF Resume, ResumeFrom, run, tasks
<1>2. Placed /\ \A m \in Nodes : task[m] = "none"
  BY <1>1 DEF Placed, IInv, OrderInv, NoTaskIsLeft, PastTheDrain, TurnIsFree
<1>3. pc = "thrown" => FALSE
  BY <1>2 DEF IInv, FinalInv, LeavingThrows, CallsInv, NoVigilYet, InFirstSweep
<1>4. pc \in {"waits", "ended"}
  BY <1>1, <1>3 DEF TurnIsFree
<1>5. CASE record[n].status # "waiting"
  <2>1. UNCHANGED <<pc, result, record, caller, revived>>
    BY <1>5 DEF Resume, ResumeFrom, writes
  <2>2. ~revived => OfCalls'
    BY <1>1, <2>1, OfCallsKept DEF CallsInv, TurnIsFree
  <2>3. NoVigilYet'
    BY <1>4, <2>1 DEF NoVigilYet
  <2>4. RecordHasCalls' <=> RecordHasCalls
    BY <1>1, <2>1 DEF RecordHasCalls
  <2>5. ~revived => HasItsCalls'
    BY <1>2, <2>1, <2>4 DEF CallsInv, HasItsCalls, InFirstSweep
  <2> QED BY <2>1, <2>2, <2>3, <2>5
<1>6. CASE record[n].status = "waiting" /\ CannotResume
  <2>1. pc' = "ended" /\ Write({}, record, "failed") /\ UNCHANGED <<result, caller, revived>>
    BY <1>6 DEF Resume, ResumeFrom, writes, locals, CannotResume
  <2>2. \A m \in Nodes : record'[m] = record[m]
    <3>1. {} \in SUBSET Nodes /\ "failed" \in RunStatuses /\ WriteBeside(0, {}, record, "failed")
          /\ record \in [Nodes -> Result] /\ TypeOK /\ 0 \in Nat
      BY <2>1 DEF RunStatuses, Write, IInv, TypeOK
    <3>2. Touches({}, record)
      BY <3>1, WriteDoes
    <3> QED BY <3>2 DEF Touches
  <2>3. ~revived => OfCalls'
    BY <1>1, <2>1, OfCallsKept DEF CallsInv, TurnIsFree
  <2>4. RecordHasCalls => RecordHasCalls'
    BY <1>1, <2>2, RecordOfCallsKept
  <2>5. NoVigilYet' /\ (~revived => HasItsCalls')
    BY <1>2, <1>4, <2>1, <2>4 DEF CallsInv, NoVigilYet, HasItsCalls, InFirstSweep
  <2> QED BY <2>1, <2>3, <2>5
<1>7. CASE record[n].status = "waiting" /\ ~CannotResume
  <2> DEFINE rec == [Progress EXCEPT ![n].status = "succeeded"]
  <2>1. /\ pc' = "looking" /\ result' = rec
        /\ caller' = IF caller \in {"left", "gone"} THEN "gone" ELSE "none"
        /\ revived' = (revived \/ (pc = "ended" /\ caller # "left"))
    BY <1>7 DEF Resume, ResumeFrom, writes, locals, CannotResume
  <2>2. Progress \in [Nodes -> Result]
    BY ResultTypes DEF Progress, Statuses, Bare, IInv, TypeOK
  <2>3. /\ result'[n].status # "none"
        /\ \A m \in Nodes : m # n => result'[m] = Progress[m]
    BY <2>1, <2>2 DEF Result, Statuses
  <2> HIDE DEF rec
  <2>4. NoVigilYet' /\ HasItsCalls'
    BY <2>1 DEF NoVigilYet, HasItsCalls, InFirstSweep
  <2>5. ASSUME ~revived'
        PROVE  OfCalls'
    <3>1. ~revived /\ (pc = "waits" \/ (pc = "ended" /\ caller = "left"))
      BY <1>4, <2>1, <2>5
    <3>2. RecordHasCalls /\ OfCalls
      BY <1>2, <3>1 DEF CallsInv, HasItsCalls, InFirstSweep
    <3>3. ASSUME NEW m \in Nodes, result'[m].status = "none" PROVE calls[m] = 0
      <4>1. m # n /\ result'[m] = Progress[m]
        BY <2>3, <3>3
      <4>2. record[m].status \in StillToRun
        BY <3>3, <4>1 DEF Progress, StillToRun
      <4>3. ~(calls[m] > 0) /\ calls[m] \in Nat
        BY <3>2, <4>2 DEF RecordHasCalls, IInv, TypeOK
      <4> QED BY <4>3
    <3> QED BY <1>1, <1>2, <3>2, <3>3 DEF OfCalls, Budget
  <2> QED BY <2>4, <2>5
<1> QED BY <1>5, <1>6, <1>7

LEMMA NextCallsInv ==
    ASSUME IInv, CallsInv, [Next]_vars
    PROVE  CallsInv'
<1>1. AnswersSettle' /\ ResultsSettle'
  BY NextAnswersSettle, NextResultsSettle DEF IInv, CallsInv
<1>2. CASE SweepStep
  <2>1. CASE \/ SeeStop \/ Look \/ StopLooking \/ Throw \/ DrainEnds
             \/ \E n \in Nodes : Take(n) \/ TakeThrown(n)
    BY <1>1, <2>1, CallsOfSweep DEF CallsInv
  <2>2. CASE WriteRecordAgain
    BY <1>1, <2>2, CallsOfWriteRecord DEF CallsInv
  <2>3. CASE HoldEnds \/ FailUnheld \/ \E n \in Nodes : Place(n)
    BY <1>1, <2>3, CallsOfHold DEF CallsInv
  <2>4. CASE Close
    BY <1>1, <2>4, CallsOfClose DEF CallsInv
  <2> QED BY <1>2, <2>1, <2>2, <2>3, <2>4 DEF SweepStep
<1>3. ASSUME NEW n \in Nodes, TaskStep(n) \/ VigilIsAnswered(n) \/ Resume(n)
      PROVE  CallsInv'
  BY <1>1, <1>3, CallsOfTask, CallsOfOthers, CallsOfResume DEF CallsInv
<1>4. CASE CallerLeaves \/ AskStop \/ UNCHANGED vars
  BY <1>1, <1>4, CallsOfOthers DEF CallsInv
<1>5. CASE EndStopped
  BY <1>1, <1>5, CallsOfEndStopped DEF CallsInv
<1> QED BY <1>2, <1>3, <1>4, <1>5 DEF Next

LEMMA CallsInvIsKept == IInv /\ CallsInv /\ [Next]_vars => CallsInv'
BY NextCallsInv

\* Whichever writes fail, however often a run waits and is resumed, a service is called once, or
\* as often as its policy allows: a run is taken up only from a record that has every node it
\* called, unless it had ended and the writes of its end were lost.
THEOREM CallsArePaced == Spec => []CallsWithinPolicy
<1>1. Init => IInv /\ CallsInv
  BY Inductive, InitCallsInv
<1>2. (IInv /\ CallsInv) /\ [Next]_vars => (IInv /\ CallsInv)'
  BY Inductive, CallsInvIsKept
<1>3. CallsInv => CallsWithinPolicy
  BY DEF CallsInv, OfCalls, CallsWithinPolicy
<1> QED BY <1>1, <1>2, <1>3, PTL DEF Spec
-----------------------------------------------------------------------------
(***************************************************************************)
(* What a success says, and what an end leaves recorded, where nothing     *)
(* disturbed the run.  A sweep that is not told to halt looks until no     *)
(* node is ready; of the nodes without a result, as wires make no cycle,   *)
(* there would be one every wire into which is settled.                    *)
(***************************************************************************)
Sweeping == Undisturbed /\ pc # "ended"

AnswersAreTrue ==
    \A n \in Nodes : /\ task[n] = "answered" => answer[n].status \notin {"notTaken", "skipped"}
                     /\ task[n] = "answered" /\ answer[n].status = "cancelled" => stopAsked
                     /\ answer[n].status = "failed" => answer[n] = Failed

FailuresAreTrue ==
    Undisturbed => \A n \in Nodes : /\ result[n].status = "failed" => result[n] = Failed
                                    /\ record[n].status = "failed" => record[n] = Failed

SettledByAnswers ==
    Sweeping => \A n \in Nodes : /\ result[n].status # "skipped"
                                 /\ result[n].status = "cancelled" => stopped

HaltedFor == Sweeping /\ halted => \/ unhandled
                                   \/ \E n \in Nodes : result[n].status = "cannotRehearse"

FailuresCarried ==
    Sweeping /\ ~unhandled /\ pc # "failing" =>
        \A n \in Nodes : result[n].status = "failed" => \E w \in WiresOutOf(n) : Carried(w)

Drained ==
    /\ pc \in {"looking", "taking", "draining"} /\ unhandled => halted
    /\ pc \in {"draining", "writing", "placing", "waits"} /\ ~halted /\ ~stopped /\ ~unhandled =>
           Ready = {} /\ Calling = {}
    /\ pc \in {"writing", "placing", "waits"} => ~halted /\ ~stopped
    /\ pc \in {"writing", "waits"} => ~unhandled
    /\ pc = "closing" /\ ~halted /\ ~stopped => \A n \in Nodes : Settled(n)

NotBegun ==
    Sweeping => \A n \in Nodes : result[n].status = "none" /\ task[n] \in {"none", "queued"} =>
                                     record[n].status = "none"

EarnedInv == /\ AnswersAreTrue
             /\ FailuresAreTrue
             /\ SettledByAnswers
             /\ HaltedFor
             /\ FailuresCarried
             /\ Drained
             /\ NotBegun
             /\ SuccessIsEarned
             /\ EndIsRecorded

LEMMA InitEarnedInv == Init => EarnedInv
<1> SUFFICES ASSUME Init PROVE EarnedInv
  OBVIOUS
<1>1. /\ \A n \in Nodes : result[n].status = "none" /\ record[n].status = "none"
                          /\ answer[n].status = "none" /\ task[n] = "none"
      /\ pc = "looking" /\ ~halted /\ ~unhandled
  BY DEF Init, Bare
<1> QED
  BY <1>1 DEF EarnedInv, AnswersAreTrue, FailuresAreTrue, SettledByAnswers, HaltedFor,
              FailuresCarried, Drained, NotBegun, SuccessIsEarned, EndIsRecorded, Sweeping

\* A run that was disturbed stays so.
LEMMA DisturbedStays ==
    ASSUME TypeOK, [Next]_vars
    PROVE  Undisturbed' => Undisturbed
<1>1. ASSUME UNCHANGED lost \/ (lost <= lost' /\ lost' \in Nat),
             UNCHANGED caller \/ caller' \notin {"here", "none"} \/ caller = "here"
      PROVE  Undisturbed' => Undisturbed
  <2>1. lost \in Nat
    BY SweepAssumption DEF TypeOK
  <2>2. lost' = 0 => lost = 0
    BY <1>1, <2>1
  <2> QED BY <1>1, <2>2 DEF Undisturbed
<1>2. lost' \in Nat
  BY NextTypeOK, SweepAssumption DEF TypeOK
<1>3. ASSUME NEW failed \in Nat, NEW ns \in SUBSET Nodes, NEW res, NEW status,
             WriteBeside(failed, ns, res, status)
      PROVE  lost <= lost'
  <2>1. PICK failing \in SUBSET ns, refused \in {FALSE, status # runStatus} :
          lost' = lost + failed + Cardinality(failing) + (IF refused THEN 1 ELSE 0)
    BY <1>3 DEF WriteBeside
  <2>2. IsFiniteSet(failing)
    BY SweepAssumption, FS_Subset
  <2>3. Cardinality(failing) \in Nat /\ lost \in Nat
    BY <2>2, FS_CardinalityType, SweepAssumption DEF TypeOK
  <2>4. (IF refused THEN 1 ELSE 0) \in Nat
    OBVIOUS
  <2> QED BY <2>1, <2>3, <2>4
<1>4. ASSUME NEW ns \in SUBSET Nodes, NEW res, NEW status, Persist(ns, res, status)
      PROVE  UNCHANGED lost \/ (lost <= lost' /\ lost' \in Nat)
  BY <1>2, <1>3, <1>4 DEF Persist, Write, WriteNothing
<1>5. CASE SweepStep
  <2>1. CASE \/ SeeStop \/ StopLooking \/ Throw \/ DrainEnds
             \/ \E n \in Nodes : TakeThrown(n) \/ Place(n)
    BY <1>1, <2>1 DEF SeeStop, StopLooking, Throw, DrainEnds, TakeThrown, Place, PlaceOr, broker,
                      writes, others
  <2>2. CASE Look
    <3>1. NotTaken \in SUBSET Nodes
      BY DEF NotTaken, Ready, Pending
    <3> QED BY <1>1, <1>4, <2>2, <3>1 DEF Look, LookAt, others
  <2>3. ASSUME NEW n \in Nodes, Take(n) PROVE Undisturbed' => Undisturbed
    BY <1>1, <1>4, <2>3 DEF Take, TakeAs, others
  <2>4. CASE WriteRecordAgain
    <3>1. \/ WriteNothing({n \in Nodes : result[n].status # "none"})
          \/ \E cost \in Nat, todo \in SUBSET Nodes : \E written : WriteBeside(cost, todo, written, runStatus)
      <4>1. PICK unread, unreadAfter \in BOOLEAN, known \in SUBSET Nodes, written \in [Nodes -> Result] :
              /\ known = {n \in Nodes : result[n].status # "none"}
              /\ written = [n \in Nodes |-> Undecided(n)]
              /\ IF caller = "left" THEN WriteNothing(known)
                 ELSE WriteBeside((IF unread THEN 1 ELSE 0) + (IF unreadAfter THEN 1 ELSE 0),
                                  IF unread THEN known ELSE Unrecorded(record), written, runStatus)
        BY <2>4, WriteRecordTypes DEF WriteRecordAgain, WriteRecordChecking
      <4>2. (IF unread THEN 1 ELSE 0) + (IF unreadAfter THEN 1 ELSE 0) \in Nat
        OBVIOUS
      <4>3. (IF unread THEN known ELSE Unrecorded(record)) \in SUBSET Nodes
        BY <4>1 DEF Unrecorded
      <4> QED BY <4>1, <4>2, <4>3
    <3> QED
      BY <1>1, <1>2, <1>3, <2>4, <3>1 DEF WriteNothing, WriteRecordAgain, WriteRecordChecking, others
  <2>5. CASE HoldEnds
    BY <1>1, <1>4, <2>5 DEF HoldEnds, broker, writes
  <2>6. CASE FailUnheld
    BY <1>1, <1>4, <2>6 DEF FailUnheld, others
  <2>7. CASE Close
    BY <1>1, <1>4, <2>7 DEF Close, CloseRecording
  <2> QED BY <1>5, <2>1, <2>2, <2>3, <2>4, <2>5, <2>6, <2>7 DEF SweepStep
<1>6. ASSUME NEW n \in Nodes, TaskStep(n) PROVE Undisturbed' => Undisturbed
  BY <1>1, <1>4, <1>6 DEF TaskStep, EnterGate, LoseTheGate, StartAttempt, PauseAttempts, Answer,
                          broker, writes, others
<1>7. ASSUME NEW n \in Nodes, Resume(n) PROVE Undisturbed' => Undisturbed
  <2>1. caller' = caller \/ (caller' \in {"gone", "none"} /\ (caller' = "none" => caller \in {"here", "none"}))
    BY <1>7 DEF Resume, ResumeFrom, TypeOK
  <2>2. UNCHANGED lost \/ \E ns \in SUBSET Nodes : \E res, status : WriteBeside(0, ns, res, status)
    <3>1. {} \in SUBSET Nodes /\ {n} \in SUBSET Nodes
      OBVIOUS
    <3> QED BY <1>7, <3>1 DEF Resume, ResumeFrom, writes, Write
  <2>3. UNCHANGED lost \/ lost <= lost'
    BY <1>3, <2>2
  <2> QED BY <1>1, <1>2, <2>1, <2>3
<1>8. CASE EndStopped
  <2>1. CASE Finished(runStatus)
    BY <1>1, <1>8, <2>1 DEF EndStopped, EndStoppedUnless, broker, writes
  <2>2. CASE ~Finished(runStatus)
    <3>1. PICK kept \in SUBSET Nodes :
            WriteBeside(Cardinality(kept), {m \in Nodes : ~Finished(record[m].status)},
                        [m \in Nodes |-> Bare("cancelled")], "cancelled")
      BY <1>8, <2>2 DEF EndStopped, EndStoppedUnless
    <3>2. Cardinality(kept) \in Nat
      BY SweepAssumption, FS_Subset, FS_CardinalityType
    <3>3. lost <= lost'
      BY <1>3, <3>1, <3>2
    <3> QED BY <1>1, <1>2, <1>8, <3>3 DEF EndStopped, EndStoppedUnless
  <2> QED BY <2>1, <2>2
<1>9. CASE CallerLeaves \/ AskStop \/ UNCHANGED vars \/ \E n \in Nodes : VigilIsAnswered(n)
  BY <1>1, <1>9 DEF CallerLeaves, AskStop, VigilIsAnswered, vars, others, broker, writes
<1> QED BY <1>5, <1>6, <1>7, <1>8, <1>9 DEF Next

\* Where nothing disturbed the run, what is written is recorded, and nothing else.
LEMMA UndisturbedPersist ==
    ASSUME TypeOK, AllRelated, Undisturbed, Undisturbed', NEW ns \in SUBSET Nodes,
           NEW res \in [Nodes -> Result], NEW status \in RunStatuses, Persist(ns, res, status)
    PROVE  /\ runStatus' = status
           /\ \A n \in Nodes : record'[n] = IF n \in ns THEN res[n] ELSE record[n]
<1>1. caller # "left" /\ lost' = 0 /\ \A n \in Nodes : ~Unrelated(n)
  BY DEF Undisturbed, AllRelated
<1>2. Touches(ns, res) /\ Arrives(ns, res) /\ runStatus' = status
  BY <1>1, PersistDoes
<1> QED BY <1>1, <1>2 DEF Touches, Arrives

\* The record of an undisturbed run is whole when it is looked at before a wait.
LEMMA UndisturbedWrite ==
    ASSUME IInv, Undisturbed, Undisturbed', WriteRecordAgain
    PROVE  /\ pc' = "placing" /\ UNCHANGED result
           /\ \A n \in Nodes : record'[n] = record[n]
<1> DEFINE known   == {n \in Nodes : result[n].status # "none"}
           written == [n \in Nodes |-> Undecided(n)]
<1>0. written \in [Nodes -> Result] /\ \A rec : Unrecorded(rec) \in SUBSET Nodes
  BY WriteRecordTypes DEF IInv
<1>1. PICK unread, unreadAfter \in BOOLEAN, missed \in SUBSET Nodes :
        /\ missed = IF unreadAfter THEN known ELSE Unrecorded(record')
        /\ caller = "left" \/ WriteBeside((IF unread THEN 1 ELSE 0) + (IF unreadAfter THEN 1 ELSE 0),
                                          IF unread THEN known ELSE Unrecorded(record),
                                          written, runStatus)
        /\ result' = [n \in Nodes |-> IF n \in missed THEN Failed ELSE result[n]]
        /\ pc' = IF missed = {} THEN "placing" ELSE "failing"
  BY <1>0 DEF WriteRecordAgain, WriteRecordChecking
<1> HIDE DEF written
<1>2. pc = "writing" /\ caller # "left" /\ lost = 0 /\ lost' = 0
  BY DEF WriteRecordAgain, WriteRecordChecking, Undisturbed
<1>3. \A n \in Nodes : RecordFollows(n) /\ ~Unrelated(n)
  BY <1>2 DEF IInv, FinalInv, RecordFollowsAll, AllRelated
<1>4. Unrecorded(record) = {}
  BY <1>2, <1>3 DEF Unrecorded, RecordFollows
<1> DEFINE cost == (IF unread THEN 1 ELSE 0) + (IF unreadAfter THEN 1 ELSE 0)
           todo == IF unread THEN known ELSE Unrecorded(record)
<1>5. cost \in Nat /\ (unread \/ unreadAfter => cost > 0)
  OBVIOUS
<1>6. todo \in SUBSET Nodes /\ WriteBeside(cost, todo, written, runStatus)
  BY <1>1, <1>2, <1>4
<1>7. runStatus \in RunStatuses /\ TypeOK
  BY DEF IInv, TypeOK
<1> HIDE DEF cost, todo
<1>8. lost + cost <= lost' /\ Touches(todo, written)
  BY <1>0, <1>5, <1>6, <1>7, WriteDoes
<1>9. cost = 0
  BY <1>2, <1>5, <1>8
<1>10. ~unread /\ ~unreadAfter
  BY <1>5, <1>9
<1>11. \A n \in Nodes : record'[n] = record[n]
  BY <1>4, <1>8, <1>10 DEF Touches, todo
<1>12. missed = {}
  BY <1>1, <1>4, <1>10, <1>11 DEF Unrecorded
<1>13. result' = result
  BY <1>1, <1>12 DEF IInv, TypeOK
<1> QED BY <1>1, <1>11, <1>12, <1>13

LEMMA CarriedKept ==
    ASSUME UNCHANGED dag, NEW n \in Nodes, result'[n] = result[n],
           \E w \in WiresOutOf(n) : Carried(w)
    PROVE  \E w \in WiresOutOf(n)' : Carried(w)'
<1>1. PICK w \in WiresOutOf(n) : Carried(w)
  OBVIOUS
<1>2. w \in WiresOutOf(n)' /\ w.from = n
  BY DEF WiresOutOf
<1> QED BY <1>1, <1>2 DEF Carried, Carries

LEMMA ReadyOfSame ==
    ASSUME UNCHANGED <<dag, result, task>>
    PROVE  Ready' = Ready /\ Calling' = Calling
BY DEF Ready, Pending, WiresInto, Settled, Calling

EarnedByStep == /\ FailuresAreTrue
                /\ SettledByAnswers
                /\ HaltedFor
                /\ FailuresCarried
                /\ Drained
                /\ NotBegun
                /\ SuccessIsEarned
                /\ EndIsRecorded

\* A drained sweep with no reason to end short and nothing waiting has settled every node.
LEMMA AllSettled ==
    ASSUME TypeOK, Ready = {}, Calling = {}, Waiting = {}
    PROVE  \A n \in Nodes : Settled(n)
<1> DEFINE open == {n \in Nodes : result[n].status = "none"}
<1>1. SUFFICES ASSUME open # {} PROVE FALSE
  BY DEF Waiting, Settled
<1>2. open \in (SUBSET Nodes) \ {{}} /\ Acyclic(dag.wires)
  BY <1>1, SweepAssumption DEF TypeOK
<1>3. PICK n \in open : \A w \in dag.wires : w.to = n => w.from \notin open
  BY <1>2 DEF Acyclic
<1>4. \A w \in WiresInto(n) : w.from \in Nodes /\ w.from \notin open
  BY <1>3, DrawingParts DEF WiresInto
<1>5. \A w \in WiresInto(n) : Settled(w.from)
  BY <1>4 DEF Settled, Waiting
<1>6. n \in Ready
  BY <1>5 DEF Ready, Pending, Calling
<1> QED BY <1>6

\* A step that settles nothing and records nothing.
LEMMA EarnedOfQuiet ==
    ASSUME IInv, EarnedInv, SeeStop \/ StopLooking \/ Throw \/ DrainEnds
                            \/ \E n \in Nodes : TakeThrown(n)
    PROVE  EarnedByStep'
<1>1. /\ UNCHANGED <<dag, result, record, caller, lost, unhandled, halted>>
      /\ stopped => stopped'
      /\ pc \in {"looking", "taking", "draining", "throwing"}
      /\ pc' \in {"draining", "writing", "closing", "throwing", "thrown"}
  BY DEF SeeStop, StopLooking, Throw, DrainEnds, TakeThrown, run, locals, others, broker, writes
<1>2. FailuresAreTrue' /\ SettledByAnswers' /\ HaltedFor'
  BY <1>1 DEF EarnedInv, FailuresAreTrue, SettledByAnswers, HaltedFor, Sweeping, Undisturbed
<1>3. FailuresCarried'
  BY <1>1, CarriedKept DEF EarnedInv, FailuresCarried, Sweeping, Undisturbed
<1>4. Drained'
  <2>1. CASE SeeStop \/ StopLooking
    BY <2>1 DEF SeeStop, StopLooking, locals, EarnedInv, Drained
  <2>2. CASE Throw \/ \E n \in Nodes : TakeThrown(n)
    BY <2>2 DEF Throw, TakeThrown, Drained
  <2>3. CASE DrainEnds
    <3>1. /\ pc = "draining" /\ Calling = {} /\ UNCHANGED <<dag, result, task, halted, stopped, unhandled>>
          /\ pc' = IF ~halted /\ ~stopped /\ Waiting # {} THEN "writing" ELSE "closing"
      BY <2>3 DEF DrainEnds, run, locals, tasks
    <3>2. Ready' = Ready /\ Calling' = Calling /\ \A n \in Nodes : Settled(n)' <=> Settled(n)
      BY <3>1, ReadyOfSame DEF Settled
    <3>3. ~halted /\ ~stopped => ~unhandled /\ Ready = {}
      BY <3>1 DEF EarnedInv, Drained
    <3>4. pc' = "closing" /\ ~halted /\ ~stopped => \A n \in Nodes : Settled(n)
      BY <3>1, <3>3, AllSettled DEF IInv
    <3> QED BY <3>1, <3>2, <3>3, <3>4 DEF Drained
  <2> QED BY <2>1, <2>2, <2>3
<1>5. NotBegun'
  <2>1. CASE SeeStop \/ StopLooking \/ DrainEnds
    BY <1>1, <2>1 DEF SeeStop, StopLooking, DrainEnds, tasks, EarnedInv, NotBegun, Sweeping, Undisturbed
  <2>2. CASE Throw \/ \E n \in Nodes : TakeThrown(n)
    <3>1. caller = "left"
      BY <2>2 DEF Throw, TakeThrown, IInv, FinalInv, LeavingThrows
    <3> QED BY <1>1, <3>1 DEF NotBegun, Sweeping, Undisturbed
  <2> QED BY <2>1, <2>2
<1>6. SuccessIsEarned' /\ EndIsRecorded'
  BY <1>1 DEF SuccessIsEarned, EndIsRecorded
<1> QED BY <1>2, <1>3, <1>4, <1>5, <1>6 DEF EarnedByStep

LEMMA EarnedOfLook ==
    ASSUME IInv, EarnedInv, Look, Undisturbed' => Undisturbed
    PROVE  EarnedByStep'
<1> DEFINE res == [n \in Nodes |-> Bare("notTaken")]
<1>1. /\ UNCHANGED <<dag, caller, unhandled, halted, stopped>>
      /\ pc = "looking" /\ ~halted /\ ~stopped
      /\ pc' = IF NotTaken # {} THEN "looking"
               ELSE IF Calling \union (Ready \ NotTaken) = {} THEN "draining" ELSE "taking"
      /\ result' = [n \in Nodes |-> IF n \in NotTaken THEN Bare("notTaken") ELSE result[n]]
      /\ task' = [n \in Nodes |-> IF n \in Ready \ NotTaken THEN "queued" ELSE task[n]]
      /\ Persist(NotTaken, res, runStatus)
  BY DEF Look, LookAt, run, locals, others
<1>2. /\ NotTaken \in SUBSET Nodes
      /\ NotTaken \subseteq Ready
      /\ \A n \in Ready : result[n].status = "none" /\ task[n] = "none"
  BY DEF NotTaken, Ready, Pending
<1>3. /\ res \in [Nodes -> Result] /\ \A n \in Nodes : res[n] = Bare("notTaken")
      /\ Bare("notTaken").status = "notTaken"
  BY ResultTypes DEF Statuses, Bare
<1>4. runStatus \in RunStatuses /\ TypeOK /\ AllRelated
  BY DEF IInv, TypeOK, FinalInv
<1> HIDE DEF res
<1>5. ASSUME Undisturbed'
      PROVE  \A n \in Nodes : record'[n] = IF n \in NotTaken THEN res[n] ELSE record[n]
  BY <1>1, <1>2, <1>3, <1>4, <1>5, UndisturbedPersist
<1>6. \A n \in Nodes : result'[n] = IF n \in NotTaken THEN Bare("notTaken") ELSE result[n]
  BY <1>1
<1>7. pc' # "ended" /\ pc' \in {"looking", "draining", "taking"}
  BY <1>1
<1>8. FailuresAreTrue'
  BY <1>3, <1>5, <1>6 DEF EarnedInv, FailuresAreTrue
<1>9. SettledByAnswers' /\ HaltedFor'
  BY <1>1, <1>3, <1>6 DEF EarnedInv, SettledByAnswers, HaltedFor, Sweeping
<1>10. FailuresCarried'
  <2> SUFFICES ASSUME Sweeping', ~unhandled, NEW n \in Nodes, result'[n].status = "failed"
               PROVE  \E w \in WiresOutOf(n)' : Carried(w)'
    BY <1>1 DEF FailuresCarried
  <2>1. result'[n] = result[n]
    BY <1>3, <1>6
  <2>2. \E w \in WiresOutOf(n) : Carried(w)
    BY <1>1, <2>1 DEF EarnedInv, FailuresCarried, Sweeping
  <2> QED BY <1>1, <2>1, <2>2, CarriedKept
<1>11. Drained'
  <2>1. pc' = "draining" => Ready = {} /\ Calling = {} /\ UNCHANGED <<result, task>>
    <3>1. pc' = "draining" => NotTaken = {} /\ Ready = {} /\ Calling = {}
      BY <1>1, <1>2
    <3>2. NotTaken = {} /\ Ready = {} => UNCHANGED <<result, task>>
      BY <1>1, <1>4 DEF TypeOK
    <3> QED BY <3>1, <3>2
  <2>2. pc' = "draining" => Ready' = {} /\ Calling' = {}
    BY <1>1, <2>1, ReadyOfSame
  <2> QED BY <1>1, <1>7, <2>2 DEF EarnedInv, Drained
<1>12. NotBegun'
  <2> SUFFICES ASSUME Sweeping', NEW n \in Nodes, result'[n].status = "none",
                      task'[n] \in {"none", "queued"}
               PROVE  record'[n].status = "none"
    BY DEF NotBegun
  <2>1. n \notin NotTaken /\ result[n].status = "none" /\ record'[n] = record[n]
    BY <1>3, <1>5, <1>6 DEF Sweeping
  <2>2. task[n] \in {"none", "queued"}
    BY <1>1, <1>2
  <2> QED BY <1>1, <2>1, <2>2 DEF EarnedInv, NotBegun, Sweeping
<1>13. SuccessIsEarned' /\ EndIsRecorded'
  BY <1>7 DEF SuccessIsEarned, EndIsRecorded
<1> QED BY <1>8, <1>9, <1>10, <1>11, <1>12, <1>13 DEF EarnedByStep

LEMMA EarnedOfTake ==
    ASSUME IInv, AnswersSettle, EarnedInv, NEW n \in Nodes, Take(n), Undisturbed' => Undisturbed
    PROVE  EarnedByStep'
<1> DEFINE r    == answer[n]
           lone == ReachesNoWire(n, answer[n])
<1>1. /\ UNCHANGED <<dag, caller>>
      /\ pc \in {"taking", "draining"} /\ pc' \in {"looking", "draining"}
      /\ pc' = "draining" => pc = "draining"
      /\ task[n] = "answered" /\ task' = [task EXCEPT ![n] = "none"]
      /\ result' = [result EXCEPT ![n] = r]
      /\ halted' = (halted \/ lone \/ r.status = "cannotRehearse")
      /\ unhandled' = (unhandled \/ lone)
      /\ stopped' = (stopped \/ (r.status = "cancelled" /\ stopAsked))
  BY DEF Take, TakeAs, run, others
<1>2. PICK res : res = result' /\ Persist({n}, res, runStatus)
  BY DEF Take, TakeAs
<1>3. /\ runStatus \in RunStatuses /\ TypeOK /\ AllRelated /\ {n} \in SUBSET Nodes
      /\ res \in [Nodes -> Result]
  BY <1>1, <1>2 DEF IInv, TypeOK, FinalInv
<1>4. Undisturbed' => \A m \in Nodes : record'[m] = IF m \in {n} THEN res[m] ELSE record[m]
  BY <1>2, <1>3, UndisturbedPersist
<1>5. /\ r.status \notin StillToRun \union {"notTaken", "skipped"}
      /\ r.status = "cancelled" => stopAsked
      /\ r.status = "failed" => r = Failed
  BY <1>1 DEF AnswersSettle, EarnedInv, AnswersAreTrue
<1>6. result[n].status = "none"
  BY <1>1 DEF IInv, OrderInv, StartedUnsettled
<1>7. result'[n] = r /\ \A m \in Nodes : m # n => result'[m] = result[m] /\ task'[m] = task[m]
  BY <1>1 DEF IInv, TypeOK
<1>8. task'[n] = "none"
  BY <1>1 DEF IInv, TypeOK
<1>9. Sweeping' => Sweeping /\ Undisturbed'
  BY <1>1 DEF Sweeping
<1>10. lone <=> ReachesNoWire(n, r)
  OBVIOUS
<1> HIDE DEF r, lone
<1>11. FailuresAreTrue'
  BY <1>2, <1>4, <1>5, <1>7 DEF EarnedInv, FailuresAreTrue
<1>12. SettledByAnswers'
  BY <1>1, <1>5, <1>7, <1>9 DEF EarnedInv, SettledByAnswers
<1>13. HaltedFor'
  <2> SUFFICES ASSUME Sweeping', halted', ~unhandled'
               PROVE  \E m \in Nodes : result'[m].status = "cannotRehearse"
    BY DEF HaltedFor
  <2>1. CASE r.status = "cannotRehearse"
    BY <1>7, <2>1
  <2>2. CASE halted
    <3>1. PICK m \in Nodes : result[m].status = "cannotRehearse"
      BY <1>1, <1>9, <2>2 DEF EarnedInv, HaltedFor
    <3> QED BY <1>6, <1>7, <3>1
  <2> QED BY <1>1, <2>1, <2>2
<1>14. FailuresCarried'
  <2> SUFFICES ASSUME Sweeping', ~unhandled', NEW m \in Nodes, result'[m].status = "failed"
               PROVE  \E w \in WiresOutOf(m)' : Carried(w)'
    BY DEF FailuresCarried
  <2>1. ~unhandled /\ ~lone
    BY <1>1
  <2>2. CASE m = n
    <3>1. r.status = "failed"
      BY <1>7, <2>2
    <3>2. PICK w \in WiresOutOf(n) : Carries(w, r)
      BY <1>10, <2>1, <3>1 DEF ReachesNoWire
    <3>3. w \in WiresOutOf(n)' /\ w.from = n
      BY <1>1, <3>2 DEF WiresOutOf
    <3>4. Carried(w)'
      BY <1>7, <3>2, <3>3 DEF Carried, Carries
    <3> QED BY <2>2, <3>3, <3>4
  <2>3. CASE m # n
    <3>1. result'[m] = result[m] /\ pc # "failing"
      BY <1>1, <1>7, <2>3
    <3>2. \E w \in WiresOutOf(m) : Carried(w)
      BY <1>9, <2>1, <3>1 DEF EarnedInv, FailuresCarried
    <3> QED BY <1>1, <3>1, <3>2, CarriedKept
  <2> QED BY <2>2, <2>3
<1>15. Drained'
  <2>1. unhandled => halted
    BY <1>1 DEF EarnedInv, Drained
  <2>2. n \in Calling
    BY <1>1 DEF Calling
  <2>3. pc = "draining" => halted \/ stopped \/ unhandled
    BY <2>2 DEF EarnedInv, Drained
  <2>4. (unhandled' => halted') /\ (pc' = "draining" => halted' \/ stopped' \/ unhandled')
    BY <1>1, <2>1, <2>3
  <2> QED BY <1>1, <2>4 DEF Drained
<1>16. NotBegun'
  <2> SUFFICES ASSUME Sweeping', NEW m \in Nodes, result'[m].status = "none",
                      task'[m] \in {"none", "queued"}
               PROVE  record'[m].status = "none"
    BY DEF NotBegun
  <2>1. m # n
    BY <1>5, <1>7 DEF StillToRun
  <2> QED BY <1>4, <1>7, <1>9, <2>1 DEF EarnedInv, NotBegun
<1>17. SuccessIsEarned' /\ EndIsRecorded'
  BY <1>1 DEF SuccessIsEarned, EndIsRecorded
<1> QED BY <1>11, <1>12, <1>13, <1>14, <1>15, <1>16, <1>17 DEF EarnedByStep

LEMMA EarnedOfTask ==
    ASSUME IInv, EarnedInv, NEW n \in Nodes, TaskStep(n), Undisturbed' => Undisturbed
    PROVE  EarnedByStep'
<1>1. /\ task[n] # "none"
      /\ UNCHANGED <<dag, result, pc, halted, unhandled, stopped, caller>>
      /\ \A m \in Nodes \ {n} : task'[m] = task[m]
      /\ task'[n] \notin {"none", "queued"}
  BY DEF TaskStep, EnterGate, LoseTheGate, StartAttempt, PauseAttempts, Answer, run, locals,
         others, broker, IInv, TypeOK
<1>2. pc \notin PastTheDrain /\ n \in Calling
  BY <1>1 DEF IInv, OrderInv, NoTaskIsLeft, Calling
<1>3. ASSUME Undisturbed'
      PROVE  \A m \in Nodes : \/ record'[m] = record[m]
                              \/ m = n /\ record'[m].status # "failed"
  <2>1. CASE LoseTheGate(n) \/ StartAttempt(n) \/ Answer(n)
    BY <2>1 DEF LoseTheGate, StartAttempt, Answer, broker, writes
  <2>2. ASSUME NEW status \in {"running", "trying"},
               Persist({n}, [m \in Nodes |-> Bare(status)], runStatus)
        PROVE  \A m \in Nodes : record'[m] = record[m] \/ (m = n /\ record'[m].status # "failed")
    <3> DEFINE res == [m \in Nodes |-> Bare(status)]
    <3>1. res \in [Nodes -> Result] /\ \A m \in Nodes : res[m].status = status
      BY ResultTypes DEF Statuses, Bare
    <3>2. Persist({n}, res, runStatus) /\ {n} \in SUBSET Nodes
      BY <2>2
    <3>3. runStatus \in RunStatuses /\ TypeOK /\ AllRelated
      BY DEF IInv, TypeOK, FinalInv
    <3> HIDE DEF res
    <3>4. \A m \in Nodes : record'[m] = IF m \in {n} THEN res[m] ELSE record[m]
      BY <1>3, <3>1, <3>2, <3>3, UndisturbedPersist
    <3> QED BY <3>1, <3>4
  <2> QED BY <2>1, <2>2 DEF TaskStep, EnterGate, PauseAttempts
<1>4. Sweeping' => Sweeping /\ Undisturbed'
  BY <1>1 DEF Sweeping
<1>5. FailuresAreTrue'
  BY <1>1, <1>3 DEF EarnedInv, FailuresAreTrue
<1>6. SettledByAnswers' /\ HaltedFor'
  BY <1>1, <1>4 DEF EarnedInv, SettledByAnswers, HaltedFor
<1>7. FailuresCarried'
  BY <1>1, <1>4, CarriedKept DEF EarnedInv, FailuresCarried
<1>8. Drained'
  BY <1>1, <1>2 DEF EarnedInv, Drained, PastTheDrain
<1>9. NotBegun'
  <2> SUFFICES ASSUME Sweeping', NEW m \in Nodes, result[m].status = "none",
                      task'[m] \in {"none", "queued"}
               PROVE  record'[m].status = "none"
    BY <1>1 DEF NotBegun
  <2>1. m # n /\ task'[m] = task[m]
    BY <1>1
  <2> QED BY <1>3, <1>4, <2>1 DEF EarnedInv, NotBegun
<1>10. SuccessIsEarned' /\ EndIsRecorded'
  BY <1>1, <1>2 DEF SuccessIsEarned, EndIsRecorded, PastTheDrain
<1> QED BY <1>5, <1>6, <1>7, <1>8, <1>9, <1>10 DEF EarnedByStep

LEMMA EarnedOfWriteRecord ==
    ASSUME IInv, EarnedInv, WriteRecordAgain, Undisturbed' => Undisturbed
    PROVE  EarnedByStep'
<1>1. /\ UNCHANGED <<dag, task, halted, unhandled, stopped, caller>>
      /\ pc = "writing" /\ pc' \in {"placing", "failing"}
  BY DEF WriteRecordAgain, WriteRecordChecking, run, locals, tasks, others
<1>2. Undisturbed' => /\ UNCHANGED result
                      /\ \A n \in Nodes : record'[n] = record[n]
  BY UndisturbedWrite
<1>3. Sweeping' => Sweeping /\ Undisturbed'
  BY <1>1 DEF Sweeping
<1>4. FailuresAreTrue'
  BY <1>2 DEF EarnedInv, FailuresAreTrue
<1>5. SettledByAnswers' /\ HaltedFor' /\ NotBegun'
  BY <1>1, <1>2, <1>3 DEF EarnedInv, SettledByAnswers, HaltedFor, NotBegun
<1>6. FailuresCarried'
  BY <1>1, <1>2, <1>3, CarriedKept DEF EarnedInv, FailuresCarried
<1>7. Drained'
  <2>1. pc' = "placing" => UNCHANGED result
    <3>1. PICK missed : /\ result' = [n \in Nodes |-> IF n \in missed THEN Failed ELSE result[n]]
                        /\ pc' = IF missed = {} THEN "placing" ELSE "failing"
      BY DEF WriteRecordAgain, WriteRecordChecking
    <3>2. missed = {} => result' = result
      BY <3>1 DEF IInv, TypeOK
    <3> QED BY <3>1, <3>2
  <2>2. pc' = "placing" => Ready' = Ready /\ Calling' = Calling
    BY <1>1, <2>1, ReadyOfSame
  <2> QED BY <1>1, <2>2 DEF EarnedInv, Drained
<1>8. SuccessIsEarned' /\ EndIsRecorded'
  BY <1>1 DEF SuccessIsEarned, EndIsRecorded
<1> QED BY <1>4, <1>5, <1>6, <1>7, <1>8 DEF EarnedByStep

LEMMA EarnedOfPlace ==
    ASSUME IInv, EarnedInv, NEW n \in Nodes, Place(n)
    PROVE  EarnedByStep'
<1>1. /\ pc = "placing" /\ pc' = "placing"
      /\ n \in Waiting \ holding
      /\ UNCHANGED <<dag, halted, stopped, task, caller, record, created, runStatus, lost>>
      /\ \/ UNCHANGED <<result, unhandled>>
         \/ result' = [result EXCEPT ![n] = Failed] /\ unhandled' = TRUE
  BY DEF Place, PlaceOr, run, writes, tasks, others, IInv, TypeOK
<1>2. \A m \in Nodes : result'[m] = result[m] \/ (m = n /\ result'[m] = Failed)
  BY <1>1 DEF IInv, TypeOK
<1>3. result[n].status = "waiting" /\ ~halted /\ ~stopped
  BY <1>1 DEF Waiting, EarnedInv, Drained
<1>4. FailuresAreTrue'
  BY <1>1, <1>2 DEF EarnedInv, FailuresAreTrue, Undisturbed
<1>5. SettledByAnswers' /\ HaltedFor'
  BY <1>1, <1>2, <1>3 DEF EarnedInv, SettledByAnswers, HaltedFor, Sweeping, Undisturbed, Failed
<1>6. FailuresCarried'
  BY <1>1, CarriedKept DEF EarnedInv, FailuresCarried, Sweeping, Undisturbed
<1>7. Drained'
  <2>1. UNCHANGED result => Ready' = Ready /\ Calling' = Calling
    BY <1>1, ReadyOfSame
  <2> QED BY <1>1, <2>1 DEF EarnedInv, Drained
<1>8. NotBegun'
  BY <1>1, <1>2 DEF EarnedInv, NotBegun, Sweeping, Undisturbed, Failed
<1>9. SuccessIsEarned' /\ EndIsRecorded'
  BY <1>1 DEF SuccessIsEarned, EndIsRecorded
<1> QED BY <1>4, <1>5, <1>6, <1>7, <1>8, <1>9 DEF EarnedByStep

LEMMA EarnedOfHoldEnds ==
    ASSUME IInv, EarnedInv, HoldEnds, Undisturbed' => Undisturbed
    PROVE  EarnedByStep'
<1>1. /\ UNCHANGED <<dag, result, task, halted, unhandled, stopped, caller>>
      /\ pc = "placing" /\ pc' = IF unhandled THEN "failing" ELSE "waits"
  BY DEF HoldEnds, run, locals, tasks
<1>2. \A n \in Nodes : record'[n] = record[n]
  <2>1. CASE unhandled
    BY <2>1 DEF HoldEnds, broker, writes
  <2>2. CASE ~unhandled
    <3>1. Persist({}, record, "waiting") /\ "waiting" \in RunStatuses /\ {} \in SUBSET Nodes
          /\ record \in [Nodes -> Result] /\ TypeOK
      BY <2>2 DEF HoldEnds, RunStatuses, IInv, TypeOK
    <3>2. Touches({}, record)
      BY <3>1, PersistDoes
    <3> QED BY <3>2 DEF Touches
  <2> QED BY <2>1, <2>2
<1>3. Sweeping' => Sweeping /\ Undisturbed'
  BY <1>1 DEF Sweeping
<1>4. FailuresAreTrue'
  BY <1>1, <1>2 DEF EarnedInv, FailuresAreTrue
<1>5. SettledByAnswers' /\ HaltedFor' /\ NotBegun'
  BY <1>1, <1>2, <1>3 DEF EarnedInv, SettledByAnswers, HaltedFor, NotBegun
<1>6. FailuresCarried'
  BY <1>1, <1>3, CarriedKept DEF EarnedInv, FailuresCarried
<1>7. Drained'
  BY <1>1, ReadyOfSame DEF EarnedInv, Drained
<1>8. SuccessIsEarned' /\ EndIsRecorded'
  BY <1>1 DEF SuccessIsEarned, EndIsRecorded
<1> QED BY <1>4, <1>5, <1>6, <1>7, <1>8 DEF EarnedByStep

LEMMA EarnedOfFailUnheld ==
    ASSUME IInv, EarnedInv, FailUnheld, Undisturbed' => Undisturbed
    PROVE  EarnedByStep'
<1> DEFINE unwritten == {n \in Nodes : result[n].status = "failed"} \intersect Unrecorded(record)
<1>1. /\ pc = "failing" /\ pc' = "closing"
      /\ UNCHANGED <<dag, result, task, stopped, caller>> /\ halted' /\ unhandled'
      /\ Persist(unwritten, result, runStatus) /\ unwritten \in SUBSET Nodes
      /\ \A n \in unwritten : result[n].status = "failed"
  BY DEF FailUnheld, run, tasks, others
<1>2. result \in [Nodes -> Result] /\ runStatus \in RunStatuses /\ TypeOK /\ AllRelated
  BY DEF IInv, TypeOK, FinalInv
<1> HIDE DEF unwritten
<1>3. Undisturbed' => \A n \in Nodes : record'[n] = IF n \in unwritten THEN result[n] ELSE record[n]
  BY <1>1, <1>2, UndisturbedPersist
<1>4. Sweeping' => Sweeping /\ Undisturbed'
  BY <1>1 DEF Sweeping
<1>5. FailuresAreTrue'
  BY <1>1, <1>3 DEF EarnedInv, FailuresAreTrue
<1>6. SettledByAnswers' /\ HaltedFor' /\ FailuresCarried'
  BY <1>1, <1>4 DEF EarnedInv, SettledByAnswers, HaltedFor, FailuresCarried
<1>7. Drained'
  BY <1>1 DEF Drained
<1>8. NotBegun'
  BY <1>1, <1>3, <1>4 DEF EarnedInv, NotBegun
<1>9. SuccessIsEarned' /\ EndIsRecorded'
  BY <1>1 DEF SuccessIsEarned, EndIsRecorded
<1> QED BY <1>5, <1>6, <1>7, <1>8, <1>9 DEF EarnedByStep

LEMMA EarnedOfOthers ==
    ASSUME IInv, EarnedInv,
           CallerLeaves \/ AskStop \/ UNCHANGED vars \/ \E n \in Nodes : VigilIsAnswered(n)
    PROVE  EarnedByStep'
<1>1. /\ UNCHANGED <<dag, pc, result, task, halted, unhandled, stopped, record, runStatus, lost>>
      /\ Undisturbed' => Undisturbed
  BY DEF CallerLeaves, AskStop, VigilIsAnswered, vars, run, locals, tasks, others, broker, writes,
         Undisturbed
<1>2. /\ FailuresAreTrue' /\ SettledByAnswers' /\ HaltedFor' /\ NotBegun'
  BY <1>1 DEF EarnedInv, FailuresAreTrue, SettledByAnswers, HaltedFor, NotBegun, Sweeping
<1>3. FailuresCarried'
  BY <1>1, CarriedKept DEF EarnedInv, FailuresCarried, Sweeping
<1>4. Drained'
  BY <1>1, ReadyOfSame DEF EarnedInv, Drained, Settled
<1>5. SuccessIsEarned'
  <2>1. \A w : Carried(w)' <=> Carried(w)
    BY <1>1 DEF Carried, Carries
  <2>2. \A w : CarriedAFail(w)' <=> CarriedAFail(w)
    BY <1>1, <2>1 DEF CarriedAFail
  <2>3. WiresInto(dag.output)' = WiresInto(dag.output) /\ \A n : WiresOutOf(n)' = WiresOutOf(n)
    BY <1>1 DEF WiresInto, WiresOutOf
  <2> QED BY <1>1, <2>1, <2>2, <2>3 DEF EarnedInv, SuccessIsEarned
<1>6. EndIsRecorded'
  BY <1>1 DEF EarnedInv, EndIsRecorded, Finished
<1> QED BY <1>2, <1>3, <1>4, <1>5, <1>6 DEF EarnedByStep

\* The outcome of an ended run does not change while its drawing, results and status do not.
LEMMA SuccessOfSame ==
    ASSUME SuccessIsEarned, UNCHANGED <<dag, pc, result, runStatus>>, Undisturbed' => Undisturbed
    PROVE  SuccessIsEarned'
<1>1. \A w : Carried(w)' <=> Carried(w)
  BY DEF Carried, Carries
<1>2. \A w : CarriedAFail(w)' <=> CarriedAFail(w)
  BY <1>1 DEF CarriedAFail
<1>3. WiresInto(dag.output)' = WiresInto(dag.output) /\ \A n : WiresOutOf(n)' = WiresOutOf(n)
  BY DEF WiresInto, WiresOutOf
<1> QED BY <1>1, <1>2, <1>3 DEF SuccessIsEarned

\* The end of a sweep: a success judged leaves no node out.
LEMMA EarnedOfClose ==
    ASSUME IInv, ResultsSettle, EarnedInv, Close, Undisturbed' => Undisturbed
    PROVE  EarnedByStep'
<1> DEFINE unreached == {n \in Nodes : ~Settled(n)}
           leftOut   == Bare(IF stopped THEN "cancelled" ELSE "skipped")
<1>1. /\ pc = "closing" /\ pc' = "ended"
      /\ UNCHANGED <<dag, task, halted, unhandled, stopped, caller>>
      /\ result' = [n \in Nodes |-> IF n \notin unreached THEN result[n] ELSE leftOut]
  BY DEF Close, CloseRecording, run, locals, tasks
<1>r. PICK res : res = result'
  OBVIOUS
<1>2. PICK passes \in Verdicts : res = result' /\ Persist(unreached, res, StatusJudged(passes))
  BY <1>r DEF Close, CloseRecording
<1>3. leftOut \in Result /\ leftOut.status \in {"cancelled", "skipped"}
  BY ResultTypes DEF Statuses, Bare
<1>4. unreached \in SUBSET Nodes /\ \A n \in Nodes : n \in unreached <=> ~Settled(n)
  OBVIOUS
<1>5. StatusJudged(passes) \in RunStatuses /\ Finished(StatusJudged(passes))
  BY <1>2, JudgedType, JudgedIsFinished DEF Verdicts
<1> HIDE DEF unreached, leftOut
<1>6. /\ res \in [Nodes -> Result]
      /\ \A n \in Nodes : result'[n] = IF n \in unreached THEN leftOut ELSE result[n]
  BY <1>1, <1>2, <1>3, <1>4 DEF IInv, TypeOK
<1>7. TypeOK /\ AllRelated
  BY DEF IInv, FinalInv
<1>8. Undisturbed' => /\ runStatus' = StatusJudged(passes)
                      /\ \A n \in Nodes : record'[n] = IF n \in unreached THEN result'[n] ELSE record[n]
  BY <1>2, <1>4, <1>5, <1>6, <1>7, UndisturbedPersist
<1>9. FailuresAreTrue'
  BY <1>3, <1>6, <1>8 DEF EarnedInv, FailuresAreTrue
<1>10. SettledByAnswers' /\ HaltedFor' /\ FailuresCarried' /\ NotBegun' /\ Drained'
  BY <1>1 DEF SettledByAnswers, HaltedFor, FailuresCarried, NotBegun, Drained, Sweeping
<1>11. SuccessIsEarned'
  <2> SUFFICES ASSUME Undisturbed', runStatus' \in {"succeeded", "rehearsed"}
               PROVE  /\ \A n \in Nodes : result'[n].status \in {"succeeded", "partial", "failed",
                                                                 "rehearsed", "notTaken"}
                      /\ \A n \in Nodes : result'[n].status = "failed" =>
                                              \E w \in WiresOutOf(n)' : Carried(w)'
                      /\ dag'.ruled \/ \A w \in WiresInto(dag.output)' : ~CarriedAFail(w)'
    BY DEF SuccessIsEarned
  <2>1. /\ ~stopped /\ ~unhandled /\ passes
        /\ \A n \in Nodes : result[n].status # "cannotRehearse"
    BY <1>8 DEF StatusJudged
  <2>2. Sweeping
    BY <1>1 DEF Sweeping
  <2>3. ~halted
    BY <2>1, <2>2 DEF EarnedInv, HaltedFor
  <2>4. \A n \in Nodes : Settled(n)
    BY <1>1, <2>1, <2>3 DEF EarnedInv, Drained
  <2>5. \A n \in Nodes : result'[n] = result[n]
    BY <1>4, <1>6, <2>4
  <2>6. \A n \in Nodes : result[n].status \in {"succeeded", "partial", "failed", "rehearsed", "notTaken"}
    <3>1. \A n \in Nodes : result[n].status \in Statuses
      BY DEF IInv, TypeOK, Result
    <3>2. \A n \in Nodes : result[n].status \notin {"none", "waiting", "running", "trying", "skipped",
                                                    "cancelled", "cannotRehearse"}
      BY <2>1, <2>2, <2>4 DEF Settled, ResultsSettle, EarnedInv, SettledByAnswers
    <3> QED BY <3>1, <3>2 DEF Statuses
  <2>7. ASSUME NEW n \in Nodes, result[n].status = "failed"
        PROVE  \E w \in WiresOutOf(n)' : Carried(w)'
    <3>1. \E w \in WiresOutOf(n) : Carried(w)
      BY <1>1, <2>1, <2>2, <2>7 DEF EarnedInv, FailuresCarried
    <3> QED BY <1>1, <2>5, <3>1, CarriedKept
  <2>8. ASSUME ~dag.ruled, NEW w \in WiresInto(dag.output)'
        PROVE  ~CarriedAFail(w)'
    <3>1. w \in WiresInto(dag.output) /\ w.from \in Nodes
      BY <1>1, <1>7, <2>8, DrawingParts DEF WiresInto
    <3>2. passes = (\A x \in WiresInto(dag.output) : ~CarriedAFail(x))
      BY <1>2, <2>8 DEF Verdicts
    <3>3. ~CarriedAFail(w)
      BY <2>1, <3>1, <3>2
    <3> QED BY <2>5, <3>1, <3>3 DEF CarriedAFail, Carried, Carries
  <2> QED BY <1>1, <2>5, <2>6, <2>7, <2>8
<1>12. EndIsRecorded'
  <2> SUFFICES ASSUME Undisturbed'
               PROVE  Finished(runStatus') /\ \A n \in Nodes : Finished(record'[n].status)
    BY DEF EndIsRecorded, Finished
  <2>1. ASSUME NEW n \in Nodes PROVE Finished(record'[n].status)
    <3>1. CASE n \in unreached
      BY <1>3, <1>6, <1>8, <3>1 DEF Finished
    <3>2. CASE n \notin unreached
      <4>1. RecordFollows(n) /\ ~Unrelated(n)
        BY <1>1 DEF IInv, FinalInv, RecordFollowsAll, AllRelated, Undisturbed
      <4>2. Settled(n) /\ record'[n] = record[n]
        BY <1>4, <1>8, <3>2
      <4>3. record[n].status = result[n].status
        BY <1>1, <4>1, <4>2 DEF RecordFollows, Settled
      <4> QED BY <4>2, <4>3 DEF Settled, ResultsSettle, Finished
    <3> QED BY <3>1, <3>2
  <2>2. Finished(runStatus')
    BY <1>5, <1>8
  <2> QED BY <2>1, <2>2
<1> QED BY <1>9, <1>10, <1>11, <1>12 DEF EarnedByStep

LEMMA EarnedOfEndStopped ==
    ASSUME IInv, EarnedInv, EndStopped, Undisturbed' => Undisturbed
    PROVE  EarnedByStep'
<1>1. UNCHANGED <<dag, result, task, halted, unhandled, stopped, caller>>
  BY DEF EndStopped, EndStoppedUnless, run, locals, tasks
<1>2. CASE Finished(runStatus)
  <2>1. UNCHANGED <<pc, record, runStatus, lost>>
    BY <1>2 DEF EndStopped, EndStoppedUnless, broker, writes
  <2>2. FailuresAreTrue' /\ SettledByAnswers' /\ HaltedFor' /\ NotBegun'
    BY <1>1, <2>1 DEF EarnedInv, FailuresAreTrue, SettledByAnswers, HaltedFor, NotBegun, Sweeping
  <2>3. FailuresCarried'
    BY <1>1, <2>1, CarriedKept DEF EarnedInv, FailuresCarried, Sweeping
  <2>4. Drained'
    BY <1>1, <2>1, ReadyOfSame DEF EarnedInv, Drained, Settled
  <2>5. SuccessIsEarned'
    BY <1>1, <2>1, SuccessOfSame DEF EarnedInv
  <2>6. EndIsRecorded'
    BY <2>1 DEF EarnedInv, EndIsRecorded, Finished
  <2> QED BY <2>2, <2>3, <2>4, <2>5, <2>6 DEF EarnedByStep
<1>3. CASE ~Finished(runStatus)
  <2> DEFINE res        == [n \in Nodes |-> Bare("cancelled")]
             unfinished == {n \in Nodes : ~Finished(record[n].status)}
             atStake    == {n \in Nodes : record[n].status = "waiting" /\ vigil[n] = "live"}
  <2>1. PICK kept \in SUBSET atStake :
            WriteBeside(Cardinality(kept), unfinished, res, "cancelled")
    BY <1>3 DEF EndStopped, EndStoppedUnless
  <2>2. pc' = "ended"
    BY <1>3 DEF EndStopped, EndStoppedUnless
  <2>3. /\ res \in [Nodes -> Result]
        /\ \A n \in Nodes : res[n].status = "cancelled" /\ (n \in unfinished <=> ~Finished(record[n].status))
    BY ResultTypes DEF Statuses, Bare
  <2>4. unfinished \in SUBSET Nodes /\ "cancelled" \in RunStatuses /\ TypeOK
    BY DEF RunStatuses, IInv
  <2>5. Cardinality(kept) \in Nat
    <3>1. kept \in SUBSET Nodes
      BY <2>1
    <3> QED BY <3>1, SweepAssumption, FS_Subset, FS_CardinalityType
  <2> HIDE DEF res, unfinished, atStake
  <2>6. Touches(unfinished, res) /\ (lost' = 0 => Arrives(unfinished, res) /\ runStatus' = "cancelled")
    BY <2>1, <2>3, <2>4, <2>5, WriteDoes
  <2>7. ASSUME Undisturbed'
        PROVE  /\ runStatus' = "cancelled"
               /\ \A n \in Nodes : record'[n] = IF n \in unfinished THEN res[n] ELSE record[n]
    <3>1. \A n \in Nodes : ~Unrelated(n)
      BY <2>7 DEF IInv, FinalInv, AllRelated
    <3>2. lost' = 0
      BY <2>7 DEF Undisturbed
    <3> QED BY <2>6, <3>1, <3>2 DEF Touches, Arrives
  <2>8. FailuresAreTrue'
    BY <1>1, <2>3, <2>7 DEF EarnedInv, FailuresAreTrue
  <2>9. SettledByAnswers' /\ HaltedFor' /\ FailuresCarried' /\ NotBegun' /\ Drained'
    BY <2>2 DEF SettledByAnswers, HaltedFor, FailuresCarried, NotBegun, Drained, Sweeping
  <2>10. SuccessIsEarned'
    BY <2>7 DEF SuccessIsEarned
  <2>11. EndIsRecorded'
    BY <2>3, <2>7 DEF EndIsRecorded, Finished
  <2> QED BY <2>8, <2>9, <2>10, <2>11 DEF EarnedByStep
<1> QED BY <1>2, <1>3

\* Where nothing disturbed it, the record of a run that waits has everything it did, and
\* what the record has nothing of lies behind a wait.
LEMMA WaitCanResume ==
    ASSUME IInv, ResultsSettle, EarnedInv, Undisturbed, pc = "waits"
    PROVE  /\ ~CannotResume
           /\ \A n \in Nodes : record[n].status \notin {"running", "trying"}
           /\ \A n \in Nodes : record[n].status = result[n].status
<1>1. \A n \in Nodes : /\ RecordFollows(n) /\ ~Unrelated(n) /\ task[n] = "none"
                       /\ result[n].status = "none" => record[n].status = "none"
  BY DEF IInv, FinalInv, RecordFollowsAll, AllRelated, Undisturbed, OrderInv, NoTaskIsLeft,
         PastTheDrain, EarnedInv, NotBegun, Sweeping
<1>2. \A n \in Nodes : record[n].status = result[n].status
  BY <1>1 DEF RecordFollows
<1>3. \A n \in Nodes : record[n].status \notin {"running", "trying"}
  BY <1>2 DEF ResultsSettle
<1>4. Ready = {}
  BY DEF EarnedInv, Drained
<1>5. ASSUME NEW n \in Missing
      PROVE  FALSE
  <2>1. PICK reached \in SUBSET Nodes :
          UnderWay \subseteq reached /\ NoWireLeaves(reached) /\ n \notin reached
    BY <1>5 DEF Missing, Downstream
  <2> DEFINE open == {m \in Nodes : record[m].status = "none" /\ m \notin reached}
  <2>2. n \in open
    BY <1>5, <2>1 DEF Missing
  <2>3. open \in (SUBSET Nodes) \ {{}} /\ Acyclic(dag.wires)
    BY <2>2, SweepAssumption DEF IInv, TypeOK
  <2>4. PICK m \in open : \A w \in dag.wires : w.to = m => w.from \notin open
    BY <2>3 DEF Acyclic
  <2>5. ASSUME NEW w \in WiresInto(m)
        PROVE  Settled(w.from)
    <3>1. w \in dag.wires /\ w.to = m /\ w.from \in Nodes
      BY <2>5, DrawingParts DEF WiresInto, IInv
    <3>2. w.from \notin reached
      BY <2>1, <2>4, <3>1 DEF NoWireLeaves
    <3>3. record[w.from].status # "none"
      BY <2>4, <3>1, <3>2
    <3>4. record[w.from].status # "waiting"
      BY <2>1, <3>1, <3>2 DEF UnderWay
    <3> QED BY <1>2, <3>1, <3>3, <3>4 DEF Settled
  <2>6. m \in Nodes /\ result[m].status = "none" /\ task[m] = "none"
    BY <1>1, <1>2, <2>4
  <2>7. m \in Ready
    BY <2>5, <2>6 DEF Ready, Pending
  <2> QED BY <1>4, <2>7
<1>6. Caught = {}
  BY <1>3 DEF Caught
<1> QED BY <1>2, <1>3, <1>5, <1>6 DEF CannotResume

LEMMA EarnedOfResume ==
    ASSUME IInv, ResultsSettle, EarnedInv, NEW n \in Nodes, Resume(n), Undisturbed' => Undisturbed
    PROVE  EarnedByStep'
<1>1. vigil[n] = "answered" /\ TurnIsFree /\ UNCHANGED <<dag, task>>
  BY DEF Resume, ResumeFrom, run, tasks
<1>2. \A m \in Nodes : task[m] = "none"
  BY <1>1 DEF IInv, OrderInv, NoTaskIsLeft, PastTheDrain, TurnIsFree
<1>3. CASE record[n].status # "waiting"
  <2>1. UNCHANGED <<pc, result, halted, unhandled, stopped, caller, record, runStatus, lost>>
    BY <1>3 DEF Resume, ResumeFrom, writes, locals
  <2>2. FailuresAreTrue' /\ SettledByAnswers' /\ HaltedFor' /\ NotBegun'
    BY <1>1, <2>1 DEF EarnedInv, FailuresAreTrue, SettledByAnswers, HaltedFor, NotBegun, Sweeping,
                      Undisturbed
  <2>3. FailuresCarried'
    BY <1>1, <2>1, CarriedKept DEF EarnedInv, FailuresCarried, Sweeping, Undisturbed
  <2>4. Drained'
    BY <1>1, <2>1, ReadyOfSame DEF EarnedInv, Drained, Settled
  <2>5. SuccessIsEarned'
    BY <1>1, <2>1, SuccessOfSame DEF EarnedInv
  <2>6. EndIsRecorded'
    BY <2>1 DEF EarnedInv, EndIsRecorded, Finished, Undisturbed
  <2> QED BY <2>2, <2>3, <2>4, <2>5, <2>6 DEF EarnedByStep
<1>4. ASSUME Undisturbed, record[n].status = "waiting"
      PROVE  pc = "waits"
  <2>1. pc # "thrown"
    BY <1>4 DEF IInv, FinalInv, LeavingThrows, Undisturbed
  <2>2. pc # "ended"
    BY <1>4 DEF EarnedInv, EndIsRecorded, Finished
  <2> QED BY <1>1, <2>1, <2>2 DEF TurnIsFree
<1>5. CASE record[n].status = "waiting" /\ CannotResume
  <2>1. pc' = "ended" /\ UNCHANGED <<halted, unhandled, stopped>>
    BY <1>5 DEF Resume, ResumeFrom, locals, CannotResume
  <2>2. ~Undisturbed'
    BY <1>4, <1>5, WaitCanResume
  <2> QED
    BY <2>1, <2>2 DEF EarnedByStep, FailuresAreTrue, SettledByAnswers, HaltedFor, FailuresCarried,
                      NotBegun, Drained, SuccessIsEarned, EndIsRecorded, Sweeping
<1>6. CASE record[n].status = "waiting" /\ ~CannotResume
  <2> DEFINE rec == [Progress EXCEPT ![n].status = "succeeded"]
  <2>1. /\ pc' = "looking" /\ result' = rec
        /\ ~halted' /\ ~unhandled' /\ ~stopped'
        /\ Write({n}, rec, "running")
    BY <1>6 DEF Resume, ResumeFrom, writes, locals, CannotResume
  <2>2. Progress \in [Nodes -> Result]
    BY ResultTypes DEF Progress, Statuses, Bare, IInv, TypeOK
  <2>3. /\ rec \in [Nodes -> Result] /\ rec[n].status = "succeeded"
        /\ \A m \in Nodes : m # n => rec[m] = Progress[m]
    BY <2>2 DEF Result, Statuses
  <2> HIDE DEF rec
  <2>4. ASSUME Undisturbed'
        PROVE  /\ pc = "waits"
               /\ \A m \in Nodes : /\ record'[m] = IF m = n THEN rec[m] ELSE record[m]
                                   /\ m # n => /\ result'[m] = record[m]
                                               /\ record[m].status = result[m].status
    <3>1. pc = "waits"
      BY <1>4, <1>6, <2>4
    <3>2. /\ {n} \in SUBSET Nodes /\ "running" \in RunStatuses /\ WriteBeside(0, {n}, rec, "running")
          /\ 0 \in Nat /\ TypeOK
      BY <2>1 DEF RunStatuses, Write, IInv
    <3>3. Touches({n}, rec) /\ (lost' = 0 => Arrives({n}, rec))
      BY <2>3, <3>2, WriteDoes
    <3>4. ~Unrelated(n) /\ lost' = 0
      BY <1>6, <2>4 DEF Unrelated, Undisturbed
    <3>5. \A m \in Nodes : record'[m] = IF m = n THEN rec[m] ELSE record[m]
      BY <3>3, <3>4 DEF Touches, Arrives
    <3>6. \A m \in Nodes : /\ record[m].status \notin {"running", "trying"}
                           /\ record[m].status = result[m].status
      BY <2>4, <3>1, WaitCanResume
    <3>7. \A m \in Nodes : m # n => result'[m] = record[m]
      BY <2>1, <2>3, <3>6 DEF Progress
    <3> QED BY <3>1, <3>5, <3>6, <3>7
  <2>5. result'[n].status = "succeeded"
    BY <2>1, <2>3
  <2>6. FailuresAreTrue'
    <3> SUFFICES ASSUME Undisturbed', NEW m \in Nodes
                 PROVE  /\ result'[m].status = "failed" => result'[m] = Failed
                        /\ record'[m].status = "failed" => record'[m] = Failed
      BY DEF FailuresAreTrue
    <3>1. CASE m = n
      BY <2>1, <2>4, <2>5, <3>1
    <3>2. CASE m # n
      BY <2>4, <3>2 DEF EarnedInv, FailuresAreTrue
    <3> QED BY <3>1, <3>2
  <2>7. ASSUME Undisturbed' PROVE Sweeping /\ ~stopped /\ ~unhandled
    BY <2>4, <2>7 DEF Sweeping, EarnedInv, Drained
  <2>8. SettledByAnswers' /\ HaltedFor'
    <3>1. ASSUME Undisturbed', NEW m \in Nodes
          PROVE  result'[m].status \notin {"skipped", "cancelled"}
      <4>1. CASE m = n
        BY <2>5, <4>1
      <4>2. CASE m # n
        BY <2>4, <2>7, <3>1, <4>2 DEF EarnedInv, SettledByAnswers
      <4> QED BY <4>1, <4>2
    <3> QED BY <2>1, <3>1 DEF SettledByAnswers, HaltedFor, Sweeping
  <2>9. FailuresCarried'
    <3> SUFFICES ASSUME Undisturbed', NEW m \in Nodes, result'[m].status = "failed"
                 PROVE  \E w \in WiresOutOf(m)' : Carried(w)'
      BY DEF FailuresCarried, Sweeping
    <3>1. m # n /\ result'[m] = record[m] /\ result[m].status = "failed" /\ record[m].status = "failed"
      BY <2>4, <2>5
    <3>2. result'[m] = result[m]
      BY <3>1 DEF EarnedInv, FailuresAreTrue
    <3>3. \E w \in WiresOutOf(m) : Carried(w)
      BY <2>4, <2>7, <3>1 DEF EarnedInv, FailuresCarried
    <3> QED BY <1>1, <3>2, <3>3, CarriedKept
  <2>10. Drained'
    BY <2>1 DEF Drained
  <2>11. NotBegun'
    <3> SUFFICES ASSUME Undisturbed', NEW m \in Nodes, result'[m].status = "none"
                 PROVE  record'[m].status = "none"
      BY DEF NotBegun, Sweeping
    <3> QED BY <2>4, <2>5
  <2>12. SuccessIsEarned' /\ EndIsRecorded'
    BY <2>1 DEF SuccessIsEarned, EndIsRecorded
  <2> QED BY <2>6, <2>8, <2>9, <2>10, <2>11, <2>12 DEF EarnedByStep
<1> QED BY <1>3, <1>5, <1>6

\* What is answered stays true: a stop is forgotten only once no task is left.
LEMMA NextAnswersAreTrue ==
    ASSUME TypeOK, OrderInv, AnswersAreTrue, [Next]_vars
    PROVE  AnswersAreTrue'
<1>1. ASSUME \A n \in Nodes : task'[n] = "answered" => task[n] = "answered",
             UNCHANGED answer, stopAsked => stopAsked'
      PROVE  AnswersAreTrue'
  BY <1>1 DEF AnswersAreTrue
<1>2. ASSUME \A n \in Nodes : task'[n] # "answered", UNCHANGED answer
      PROVE  AnswersAreTrue'
  BY <1>2 DEF AnswersAreTrue
<1>3. CASE SweepStep
  <2>1. CASE \/ SeeStop \/ Look \/ StopLooking \/ DrainEnds \/ WriteRecordAgain \/ FailUnheld
             \/ \E n \in Nodes : Take(n) \/ TakeThrown(n) \/ Place(n)
    BY <1>1, <2>1 DEF SeeStop, Look, LookAt, StopLooking, Take, TakeAs, TakeThrown, DrainEnds,
       WriteRecordAgain, WriteRecordChecking, Place, PlaceOr, FailUnheld, TypeOK, tasks, others
  <2>2. CASE Throw
    BY <1>2, <2>2 DEF Throw
  <2>3. CASE HoldEnds \/ Close
    BY <1>2, <2>3 DEF HoldEnds, Close, CloseRecording, tasks, OrderInv, NoTaskIsLeft, PastTheDrain
  <2> QED BY <1>3, <2>1, <2>2, <2>3 DEF SweepStep
<1>4. ASSUME NEW n \in Nodes, TaskStep(n)
      PROVE  AnswersAreTrue'
  <2>1. CASE Answer(n)
    <3>1. PICK r \in Answers(n) : answer' = [answer EXCEPT ![n] = r]
      BY <2>1 DEF Answer
    <3>2. /\ r.status \notin {"notTaken", "skipped"}
          /\ r.status = "cancelled" => stopAsked
          /\ r.status = "failed" => r = Failed
      <4>1. \A s \in Succeeded(n) : s.status = "succeeded"
        BY DEF Succeeded
      <4>2. \A s \in AnswersOfItems(n) : /\ s.status \notin {"notTaken", "skipped"}
                                         /\ s.status = "cancelled" => stopAsked
                                         /\ s.status = "failed" => s = Failed
        BY DEF AnswersOfItems, Failed
      <4>3. \A s \in {[q EXCEPT !.status = "waiting"] : q \in Succeeded(n)} : s.status = "waiting"
        BY DEF Succeeded
      <4> QED BY <4>1, <4>2, <4>3 DEF Answers, Bare, Failed
    <3>3. /\ answer'[n] = r /\ \A m \in Nodes : m # n => answer'[m] = answer[m] /\ task'[m] = task[m]
          /\ stopAsked' = stopAsked
      BY <2>1, <3>1 DEF Answer, TypeOK, others
    <3> QED BY <3>2, <3>3 DEF AnswersAreTrue
  <2>2. CASE StartAttempt(n)
    BY <2>2 DEF StartAttempt, AnswersAreTrue, TypeOK, Bare, others
  <2>3. CASE EnterGate(n) \/ LoseTheGate(n) \/ PauseAttempts(n)
    BY <1>1, <2>3 DEF EnterGate, LoseTheGate, PauseAttempts, TypeOK, others
  <2> QED BY <1>4, <2>1, <2>2, <2>3 DEF TaskStep
<1>5. CASE EndStopped
  BY <1>2, <1>5 DEF EndStopped, EndStoppedUnless, tasks, OrderInv, NoTaskIsLeft, PastTheDrain, TurnIsFree
<1>6. ASSUME NEW n \in Nodes, VigilIsAnswered(n) \/ Resume(n)
      PROVE  AnswersAreTrue'
  BY <1>1, <1>6 DEF VigilIsAnswered, Resume, ResumeFrom, tasks, others
<1>7. CASE CallerLeaves \/ AskStop \/ UNCHANGED vars
  BY <1>1, <1>7 DEF CallerLeaves, AskStop, vars, tasks, others
<1> QED BY <1>3, <1>4, <1>5, <1>6, <1>7 DEF Next

LEMMA NextEarnedInv ==
    ASSUME IInv, CallsInv, EarnedInv, [Next]_vars
    PROVE  EarnedInv'
<1>1. AnswersAreTrue'
  BY NextAnswersAreTrue DEF IInv, EarnedInv
<1>2. (Undisturbed' => Undisturbed) /\ AnswersSettle /\ ResultsSettle
  BY DisturbedStays DEF IInv, CallsInv
<1>3. CASE SweepStep
  <2>1. ASSUME \/ SeeStop \/ StopLooking \/ Throw \/ DrainEnds
             \/ \E n \in Nodes : TakeThrown(n)
        PROVE  EarnedByStep'
    BY <2>1, EarnedOfQuiet
  <2>2. ASSUME Look
        PROVE  EarnedByStep'
    BY <1>2, <2>2, EarnedOfLook
  <2>3. ASSUME \E n \in Nodes : Take(n) \/ Place(n)
        PROVE  EarnedByStep'
    BY <1>2, <2>3, EarnedOfTake, EarnedOfPlace
  <2>4. ASSUME WriteRecordAgain \/ HoldEnds \/ FailUnheld
        PROVE  EarnedByStep'
    BY <1>2, <2>4, EarnedOfWriteRecord, EarnedOfHoldEnds, EarnedOfFailUnheld
  <2>5. ASSUME Close
        PROVE  EarnedByStep'
    BY <1>2, <2>5, EarnedOfClose
  <2>6. EarnedByStep'
    BY <1>3, <2>1, <2>2, <2>3, <2>4, <2>5 DEF SweepStep
  <2> QED BY <1>1, <2>6 DEF EarnedInv, EarnedByStep
<1>4. ASSUME NEW n \in Nodes, TaskStep(n) \/ VigilIsAnswered(n) \/ Resume(n)
      PROVE  EarnedInv'
  <2>1. EarnedByStep'
    BY <1>2, <1>4, EarnedOfTask, EarnedOfOthers, EarnedOfResume
  <2> QED BY <1>1, <2>1 DEF EarnedInv, EarnedByStep
<1>5. CASE CallerLeaves \/ AskStop \/ UNCHANGED vars \/ EndStopped
  <2>1. EarnedByStep'
    BY <1>2, <1>5, EarnedOfOthers, EarnedOfEndStopped
  <2> QED BY <1>1, <2>1 DEF EarnedInv, EarnedByStep
<1> QED BY <1>3, <1>4, <1>5 DEF Next

LEMMA InductiveToTheEnd == /\ Init => IInv /\ CallsInv /\ EarnedInv
                           /\ IInv /\ CallsInv /\ EarnedInv /\ [Next]_vars =>
                                  (IInv /\ CallsInv /\ EarnedInv)'
<1>1. Init => IInv /\ CallsInv /\ EarnedInv
  BY Inductive, InitCallsInv, InitEarnedInv
<1>2. IInv /\ CallsInv /\ EarnedInv /\ [Next]_vars => (IInv /\ CallsInv /\ EarnedInv)'
  BY Inductive, CallsInvIsKept, NextEarnedInv
<1> QED BY <1>1, <1>2

\* Where nothing disturbed it, a run is recorded succeeded, or rehearsed, only with every node
\* of its drawing settled by what it did or not taken, and every failure in it carried on.
THEOREM SuccessesAreEarned == Spec => []SuccessIsEarned
<1>1. EarnedInv => SuccessIsEarned
  BY DEF EarnedInv
<1> QED BY <1>1, InductiveToTheEnd, PTL DEF Spec

\* Where nothing disturbed it, a run that ended, however it ended and however often it waited
\* before, is recorded finished with every node of its drawing.
THEOREM EndsAreRecorded == Spec => []EndIsRecorded
<1>1. EarnedInv => EndIsRecorded
  BY DEF EarnedInv
<1> QED BY <1>1, InductiveToTheEnd, PTL DEF Spec
=============================================================================
