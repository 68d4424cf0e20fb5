------------------------- MODULE RunLifecycle_proof -------------------------
(***************************************************************************)
(* Proofs about RunLifecycle for any finite set of nodes, any drawings     *)
(* without a cycle, and any number of attempts, crashes, lost writes and   *)
(* asks: that a run that succeeded or was stopped stays so, that a run     *)
(* started again as another is over, that no node stays recorded in the    *)
(* middle of a call, that a wait is held by a vigil not answered yet, and  *)
(* that a service is called no more often than it may be.  Last, about     *)
(* RunTurns: the turn of a run, which a step that reads and writes the     *)
(* record takes here whole, is held by one task alone.                     *)
(***************************************************************************)
EXTENDS RunLifecycle, RunTurns, FiniteSetTheorems, TLAPS

\* Nothing was lost, and no task went by what another had changed.
Clean == lost = 0 /\ ~overtaken

Ended == runStatus \in {"succeeded", "cancelled"}

AtRest == pc \in {"free", "recovering"}

\* Where no sweep has the turn, no node is called.
RestIsIdle == AtRest => \A n \in Nodes : sweep.task[n] = "none"

\* A sweep is left to a task of its own for a run that goes on.
TasksGoOn == \A t \in tasks : t.kind = "sweep" => ~Finished(t.status)

\* A run that has ended has no node left from which an answer could take it up.
EndedAtRest == Clean /\ Ended => pc = "free" /\ \A n \in Nodes : record[n] # "waiting"

\* A sweep knows of every wait on the record, or has failed it.
WaitsAreKnown ==
    Clean => \A n \in Nodes :
        /\ pc = "sweeping" /\ record[n] = "waiting" => sweep.result[n] = "waiting"
        /\ pc \in {"holding", "failing"} /\ record[n] = "waiting" => sweep.result[n] \in {"waiting", "failed"}

\* A run started again that keeps a caught node is failed, and nobody sweeps it.
RepeatedAtRest == Clean /\ repeated /\ KeepsACaught => runStatus = "failed" /\ AtRest

IInv == TypeOK /\ RestIsIdle /\ TasksGoOn /\ EndedAtRest /\ WaitsAreKnown /\ RepeatedAtRest
-----------------------------------------------------------------------------
\* What a write does: it keeps the types, touches the record only where it writes, and where
\* nothing is lost does all it is asked, save to a node run that its run does not have.
LEMMA WriteDoes ==
    ASSUME TypeOK, NEW ns \in SUBSET Nodes, NEW written \in [ns -> Statuses],
           NEW status \in RunStatuses, Write(written, status)
    PROVE  /\ record' \in [Nodes -> Statuses]
           /\ runStatus' \in {runStatus, status} /\ runStatus' \in RunStatuses
           /\ lost' \in 0 .. MaxLost /\ lost <= lost'
           /\ created' \in SUBSET Nodes
           /\ \A n \in Nodes : record'[n] = record[n] \/ (n \in ns /\ record'[n] = written[n])
           /\ lost' = 0 => /\ runStatus' = status
                           /\ \A n \in ns : record'[n] = written[n] \/ record'[n] = "none"
<1>1. PICK failing \in SUBSET ns, refused \in {FALSE, status # runStatus} :
         /\ lost' = lost + Cardinality(failing) + (IF refused THEN 1 ELSE 0)
         /\ lost' <= MaxLost
         /\ record' = [n \in Nodes |-> IF n \in ns \ failing /\ ~Unrelated(n) THEN written[n]
                                       ELSE record[n]]
         /\ created' = created \union ns
         /\ runStatus' = IF refused THEN runStatus ELSE status
  <2>1. DOMAIN written = ns
    OBVIOUS
  <2> QED BY <2>1 DEF Write
<1>2. IsFiniteSet(failing)
  BY LifecycleAssumption, FS_Subset
<1>3. Cardinality(failing) \in Nat /\ (Cardinality(failing) = 0 => failing = {})
  BY <1>2, FS_CardinalityType, FS_EmptySet
<1>4. lost \in Nat /\ MaxLost \in Nat
  BY LifecycleAssumption DEF TypeOK
<1>5. /\ lost' \in 0 .. MaxLost /\ lost <= lost'
      /\ lost' = 0 => failing = {} /\ ~refused
  <2> DEFINE r == IF refused THEN 1 ELSE 0
  <2>1. r \in Nat /\ (refused => r = 1)
    OBVIOUS
  <2>2. lost' = lost + Cardinality(failing) + r
    BY <1>1
  <2> HIDE DEF r
  <2>3. /\ lost' \in 0 .. MaxLost /\ lost <= lost'
        /\ lost' = 0 => Cardinality(failing) = 0 /\ r = 0
    BY <2>1, <2>2, <1>1, <1>3, <1>4
  <2> QED BY <2>1, <2>3, <1>3
<1>6. record' \in [Nodes -> Statuses]
  BY <1>1 DEF TypeOK
<1>7. \A n \in Nodes : record'[n] = IF n \in ns \ failing /\ ~Unrelated(n) THEN written[n]
                                    ELSE record[n]
  BY <1>1
<1>8. \A n \in Nodes : record'[n] = record[n] \/ (n \in ns /\ record'[n] = written[n])
  BY <1>7
<1>9. failing = {} => \A n \in ns : record'[n] = written[n] \/ record'[n] = "none"
  BY <1>7 DEF Unrelated
<1>10. /\ runStatus' \in {runStatus, status} /\ runStatus' \in RunStatuses
       /\ ~refused => runStatus' = status
  BY <1>1 DEF TypeOK
<1>11. created' \in SUBSET Nodes
  BY <1>1 DEF TypeOK
<1> QED BY <1>5, <1>6, <1>8, <1>9, <1>10, <1>11

\* What is written of a set of nodes is a function on it.
LEMMA OfTypes == \A ns \in SUBSET Nodes, v \in Statuses : /\ Of(ns, v) \in [ns -> Statuses]
                                                          /\ \A n \in ns : Of(ns, v)[n] = v
BY DEF Of

LEMMA NoSweepTypes == NoSweep \in Sweeps /\ \A n \in Nodes : NoSweep.task[n] = "none"
BY DEF NoSweep, SweepFrom, Sweeps, Of, Results

\* A sweep that begins calls nothing yet.
LEMMA SweepFromTypes ==
    ASSUME NEW result \in [Nodes -> Results], NEW holding \in SUBSET Nodes
    PROVE  /\ SweepFrom(result, holding) \in Sweeps
           /\ SweepFrom(result, holding).result = result
BY DEF SweepFrom, Sweeps, Of, Results

\* What a record settles is a result, and what waits on it waits.
LEMMA ProgressTypes ==
    ASSUME NEW rec \in [Nodes -> Statuses]
    PROVE  /\ ProgressFrom(rec) \in [Nodes -> Results]
           /\ \A n \in Nodes : rec[n] = "waiting" => ProgressFrom(rec)[n] = "waiting"
BY DEF ProgressFrom, Statuses, Results, Answered

LEMMA SweepParts ==
    ASSUME TypeOK
    PROVE  /\ sweep.result \in [Nodes -> Results] /\ sweep.holding \in SUBSET Nodes
           /\ sweep.halted \in BOOLEAN /\ sweep.stopped \in BOOLEAN
           /\ sweep.task \in [Nodes -> Answered \union {"none", "queued", "between", "calling"}]
BY DEF TypeOK, Sweeps
-----------------------------------------------------------------------------
LEMMA InitTypeOK == Init => TypeOK
<1> SUFFICES ASSUME Init PROVE TypeOK
  OBVIOUS
<1>1. 0 \in 0 .. MaxLost /\ 0 \in 0 .. MaxCrashes /\ 0 \in 0 .. MaxAsks /\ 0 \in 0 .. 0
  BY LifecycleAssumption
<1>2. record \in [Nodes -> Statuses] /\ attempts \in [Nodes -> Nat] /\ calls \in [Nodes -> Nat]
  BY DEF Init, Of, Statuses, Results
<1>3. vigil \in [Nodes -> {"none", "placed", "held", "gone"}]
  BY DEF Init, Of
<1>4. answering \in [Nodes -> {"no", "told", "unheld", "lookingAgain", "done"}]
  BY DEF Init, Of
<1> QED BY <1>1, <1>2, <1>3, <1>4, NoSweepTypes DEF Init, TypeOK, RunStatuses

\* The sweep's own steps keep the types.
LEMMA SweepStepType ==
    ASSUME TypeOK, SweepStep
    PROVE  TypeOK'
<1> USE SweepParts
<1>1. CASE SeeStop
  BY <1>1 DEF SeeStop, TypeOK, Sweeps, writes, vigils, answers, starts, asked, history
<1>2. CASE Look
  <2>1. NotTaken \in SUBSET Nodes /\ Of(NotTaken, "notTaken") \in [NotTaken -> Statuses]
    BY OfTypes DEF NotTaken, Ready, Pending, Statuses, Results
  <2>2. /\ record' \in [Nodes -> Statuses] /\ runStatus' \in RunStatuses
        /\ lost' \in 0 .. MaxLost /\ created' \in SUBSET Nodes
    BY <1>2, <2>1, WriteDoes DEF Look, TypeOK
  <2>3. sweep' \in Sweeps
    BY <1>2 DEF Look, TypeOK, Sweeps, Results
  <2> QED BY <1>2, <2>2, <2>3 DEF Look, TypeOK, vigils, answers, starts, asked, history
<1>3. ASSUME NEW n \in Nodes, Take(n) PROVE TypeOK'
  <2>1. Of({n}, sweep.task[n]) \in [{n} -> Statuses]
    BY <1>3, OfTypes DEF Take, Statuses, Results
  <2>2. /\ record' \in [Nodes -> Statuses] /\ runStatus' \in RunStatuses
        /\ lost' \in 0 .. MaxLost /\ created' \in SUBSET Nodes
    BY <1>3, <2>1, WriteDoes DEF Take, TypeOK
  <2>3. sweep' \in Sweeps
    BY <1>3 DEF Take, TypeOK, Sweeps, Results
  <2> QED BY <1>3, <2>2, <2>3 DEF Take, TypeOK, vigils, answers, starts, asked, history
<1>4. CASE WriteRecordAgain
  <2>1. /\ Unrecorded(record) \in SUBSET Nodes
        /\ [n \in Unrecorded(record) |-> sweep.result[n]] \in [Unrecorded(record) -> Statuses]
    BY DEF Unrecorded, Statuses
  <2>2. /\ record' \in [Nodes -> Statuses] /\ runStatus' \in RunStatuses
        /\ lost' \in 0 .. MaxLost /\ created' \in SUBSET Nodes
    BY <1>4, <2>1, WriteDoes DEF WriteRecordAgain, TypeOK
  <2>3. sweep' \in Sweeps /\ pc' \in {"holding", "failing"}
    BY <1>4 DEF WriteRecordAgain, TypeOK, Sweeps, Results, Answered
  <2> QED BY <1>4, <2>2, <2>3 DEF WriteRecordAgain, TypeOK, vigils, answers, starts, asked, history
<1>5. ASSUME NEW n \in Nodes, Place(n) PROVE TypeOK'
  <2>1. /\ vigil' \in [Nodes -> {"none", "placed", "held", "gone"}]
        /\ answering' \in [Nodes -> {"no", "told", "unheld", "lookingAgain", "done"}]
        /\ awaited' \in SUBSET Nodes /\ early' \in SUBSET Nodes /\ placing' \in SUBSET Nodes
    BY <1>5 DEF Place, PlaceVigil, Refused, TypeOK, answers
  <2>2. [sweep EXCEPT !.result[n] = "failed", !.halted = TRUE] \in Sweeps
    BY DEF TypeOK, Sweeps, Results, Answered
  <2>3. sweep' \in Sweeps
    BY <1>5, <2>2 DEF Place, TypeOK
  <2> QED BY <1>5, <2>1, <2>3 DEF Place, TypeOK, writes, starts, asked, history
<1>6. ASSUME NEW n \in Nodes, Hold(n) PROVE TypeOK'
  <2>1. /\ vigil' \in [Nodes -> {"none", "placed", "held", "gone"}]
        /\ early' \in SUBSET Nodes /\ placing' = {}
        /\ tasks' \in {tasks, tasks \union {ResumeTask(n)}}
    BY <1>6 DEF Hold, RelateVigil, TypeOK
  <2>2. sweep' \in Sweeps
    BY <1>6 DEF Hold, TypeOK, Sweeps
  <2> QED BY <1>6, <2>1, <2>2 DEF Hold, ResumeTask, TypeOK, writes, starts, asked, history
<1>7. CASE HoldEnds
  <2>1. Of({}, "none") \in [{} -> Statuses] /\ "waiting" \in RunStatuses
    BY OfTypes DEF Statuses, Results, RunStatuses
  <2>2. /\ record' \in [Nodes -> Statuses] /\ runStatus' \in RunStatuses
        /\ lost' \in 0 .. MaxLost /\ created' \in SUBSET Nodes
    BY <1>7, <2>1, WriteDoes DEF HoldEnds, TypeOK, writes
  <2>3. sweep' \in Sweeps /\ pc' \in {"failing", "free"} /\ stopAsked' \in BOOLEAN
    BY <1>7, NoSweepTypes DEF HoldEnds, TypeOK
  <2> QED BY <1>7, <2>2, <2>3 DEF HoldEnds, TypeOK, vigils, answers, starts, history
<1>8. CASE FailUnheld
  <2> DEFINE ns == {n \in Nodes : sweep.result[n] = "failed" /\ record[n] # "failed"}
  <2>1. ns \in SUBSET Nodes /\ Of(ns, "failed") \in [ns -> Statuses]
    BY OfTypes DEF Statuses, Results, Answered
  <2>2. /\ record' \in [Nodes -> Statuses] /\ runStatus' \in RunStatuses
        /\ lost' \in 0 .. MaxLost /\ created' \in SUBSET Nodes
    BY <1>8, <2>1, WriteDoes DEF FailUnheld, TypeOK
  <2> QED BY <1>8, <2>2 DEF FailUnheld, TypeOK, vigils, answers, starts, asked, history
<1>9. CASE Close
  <2> DEFINE ns == {n \in Nodes : ~Settled(n)}
             v == IF sweep.stopped THEN "cancelled" ELSE "skipped"
             status == IF sweep.stopped THEN "cancelled" ELSE IF sweep.halted THEN "failed" ELSE "succeeded"
  <2>1. /\ ns \in SUBSET Nodes /\ v \in Statuses /\ status \in RunStatuses
        /\ Of(ns, v) \in [ns -> Statuses]
    <3>1. v \in Statuses
      BY DEF Statuses, Results, Answered
    <3>2. ns \in SUBSET Nodes /\ status \in RunStatuses
      BY DEF RunStatuses
    <3> QED BY <3>1, <3>2, OfTypes
  <2>2. /\ record' \in [Nodes -> Statuses] /\ runStatus' \in RunStatuses
        /\ lost' \in 0 .. MaxLost /\ created' \in SUBSET Nodes
    BY <1>9, <2>1, WriteDoes DEF Close
  <2>3. sweep' \in Sweeps /\ pc' = "free" /\ stopAsked' = FALSE
    BY <1>9, NoSweepTypes DEF Close
  <2> QED BY <1>9, <2>2, <2>3 DEF Close, TypeOK, vigils, answers, starts, history
<1> QED BY <1>1, <1>2, <1>3, <1>4, <1>5, <1>6, <1>7, <1>8, <1>9 DEF SweepStep

\* So do those of a node's task.
LEMMA NodeStepType ==
    ASSUME TypeOK, NEW n \in Nodes, NodeStep(n)
    PROVE  TypeOK'
<1> USE SweepParts
<1>1. CASE Begin(n)
  <2>1. Of({n}, "running") \in [{n} -> Statuses]
    BY OfTypes DEF Statuses
  <2>2. /\ record' \in [Nodes -> Statuses] /\ runStatus' \in RunStatuses
        /\ lost' \in 0 .. MaxLost /\ created' \in SUBSET Nodes
    BY <1>1, <2>1, WriteDoes DEF Begin, TypeOK
  <2>3. sweep' \in Sweeps
    BY <1>1 DEF Begin, TypeOK, Sweeps, Answered
  <2>4. calls' \in [Nodes -> Nat]
    BY <1>1 DEF Begin, TypeOK
  <2> QED BY <1>1, <2>2, <2>3, <2>4 DEF Begin, TypeOK, vigils, answers, starts, asked
<1>2. CASE StartAttempt(n)
  <2>1. sweep' \in Sweeps
    BY <1>2 DEF StartAttempt, TypeOK, Sweeps, Answered
  <2>2. calls' \in [Nodes -> Nat]
    BY <1>2 DEF StartAttempt, TypeOK
  <2> QED BY <1>2, <2>1, <2>2 DEF StartAttempt, TypeOK, writes, vigils, answers, starts, asked
<1>3. ASSUME AttemptMade(n) PROVE attempts' \in [Nodes -> Nat]
  BY <1>3 DEF AttemptMade, TypeOK
<1>4. CASE Answers(n)
  <2>1. sweep' \in Sweeps
    BY <1>4 DEF Answers, TypeOK, Sweeps, Answered
  <2> QED BY <1>3, <1>4, <2>1 DEF Answers, TypeOK, writes, vigils, answers, starts, asked, history
<1>5. CASE Unreached(n)
  <2>1. sweep' \in Sweeps
    BY <1>5 DEF Unreached, TypeOK, Sweeps, Answered
  <2>2. Of({n}, "trying") \in [{n} -> Statuses]
    BY OfTypes DEF Statuses
  <2>3. /\ record' \in [Nodes -> Statuses] /\ runStatus' \in RunStatuses
        /\ lost' \in 0 .. MaxLost /\ created' \in SUBSET Nodes
    BY <1>5, <2>2, WriteDoes DEF Unreached, TypeOK, writes
  <2> QED BY <1>3, <1>5, <2>1, <2>3 DEF Unreached, TypeOK, vigils, answers, starts, asked, history
<1> QED BY <1>1, <1>2, <1>4, <1>5 DEF NodeStep

\* So do those that take an answer to a vigil, and those that take the turn.
LEMMA AnswerStepType ==
    ASSUME TypeOK, NEW n \in Nodes, AnswerStep(n)
    PROVE  TypeOK'
<1>1. /\ answering' \in [Nodes -> {"no", "told", "unheld", "lookingAgain", "done"}]
      /\ tasks' \in {tasks, tasks \union {ResumeTask(n)}}
      /\ early' \in SUBSET Nodes
  BY DEF AnswerStep, LookUp, KeepEarly, LookUpAgain, LookUpAgainIf, TypeOK
<1>2. UNCHANGED <<dag, writes, attempts, vigils, pc, sweep, starts, asked, history>>
  BY DEF AnswerStep, LookUp, KeepEarly, LookUpAgain, LookUpAgainIf
<1> QED BY <1>1, <1>2 DEF ResumeTask, TypeOK, writes, vigils, starts, asked, history

LEMMA TakeUpType ==
    ASSUME TypeOK, NEW t \in tasks, TakeUp(t)
    PROVE  TypeOK'
<1> USE SweepParts
<1>1. ASSUME NEW n \in Nodes, Resume(n) PROVE TypeOK'
  <2>1. /\ Of({}, "none") \in [{} -> Statuses] /\ Of({n}, "succeeded") \in [{n} -> Statuses]
        /\ {"failed", "running"} \subseteq RunStatuses
    BY OfTypes DEF Statuses, Results, Answered, RunStatuses
  <2>2. /\ record' \in [Nodes -> Statuses] /\ runStatus' \in RunStatuses
        /\ lost' \in 0 .. MaxLost /\ created' \in SUBSET Nodes
    <3>1. \/ UNCHANGED <<record, runStatus, lost, created>>
          \/ Write(Of({}, "none"), "failed") \/ Write(Of({n}, "succeeded"), "running")
      BY <1>1 DEF Resume, writes
    <3>2. CASE UNCHANGED <<record, runStatus, lost, created>>
      BY <3>2 DEF TypeOK
    <3>3. CASE Write(Of({}, "none"), "failed")
      <4> {} \in SUBSET Nodes
        OBVIOUS
      <4> QED BY <2>1, <3>3, WriteDoes
    <3>4. CASE Write(Of({n}, "succeeded"), "running")
      <4> {n} \in SUBSET Nodes
        OBVIOUS
      <4> QED BY <2>1, <3>4, WriteDoes
    <3> QED BY <3>1, <3>2, <3>3, <3>4
  <2>3. SweepFrom([ProgressFrom(record) EXCEPT ![n] = "succeeded"],
                  {m \in Nodes \ {n} : record[m] = "waiting"}) \in Sweeps
    <3>1. [ProgressFrom(record) EXCEPT ![n] = "succeeded"] \in [Nodes -> Results]
      BY ProgressTypes DEF TypeOK, Results, Answered
    <3> QED BY <3>1, SweepFromTypes
  <2>4. /\ vigil' \in [Nodes -> {"none", "placed", "held", "gone"}]
        /\ awaited' \in SUBSET Nodes /\ placing' \in SUBSET Nodes
    BY <1>1 DEF Resume, TypeOK, vigils
  <2>5. sweep' \in Sweeps /\ pc' \in {pc, "sweeping"} /\ tasks' \subseteq tasks
    BY <1>1, <2>3 DEF Resume, TypeOK
  <2> QED BY <1>1, <2>2, <2>4, <2>5 DEF Resume, TypeOK, answers, starts, asked, history
<1>2. CASE CarryOnInTheBackground(t)
  <2>1. t.rec \in [Nodes -> Statuses]
    BY <1>2 DEF CarryOnInTheBackground, StopTask, TypeOK
  <2>2. sweep' \in Sweeps
    BY <1>2, <2>1, ProgressTypes, SweepFromTypes DEF CarryOnInTheBackground
  <2>3. overtaken' \in BOOLEAN /\ tasks' \subseteq tasks
    BY <1>2 DEF CarryOnInTheBackground, TypeOK
  <2> QED BY <1>2, <2>2, <2>3 DEF CarryOnInTheBackground, TypeOK, writes, vigils, answers, starts, asked
<1>3. CASE EndStopped
  <2> DEFINE ns == {n \in Nodes : ~Finished(record[n])}
  <2>1. /\ ns \in SUBSET Nodes /\ Of(ns, "cancelled") \in [ns -> Statuses]
        /\ "cancelled" \in RunStatuses
    BY OfTypes DEF Statuses, Results, Answered, RunStatuses
  <2>2. /\ record' \in [Nodes -> Statuses] /\ runStatus' \in RunStatuses
        /\ lost' \in 0 .. MaxLost /\ created' \in SUBSET Nodes
    BY <1>3, <2>1, WriteDoes DEF EndStopped, TypeOK, writes
  <2>3. /\ vigil' \in [Nodes -> {"none", "placed", "held", "gone"}]
        /\ awaited' \in SUBSET Nodes /\ placing' \in SUBSET Nodes
    BY <1>3 DEF EndStopped, TypeOK, vigils
  <2>4. stopAsked' = FALSE /\ tasks' \subseteq tasks
    BY <1>3 DEF EndStopped
  <2> QED BY <1>3, <2>2, <2>3, <2>4 DEF EndStopped, TypeOK, answers, starts, history
<1> QED BY <1>1, <1>2, <1>3 DEF TakeUp

\* So does the recovery of a process that starts.
LEMMA RecoveryStepType ==
    ASSUME TypeOK, RecoveryStep
    PROVE  TypeOK'
<1>1. CASE ListWaits
  <2>1. \A n \in Nodes : [node |-> n, awaited |-> n \in awaited, held |-> vigil[n] = "held"] \in Listed
    BY DEF Listed
  <2> DEFINE waits == {[node |-> n, awaited |-> n \in awaited, held |-> vigil[n] = "held"] :
                         n \in {m \in Nodes : record[m] = "waiting"}}
  <2>2. waits \in SUBSET Listed
    BY <2>1
  <2> HIDE DEF waits
  <2>3. todo' = {} \/ todo' = waits
    BY <1>1 DEF ListWaits, waits
  <2>4. todo' \in SUBSET Listed
    BY <2>2, <2>3
  <2> QED BY <1>1, <2>4 DEF ListWaits, TypeOK, writes, vigils, answers, asked, history
<1>2. ASSUME NEW w \in todo, SkipWait(w) PROVE TypeOK'
  BY <1>2 DEF SkipWait, TypeOK, writes, vigils, answers, asked, history
<1>3. ASSUME NEW n \in Nodes, Write(Of({n}, "failed"), "failed")
      PROVE  /\ record' \in [Nodes -> Statuses] /\ runStatus' \in RunStatuses
             /\ lost' \in 0 .. MaxLost /\ created' \in SUBSET Nodes
  <2>1. Of({n}, "failed") \in [{n} -> Statuses] /\ "failed" \in RunStatuses
    BY OfTypes DEF Statuses, Results, Answered, RunStatuses
  <2> QED BY <1>3, <2>1, WriteDoes
<1>4. ASSUME NEW w \in todo, RecoverWait(w) PROVE TypeOK'
  <2>1. w.node \in Nodes
    BY DEF TypeOK, Listed
  <2>2. /\ record' \in [Nodes -> Statuses] /\ runStatus' \in RunStatuses
        /\ lost' \in 0 .. MaxLost /\ created' \in SUBSET Nodes
    BY <1>3, <1>4, <2>1 DEF RecoverWait, TypeOK, writes
  <2>3. /\ vigil' \in [Nodes -> {"none", "placed", "held", "gone"}]
        /\ answering' \in [Nodes -> {"no", "told", "unheld", "lookingAgain", "done"}]
        /\ awaited' \in SUBSET Nodes /\ early' \in SUBSET Nodes /\ placing' \in SUBSET Nodes
    BY <1>4, <2>1 DEF RecoverWait, PlaceVigil, Refused, TypeOK, answers
  <2>4. /\ pc' \in {pc, "recovering"} /\ todo' \in SUBSET Listed /\ overtaken' \in BOOLEAN
    BY <1>4 DEF RecoverWait, TypeOK
  <2> QED BY <1>4, <2>2, <2>3, <2>4 DEF RecoverWait, TypeOK, asked
<1>5. ASSUME NEW n \in Nodes, RecoverWaitEnds(n) PROVE TypeOK'
  <2>1. /\ record' \in [Nodes -> Statuses] /\ runStatus' \in RunStatuses
        /\ lost' \in 0 .. MaxLost /\ created' \in SUBSET Nodes
    BY <1>3, <1>5 DEF RecoverWaitEnds, TypeOK, writes
  <2>2. /\ vigil' \in [Nodes -> {"none", "placed", "held", "gone"}]
        /\ awaited' \in SUBSET Nodes /\ early' \in SUBSET Nodes /\ placing' \in SUBSET Nodes
        /\ tasks' \in {tasks, tasks \union {ResumeTask(n)}}
    BY <1>5 DEF RecoverWaitEnds, RelateVigil, Refused, TypeOK
  <2> QED BY <1>5, <2>1, <2>2 DEF RecoverWaitEnds, ResumeTask, TypeOK, starts, asked, history
<1>6. CASE ListUnfinished
  <2>1. \A n \in Nodes : {[node |-> n, awaited |-> FALSE, held |-> FALSE]} \in SUBSET Listed
    BY DEF Listed
  <2>2. recovery' \in {"done", "unfinished"}
    BY <1>6 DEF ListUnfinished, ListUnfinishedIn
  <2>3. todo' = todo \/ \E n \in Nodes : todo' = {[node |-> n, awaited |-> FALSE, held |-> FALSE]}
    BY <1>6 DEF ListUnfinished, ListUnfinishedIn
  <2>4. todo' \in SUBSET Listed
    BY <2>1, <2>3 DEF TypeOK
  <2> QED BY <1>6, <2>2, <2>4 DEF ListUnfinished, ListUnfinishedIn, TypeOK, writes, vigils, answers, asked, history
<1>7. CASE RecoverUnfinished
  <2>1. ASSUME NEW w \in todo
        PROVE  /\ w.node \in Nodes /\ Of({w.node}, "interrupted") \in [{w.node} -> Statuses]
               /\ "failed" \in RunStatuses
    <3>1. w.node \in Nodes
      BY DEF TypeOK, Listed
    <3>2. {w.node} \in SUBSET Nodes /\ "interrupted" \in Statuses /\ "failed" \in RunStatuses
      BY <3>1 DEF Statuses, RunStatuses
    <3> QED BY <3>1, <3>2, OfTypes
  <2>2. /\ record' \in [Nodes -> Statuses] /\ runStatus' \in RunStatuses
        /\ lost' \in 0 .. MaxLost /\ created' \in SUBSET Nodes
    BY <1>7, <2>1, WriteDoes DEF RecoverUnfinished, RecoverUnfinishedUnless, TypeOK, writes
  <2>3. /\ recovery' = "done" /\ todo' = {}
        /\ tasks' \in {tasks, tasks \union {SweepTask(record, runStatus)}}
    BY <1>7 DEF RecoverUnfinished, RecoverUnfinishedUnless
  <2>4. \A t \in tasks' : \/ t = StopTask
                          \/ t.kind = "resume" /\ t.node \in Nodes
                          \/ t.kind = "sweep" /\ t.rec \in [Nodes -> Statuses] /\ t.status \in RunStatuses
    BY <2>3 DEF SweepTask, TypeOK
  <2> QED BY <1>7, <2>2, <2>3, <2>4
          DEF RecoverUnfinished, RecoverUnfinishedUnless, TypeOK, vigils, answers, asked, history
<1> QED BY <1>1, <1>2, <1>4, <1>5, <1>6, <1>7 DEF RecoveryStep

\* And what people, the platform and a crash do.
LEMMA OthersType ==
    ASSUME TypeOK, Others
    PROVE  TypeOK'
<1> USE LifecycleAssumption
<1>1. CASE AskStop
  BY <1>1 DEF AskStop, TypeOK, writes, vigils, answers, starts, history
<1>2. CASE CarryOn
  <2>1. /\ runStatus' \in RunStatuses /\ asks' \in 0 .. MaxAsks /\ granted' \in 0 .. asks'
    BY <1>2 DEF CarryOn, CarryOnUnless, TypeOK, RunStatuses
  <2>2. \A t \in tasks' : \/ t = StopTask
                          \/ t.kind = "resume" /\ t.node \in Nodes
                          \/ t.kind = "sweep" /\ t.rec \in [Nodes -> Statuses] /\ t.status \in RunStatuses
    BY <1>2 DEF CarryOn, CarryOnUnless, SweepTask, TypeOK, RunStatuses
  <2> QED BY <1>2, <2>1, <2>2 DEF CarryOn, CarryOnUnless, TypeOK, vigils, answers, starts, history
<1>3. CASE StartAgain
  BY <1>3 DEF StartAgain, TypeOK, writes, vigils, answers, starts, history
<1>4. CASE Crash
  <2>1. /\ vigil' \in [Nodes -> {"none", "placed", "held", "gone"}]
        /\ answering' \in [Nodes -> {"no", "told", "unheld", "lookingAgain", "done"}]
    BY <1>4 DEF Crash, TypeOK
  <2>2. sweep' \in Sweeps /\ crashes' \in 0 .. MaxCrashes
    BY <1>4, NoSweepTypes DEF Crash, TypeOK
  <2> QED BY <1>4, <2>1, <2>2 DEF Crash, TypeOK
<1>5. ASSUME NEW n \in Nodes, VigilIsAnswered(n) PROVE TypeOK'
  BY <1>5 DEF VigilIsAnswered, TypeOK, writes, vigils, starts, asked, history
<1> QED BY <1>1, <1>2, <1>3, <1>4, <1>5 DEF Others

LEMMA NextType == TypeOK /\ [Next]_vars => TypeOK'
<1> SUFFICES ASSUME TypeOK, [Next]_vars PROVE TypeOK'
  OBVIOUS
<1>1. CASE UNCHANGED vars
  BY <1>1 DEF vars, TypeOK, writes, vigils, answers, starts, asked, history
<1>2. CASE Process
  BY <1>2, SweepStepType, NodeStepType, AnswerStepType, TakeUpType, RecoveryStepType DEF Process
<1> QED BY <1>1, <1>2, OthersType DEF Next

\* The state of a run, its orchestrator, the broker and the platform keep their types over any
\* crashes, lost writes and asks.
THEOREM TypeCorrect == Spec => []TypeOK
BY InitTypeOK, NextType, PTL DEF Spec
-----------------------------------------------------------------------------
\* What a step may not do where nothing is lost and nobody is overtaken.
EndStep    == Ended /\ ~overtaken' /\ lost = 0 => runStatus' = runStatus
RepeatStep == lost = 0 /\ repeated /\ ~overtaken /\ KeepsACaught => calls' = calls

\* Nothing is caught that was not.
CatchesNothing == /\ repeated' = repeated /\ dag' = dag
                  /\ \A n \in Nodes : record'[n] = "interrupted" => record[n] = "interrupted"

\* Neither losses nor overtaking are taken back.
Soils == (Clean' => Clean) /\ (~overtaken' => ~overtaken)

\* A step of a sweep that leaves the run's status alone: the run had not ended, and was not
\* started again with a node caught.
LEMMA UnderATurn ==
    ASSUME IInv, ~AtRest, Soils, CatchesNothing, runStatus' = runStatus
    PROVE  EndedAtRest' /\ RepeatedAtRest' /\ EndStep /\ RepeatStep
<1>1. KeepsACaught' => KeepsACaught
  BY DEF KeepsACaught, CatchesNothing
<1>2. Clean => ~Ended /\ ~(repeated /\ KeepsACaught)
  BY DEF IInv, EndedAtRest, RepeatedAtRest, AtRest
<1>3. Ended' = Ended
  BY DEF Ended
<1>4. EndedAtRest'
  BY <1>2, <1>3 DEF EndedAtRest, Soils
<1>5. RepeatedAtRest'
  BY <1>1, <1>2 DEF RepeatedAtRest, Soils, CatchesNothing
<1>6. EndStep /\ RepeatStep
  BY <1>2 DEF EndStep, RepeatStep, Clean
<1> QED BY <1>4, <1>5, <1>6

\* What a write that is undisturbed says, in the words of the invariant.
LEMMA WriteSays ==
    ASSUME TypeOK, NEW ns \in SUBSET Nodes, NEW v \in Statuses, v # "interrupted",
           NEW status \in RunStatuses, Write(Of(ns, v), status)
    PROVE  /\ runStatus' \in {runStatus, status} /\ (lost' = 0 => lost = 0 /\ runStatus' = status)
           /\ \A n \in Nodes : record'[n] = record[n] \/ (n \in ns /\ record'[n] = v)
           /\ lost' = 0 => \A n \in ns : record'[n] \in {v, "none"}
           /\ \A n \in Nodes : record'[n] = "interrupted" => record[n] = "interrupted"
<1>1. Of(ns, v) \in [ns -> Statuses] /\ \A n \in ns : Of(ns, v)[n] = v
  BY OfTypes
<1>2. lost' \in 0 .. MaxLost /\ lost <= lost'
  BY <1>1, WriteDoes
<1>3. lost' = 0 => lost = 0
  <2>1. lost \in 0 .. MaxLost /\ MaxLost \in Nat
    BY LifecycleAssumption DEF TypeOK
  <2> QED BY <1>2, <2>1
<1>4. /\ runStatus' \in {runStatus, status} /\ (lost' = 0 => runStatus' = status)
      /\ \A n \in Nodes : record'[n] = record[n] \/ (n \in ns /\ record'[n] = v)
      /\ lost' = 0 => \A n \in ns : record'[n] \in {v, "none"}
  BY <1>1, WriteDoes
<1> QED BY <1>3, <1>4

\* The same where the run's status stays.
LEMMA WriteOfSays ==
    ASSUME TypeOK, NEW ns \in SUBSET Nodes, NEW v \in Statuses, v # "interrupted",
           Write(Of(ns, v), runStatus)
    PROVE  /\ runStatus' = runStatus /\ (lost' = 0 => lost = 0)
           /\ \A n \in Nodes : record'[n] = record[n] \/ (n \in ns /\ record'[n] = v)
           /\ lost' = 0 => \A n \in ns : record'[n] \in {v, "none"}
           /\ \A n \in Nodes : record'[n] = "interrupted" => record[n] = "interrupted"
<1> DEFINE same == runStatus
<1>1. same \in RunStatuses /\ Write(Of(ns, v), same)
  BY DEF TypeOK
<1> HIDE DEF same
<1>2. /\ runStatus' \in {runStatus, same} /\ (lost' = 0 => lost = 0)
      /\ \A n \in Nodes : record'[n] = record[n] \/ (n \in ns /\ record'[n] = v)
      /\ lost' = 0 => \A n \in ns : record'[n] \in {v, "none"}
      /\ \A n \in Nodes : record'[n] = "interrupted" => record[n] = "interrupted"
  BY <1>1, WriteSays
<1> QED BY <1>2 DEF same

\* The steps of a sweep keep what is known of the record.
LEMMA SweepStepKeeps ==
    ASSUME IInv, SweepStep, TypeOK'
    PROVE  RestIsIdle' /\ TasksGoOn' /\ EndedAtRest' /\ WaitsAreKnown' /\ RepeatedAtRest'
           /\ EndStep /\ RepeatStep
<1> USE SweepParts
<1>0. TypeOK
  BY DEF IInv
<1>1. CASE SeeStop
  <2>1. Soils /\ CatchesNothing /\ ~AtRest /\ runStatus' = runStatus
    BY <1>1 DEF SeeStop, Soils, CatchesNothing, Clean, AtRest, writes, asked, history
  <2>2. sweep'.result = sweep.result
    BY <1>0, <1>1 DEF SeeStop, TypeOK, Sweeps
  <2>3. WaitsAreKnown'
    BY <1>1, <2>1, <2>2 DEF SeeStop, IInv, WaitsAreKnown, Soils, writes
  <2>4. RestIsIdle' /\ TasksGoOn'
    BY <1>1 DEF SeeStop, IInv, RestIsIdle, TasksGoOn, AtRest
  <2> QED BY <2>1, <2>3, <2>4, UnderATurn
<1>2. CASE Look
  <2>1. NotTaken \in SUBSET Nodes /\ \A n \in NotTaken : sweep.result[n] = "none"
    BY DEF NotTaken, Ready, Pending
  <2>2. /\ runStatus' = runStatus /\ (lost' = 0 => lost = 0)
        /\ \A n \in Nodes : record'[n] = record[n] \/ (n \in NotTaken /\ record'[n] = "notTaken")
        /\ \A n \in Nodes : record'[n] = "interrupted" => record[n] = "interrupted"
    <3>1. "notTaken" \in Statuses /\ runStatus \in RunStatuses
      BY <1>0 DEF TypeOK, Statuses, Results
    <3>2. Write(Of(NotTaken, "notTaken"), runStatus)
      BY <1>2 DEF Look
    <3> QED BY <1>0, <2>1, <3>1, <3>2, WriteOfSays
  <2>3. Soils /\ CatchesNothing /\ ~AtRest
    BY <1>2, <2>2 DEF Look, Soils, CatchesNothing, Clean, AtRest, asked, history
  <2>4. \A n \in Nodes : sweep'.result[n] = IF n \in NotTaken THEN "notTaken" ELSE sweep.result[n]
    BY <1>0, <1>2 DEF Look, TypeOK, Sweeps
  <2>5. \A n \in Nodes : record'[n] = "waiting" => record[n] = "waiting"
    BY <2>2
  <2>6. WaitsAreKnown'
    BY <1>2, <2>1, <2>3, <2>4, <2>5 DEF Look, IInv, WaitsAreKnown, Soils
  <2>7. RestIsIdle' /\ TasksGoOn'
    BY <1>2 DEF Look, IInv, RestIsIdle, TasksGoOn, AtRest
  <2> QED BY <2>2, <2>3, <2>6, <2>7, UnderATurn
<1>3. ASSUME NEW n \in Nodes, Take(n)
      PROVE  RestIsIdle' /\ TasksGoOn' /\ EndedAtRest' /\ WaitsAreKnown' /\ RepeatedAtRest'
             /\ EndStep /\ RepeatStep
  <2>1. /\ runStatus' = runStatus /\ (lost' = 0 => lost = 0 /\ record'[n] \in {sweep.task[n], "none"})
        /\ \A m \in Nodes : record'[m] = record[m] \/ (m = n /\ record'[m] = sweep.task[n])
        /\ \A m \in Nodes : record'[m] = "interrupted" => record[m] = "interrupted"
    <3>1. /\ sweep.task[n] \in Statuses /\ sweep.task[n] # "interrupted"
          /\ runStatus \in RunStatuses /\ {n} \in SUBSET Nodes
      BY <1>0, <1>3 DEF Take, TypeOK, Statuses, Results, Answered
    <3>2. Write(Of({n}, sweep.task[n]), runStatus)
      BY <1>3 DEF Take
    <3> DEFINE v == sweep.task[n]
    <3> HIDE DEF v
    <3>3. /\ v \in Statuses /\ v # "interrupted" /\ Write(Of({n}, v), runStatus)
      BY <3>1, <3>2 DEF v
    <3>4. /\ runStatus' = runStatus /\ (lost' = 0 => lost = 0 /\ record'[n] \in {v, "none"})
          /\ \A m \in Nodes : record'[m] = record[m] \/ (m = n /\ record'[m] = v)
          /\ \A m \in Nodes : record'[m] = "interrupted" => record[m] = "interrupted"
      BY <1>0, <3>1, <3>3, WriteOfSays
    <3> QED BY <3>4 DEF v
  <2>2. Soils /\ CatchesNothing /\ ~AtRest
    BY <1>3, <2>1 DEF Take, Soils, CatchesNothing, Clean, AtRest, asked, history
  <2>3. \A m \in Nodes : sweep'.result[m] = IF m = n THEN sweep.task[n] ELSE sweep.result[m]
    BY <1>0, <1>3 DEF Take, TypeOK, Sweeps
  <2>4. WaitsAreKnown'
    BY <1>3, <2>1, <2>2, <2>3 DEF Take, IInv, WaitsAreKnown, Soils, Clean
  <2>5. RestIsIdle' /\ TasksGoOn'
    BY <1>3 DEF Take, IInv, RestIsIdle, TasksGoOn, AtRest
  <2> QED BY <2>1, <2>2, <2>4, <2>5, UnderATurn
<1>4. CASE WriteRecordAgain
  <2> DEFINE ns == Unrecorded(record)
             written == [n \in ns |-> sweep.result[n]]
             missed == Unrecorded(record')
  <2>1. /\ ns \in SUBSET Nodes /\ written \in [ns -> Statuses] /\ runStatus \in RunStatuses
        /\ \A n \in ns : written[n] = sweep.result[n] /\ written[n] # "interrupted"
    BY <1>0 DEF Unrecorded, Statuses, Results, Answered, TypeOK
  <2>2. Write(written, runStatus)
    BY <1>4 DEF WriteRecordAgain
  <2> HIDE DEF written
  <2>3. /\ runStatus' = runStatus /\ lost <= lost' /\ lost' \in 0 .. MaxLost
        /\ \A n \in Nodes : record'[n] = record[n] \/ (n \in ns /\ record'[n] = sweep.result[n])
    BY <1>0, <2>1, <2>2, WriteDoes
  <2>4. lost' = 0 => lost = 0
    BY <1>0, <2>3, LifecycleAssumption DEF TypeOK
  <2>5. \A n \in Nodes : record'[n] = "interrupted" => record[n] = "interrupted"
    BY <2>1, <2>3
  <2>6. Soils /\ CatchesNothing /\ ~AtRest /\ pc = "sweeping"
    BY <1>4, <2>4, <2>5 DEF WriteRecordAgain, Through, Soils, CatchesNothing, Clean, AtRest, asked, history
  <2>7. \A n \in Nodes : sweep'.result[n] = IF n \in missed THEN "failed" ELSE sweep.result[n]
    BY <1>0, <1>4 DEF WriteRecordAgain, TypeOK, Sweeps
  <2>8. Clean' => \A n \in Nodes : record'[n] = "waiting" => sweep.result[n] = "waiting"
    BY <2>3, <2>6 DEF IInv, WaitsAreKnown, Soils
  <2>9. Clean' => \A n \in Nodes : record'[n] = "waiting" => sweep'.result[n] = "waiting"
    BY <2>7, <2>8 DEF Unrecorded
  <2>10. pc' \in {"holding", "failing"} /\ tasks' = tasks
    BY <1>4 DEF WriteRecordAgain
  <2>11. RestIsIdle' /\ TasksGoOn' /\ WaitsAreKnown'
    BY <2>9, <2>10 DEF IInv, RestIsIdle, TasksGoOn, AtRest, WaitsAreKnown
  <2> QED BY <2>3, <2>6, <2>11, UnderATurn
<1>5. ASSUME NEW n \in Nodes, Place(n)
      PROVE  RestIsIdle' /\ TasksGoOn' /\ EndedAtRest' /\ WaitsAreKnown' /\ RepeatedAtRest'
             /\ EndStep /\ RepeatStep
  <2>1. Soils /\ CatchesNothing /\ ~AtRest /\ runStatus' = runStatus /\ record' = record
    BY <1>5 DEF Place, Soils, CatchesNothing, Clean, AtRest, writes, asked, history
  <2>2. [sweep EXCEPT !.result[n] = "failed", !.halted = TRUE].result = [sweep.result EXCEPT ![n] = "failed"]
    BY <1>0 DEF TypeOK, Sweeps
  <2>3. \A m \in Nodes : sweep'.result[m] \in {sweep.result[m], "failed"}
    <3>1. CASE sweep' = sweep
      BY <3>1
    <3>2. CASE sweep' = [sweep EXCEPT !.result[n] = "failed", !.halted = TRUE]
      <4>1. sweep'.result = [sweep.result EXCEPT ![n] = "failed"]
        BY <3>2, <2>2
      <4> QED BY <4>1
    <3> QED BY <1>5, <3>1, <3>2 DEF Place
  <2>4. WaitsAreKnown'
    BY <1>5, <2>1, <2>3 DEF Place, IInv, WaitsAreKnown, Soils
  <2>5. RestIsIdle' /\ TasksGoOn'
    BY <1>5 DEF Place, IInv, RestIsIdle, TasksGoOn, AtRest
  <2> QED BY <2>1, <2>4, <2>5, UnderATurn
<1>6. ASSUME NEW n \in Nodes, Hold(n)
      PROVE  RestIsIdle' /\ TasksGoOn' /\ EndedAtRest' /\ WaitsAreKnown' /\ RepeatedAtRest'
             /\ EndStep /\ RepeatStep
  <2>1. Soils /\ CatchesNothing /\ ~AtRest /\ runStatus' = runStatus /\ record' = record
    BY <1>6 DEF Hold, Soils, CatchesNothing, Clean, AtRest, writes, asked, history
  <2>2. sweep'.result = sweep.result
    BY <1>0, <1>6 DEF Hold, TypeOK, Sweeps
  <2>3. WaitsAreKnown'
    BY <1>6, <2>1, <2>2 DEF Hold, IInv, WaitsAreKnown, Soils
  <2>4. RestIsIdle' /\ TasksGoOn'
    BY <1>6 DEF Hold, RelateVigil, ResumeTask, IInv, RestIsIdle, TasksGoOn, AtRest
  <2> QED BY <2>1, <2>3, <2>4, UnderATurn
<1>7. CASE HoldEnds
  <2>1. CASE sweep.halted
    <3>1. Soils /\ CatchesNothing /\ ~AtRest /\ runStatus' = runStatus /\ record' = record
      BY <1>7, <2>1 DEF HoldEnds, Soils, CatchesNothing, Clean, AtRest, writes, history
    <3>2. WaitsAreKnown'
      BY <1>7, <2>1, <3>1 DEF HoldEnds, IInv, WaitsAreKnown, Soils
    <3>3. RestIsIdle' /\ TasksGoOn'
      BY <1>7, <2>1 DEF HoldEnds, IInv, RestIsIdle, TasksGoOn, AtRest
    <3> QED BY <3>1, <3>2, <3>3, UnderATurn
  <2>2. CASE ~sweep.halted
    <3>1. /\ (lost' = 0 => lost = 0 /\ runStatus' = "waiting")
          /\ \A m \in Nodes : record'[m] = record[m]
      <4>1. "waiting" \in RunStatuses /\ "none" \in Statuses /\ {} \in SUBSET Nodes
        BY DEF RunStatuses, Statuses, Results
      <4> QED BY <1>0, <1>7, <2>2, <4>1, WriteSays DEF HoldEnds
    <3>2. Soils /\ CatchesNothing /\ ~AtRest
      BY <1>7, <3>1 DEF HoldEnds, Soils, CatchesNothing, Clean, AtRest, history
    <3>3. Clean => ~Ended /\ ~(repeated /\ KeepsACaught)
      BY <3>2 DEF IInv, EndedAtRest, RepeatedAtRest, AtRest
    <3>4. EndedAtRest' /\ RepeatedAtRest' /\ EndStep /\ RepeatStep
      BY <3>1, <3>2, <3>3 DEF EndedAtRest, RepeatedAtRest, EndStep, RepeatStep, Soils, CatchesNothing,
                              KeepsACaught, Clean, Ended
    <3>5. RestIsIdle' /\ TasksGoOn' /\ WaitsAreKnown'
      BY <1>7, <2>2, NoSweepTypes DEF HoldEnds, IInv, RestIsIdle, TasksGoOn, WaitsAreKnown
    <3> QED BY <3>4, <3>5
  <2> QED BY <2>1, <2>2
<1>8. CASE FailUnheld
  <2> DEFINE ns == {n \in Nodes : sweep.result[n] = "failed" /\ record[n] # "failed"}
  <2>1. /\ runStatus' = runStatus
        /\ (lost' = 0 => lost = 0 /\ \A n \in ns : record'[n] \in {"failed", "none"})
        /\ \A m \in Nodes : record'[m] = record[m] \/ (m \in ns /\ record'[m] = "failed")
        /\ \A m \in Nodes : record'[m] = "interrupted" => record[m] = "interrupted"
    <3>1. "failed" \in Statuses /\ runStatus \in RunStatuses /\ ns \in SUBSET Nodes
      BY <1>0 DEF TypeOK, Statuses, Results, Answered
    <3>2. Write(Of(ns, "failed"), runStatus)
      BY <1>8 DEF FailUnheld
    <3> HIDE DEF ns
    <3> QED BY <1>0, <3>1, <3>2, WriteOfSays
  <2>2. Soils /\ CatchesNothing /\ ~AtRest
    BY <1>8, <2>1 DEF FailUnheld, Soils, CatchesNothing, Clean, AtRest, asked, history
  <2>3. Clean' => \A n \in Nodes : record'[n] = "waiting" => sweep.result[n] = "waiting"
    BY <1>8, <2>1, <2>2 DEF FailUnheld, IInv, WaitsAreKnown, Soils, Clean
  <2>4. RestIsIdle' /\ TasksGoOn' /\ WaitsAreKnown'
    BY <1>8, <2>3 DEF FailUnheld, IInv, RestIsIdle, TasksGoOn, AtRest, WaitsAreKnown
  <2> QED BY <2>1, <2>2, <2>4, UnderATurn
<1>9. CASE Close
  <2> DEFINE ns == {n \in Nodes : ~Settled(n)}
             v == IF sweep.stopped THEN "cancelled" ELSE "skipped"
             status == IF sweep.stopped THEN "cancelled" ELSE IF sweep.halted THEN "failed" ELSE "succeeded"
  <2>1. /\ (lost' = 0 => lost = 0 /\ \A n \in ns : record'[n] \in {v, "none"})
        /\ \A m \in Nodes : record'[m] = record[m] \/ (m \in ns /\ record'[m] = v)
        /\ \A m \in Nodes : record'[m] = "interrupted" => record[m] = "interrupted"
    <3>1. v \in Statuses /\ v # "interrupted"
      BY DEF Statuses, Results, Answered
    <3>2. ns \in SUBSET Nodes /\ status \in RunStatuses
      BY DEF RunStatuses
    <3>3. Write(Of(ns, v), status)
      BY <1>9 DEF Close
    <3> HIDE DEF ns, v, status
    <3> QED BY <1>0, <3>1, <3>2, <3>3, WriteSays
  <2>2. Soils /\ CatchesNothing /\ ~AtRest /\ pc = "sweeping"
    BY <1>9, <2>1 DEF Close, Through, Soils, CatchesNothing, Clean, AtRest, history
  <2>3. Clean' => \A n \in Nodes : record'[n] # "waiting"
    <3>1. v # "waiting"
      OBVIOUS
    <3>2. \A n \in Nodes : sweep.result[n] = "waiting" => n \in ns
      BY DEF Settled
    <3> QED BY <2>1, <2>2, <3>1, <3>2 DEF IInv, WaitsAreKnown, Soils, Clean
  <2>4. Clean => ~Ended /\ ~(repeated /\ KeepsACaught)
    BY <2>2 DEF IInv, EndedAtRest, RepeatedAtRest, AtRest
  <2>5. pc' = "free" /\ sweep' = NoSweep /\ tasks' = tasks
    BY <1>9 DEF Close
  <2>6. EndedAtRest'
    BY <2>3, <2>5 DEF EndedAtRest
  <2>7. RepeatedAtRest'
    BY <2>2, <2>4 DEF RepeatedAtRest, Soils, CatchesNothing, KeepsACaught
  <2>8. EndStep /\ RepeatStep
    BY <2>2, <2>4 DEF EndStep, RepeatStep, Soils, Clean
  <2>9. RestIsIdle' /\ TasksGoOn' /\ WaitsAreKnown'
    BY <2>5, NoSweepTypes DEF IInv, RestIsIdle, TasksGoOn, WaitsAreKnown
  <2> QED BY <2>6, <2>7, <2>8, <2>9
<1> QED BY <1>1, <1>2, <1>3, <1>4, <1>5, <1>6, <1>7, <1>8, <1>9 DEF SweepStep

\* The steps of a node's task: somebody sweeps, and no result changes.
LEMMA NodeStepKeeps ==
    ASSUME IInv, NEW n \in Nodes, NodeStep(n), TypeOK'
    PROVE  RestIsIdle' /\ TasksGoOn' /\ EndedAtRest' /\ WaitsAreKnown' /\ RepeatedAtRest'
           /\ EndStep /\ RepeatStep
<1> USE SweepParts
<1>0. TypeOK
  BY DEF IInv
<1>1. ~AtRest /\ pc' = pc /\ tasks' = tasks /\ repeated' = repeated /\ dag' = dag /\ overtaken' = overtaken
  BY DEF NodeStep, Begin, StartAttempt, Answers, Unreached, IInv, RestIsIdle, asked, history
<1>2. sweep'.result = sweep.result
  BY <1>0 DEF NodeStep, Begin, StartAttempt, Answers, Unreached, TypeOK, Sweeps
<1>3. /\ runStatus' = runStatus /\ (lost' = 0 => lost = 0)
      /\ \A m \in Nodes : record'[m] = "waiting" => record[m] = "waiting"
      /\ \A m \in Nodes : record'[m] = "interrupted" => record[m] = "interrupted"
  <2>1. /\ {"running", "trying"} \subseteq Statuses \ {"interrupted"} /\ {n} \in SUBSET Nodes
    BY DEF Statuses
  <2>2. CASE \E v \in {"running", "trying"} : Write(Of({n}, v), runStatus)
    <3>1. PICK v \in {"running", "trying"} : Write(Of({n}, v), runStatus)
      BY <2>2
    <3>2. v \in Statuses /\ v # "interrupted" /\ v # "waiting"
      BY <2>1
    <3>3. /\ runStatus' = runStatus /\ (lost' = 0 => lost = 0)
          /\ \A m \in Nodes : record'[m] = record[m] \/ (m \in {n} /\ record'[m] = v)
          /\ \A m \in Nodes : record'[m] = "interrupted" => record[m] = "interrupted"
      BY <1>0, <2>1, <3>1, <3>2, WriteOfSays, SMTT(30)
    <3> QED BY <3>2, <3>3
  <2>3. CASE UNCHANGED writes
    BY <2>3 DEF writes
  <2> QED BY <2>2, <2>3 DEF NodeStep, Begin, StartAttempt, Answers, Unreached
<1>4. Soils /\ CatchesNothing
  BY <1>1, <1>3 DEF Soils, CatchesNothing, Clean
<1>5. RestIsIdle' /\ TasksGoOn' /\ WaitsAreKnown'
  BY <1>1, <1>2, <1>3, <1>4 DEF IInv, RestIsIdle, TasksGoOn, AtRest, WaitsAreKnown, Soils
<1> QED BY <1>1, <1>3, <1>4, <1>5, UnderATurn

\* A step that leaves the run, its record and whoever has the turn alone.
LEMMA ElsewhereKeeps ==
    ASSUME IInv, UNCHANGED <<dag, record, runStatus, lost, pc, sweep, repeated, calls, overtaken>>,
           TasksGoOn'
    PROVE  RestIsIdle' /\ TasksGoOn' /\ EndedAtRest' /\ WaitsAreKnown' /\ RepeatedAtRest'
           /\ EndStep /\ RepeatStep
BY DEF IInv, RestIsIdle, EndedAtRest, WaitsAreKnown, RepeatedAtRest, EndStep, RepeatStep, AtRest, Clean,
       Ended, KeepsACaught

LEMMA AnswerStepKeeps ==
    ASSUME IInv, NEW n \in Nodes, AnswerStep(n)
    PROVE  RestIsIdle' /\ TasksGoOn' /\ EndedAtRest' /\ WaitsAreKnown' /\ RepeatedAtRest'
           /\ EndStep /\ RepeatStep
<1>1. UNCHANGED <<dag, record, runStatus, lost, pc, sweep, repeated, calls, overtaken>>
  BY DEF AnswerStep, LookUp, KeepEarly, LookUpAgain, LookUpAgainIf, writes, asked, history
<1>2. tasks' \in {tasks, tasks \union {ResumeTask(n)}}
  BY DEF AnswerStep, LookUp, KeepEarly, LookUpAgain, LookUpAgainIf
<1>3. TasksGoOn'
  BY <1>2 DEF TasksGoOn, ResumeTask, IInv
<1> QED BY <1>1, <1>3, ElsewhereKeeps

\* A record that keeps a caught node cannot be gone on from.
LEMMA CaughtIsInTheWay == KeepsACaught => CannotGoOn(record, FALSE)
BY DEF KeepsACaught, CannotGoOn, Caught

\* What takes the turn goes by the record, or is overtaken.
LEMMA TakeUpKeeps ==
    ASSUME IInv, NEW t \in tasks, TakeUp(t), TypeOK'
    PROVE  RestIsIdle' /\ TasksGoOn' /\ EndedAtRest' /\ WaitsAreKnown' /\ RepeatedAtRest'
           /\ EndStep /\ RepeatStep
<1>0. TypeOK
  BY DEF IInv
<1>1. ASSUME NEW n \in Nodes, Resume(n)
      PROVE  RestIsIdle' /\ TasksGoOn' /\ EndedAtRest' /\ WaitsAreKnown' /\ RepeatedAtRest'
             /\ EndStep /\ RepeatStep
  <2>0. /\ pc = "free" /\ tasks' \subseteq tasks /\ overtaken' = overtaken /\ repeated' = repeated
        /\ dag' = dag /\ calls' = calls
    BY <1>1 DEF Resume, TakesTurn, asked, history
  <2>1. TasksGoOn' /\ RepeatStep
    BY <2>0 DEF IInv, TasksGoOn, RepeatStep
  <2>2. CASE record[n] # "waiting"
    <3>1. UNCHANGED <<dag, record, runStatus, lost, pc, sweep, repeated, calls, overtaken>>
      BY <1>1, <2>2 DEF Resume, writes, asked, history
    <3> QED BY <2>1, <3>1, ElsewhereKeeps
  <2>3. CASE record[n] = "waiting" /\ CannotGoOn(record, FALSE)
    <3>1. Write(Of({}, "none"), "failed") /\ UNCHANGED <<pc, sweep>>
      BY <1>1, <2>3 DEF Resume
    <3>2. /\ runStatus' \in {runStatus, "failed"} /\ (lost' = 0 => lost = 0 /\ runStatus' = "failed")
          /\ \A m \in Nodes : record'[m] = record[m]
      <4>1. "failed" \in RunStatuses /\ "none" \in Statuses /\ {} \in SUBSET Nodes
        BY DEF RunStatuses, Statuses, Results
      <4> QED BY <1>0, <3>1, <4>1, WriteSays, SMTT(30)
    <3>3. Clean => ~Ended
      BY <2>3 DEF IInv, EndedAtRest
    <3>4. EndedAtRest' /\ EndStep
      BY <2>0, <3>2, <3>3 DEF EndedAtRest, EndStep, Clean, Ended
    <3>5. RepeatedAtRest'
      BY <2>0, <3>1, <3>2 DEF RepeatedAtRest, Clean, AtRest
    <3>6. RestIsIdle' /\ WaitsAreKnown'
      BY <2>0, <3>1 DEF IInv, RestIsIdle, AtRest, WaitsAreKnown
    <3> QED BY <2>1, <3>4, <3>5, <3>6
  <2>4. CASE record[n] = "waiting" /\ ~CannotGoOn(record, FALSE)
    <3> DEFINE res == [ProgressFrom(record) EXCEPT ![n] = "succeeded"]
               hold == {m \in Nodes \ {n} : record[m] = "waiting"}
    <3>1. Write(Of({n}, "succeeded"), "running") /\ pc' = "sweeping" /\ sweep' = SweepFrom(res, hold)
      BY <1>1, <2>4 DEF Resume
    <3>2. /\ runStatus' \in {runStatus, "running"}
          /\ (lost' = 0 => lost = 0 /\ runStatus' = "running" /\ record'[n] \in {"succeeded", "none"})
          /\ \A m \in Nodes : record'[m] = record[m] \/ (m \in {n} /\ record'[m] = "succeeded")
          /\ \A m \in Nodes : record'[m] = "interrupted" => record[m] = "interrupted"
      <4> DEFINE v == "succeeded"
                 status == "running"
                 ns == {n}
      <4>1. /\ v \in Statuses /\ v # "interrupted" /\ Write(Of(ns, v), status)
            /\ status \in RunStatuses /\ ns \in SUBSET Nodes
        BY <3>1 DEF RunStatuses, Statuses, Results, Answered
      <4> HIDE DEF v, status, ns
      <4>2. /\ runStatus' \in {runStatus, status} /\ (lost' = 0 => lost = 0 /\ runStatus' = status)
            /\ lost' = 0 => \A m \in ns : record'[m] \in {v, "none"}
            /\ \A m \in Nodes : record'[m] = record[m] \/ (m \in ns /\ record'[m] = v)
            /\ \A m \in Nodes : record'[m] = "interrupted" => record[m] = "interrupted"
        BY <1>0, <4>1, WriteSays
      <4> QED BY <4>2 DEF v, status, ns
    <3>3. Clean => ~Ended
      BY <2>4 DEF IInv, EndedAtRest
    <3>4. EndedAtRest' /\ EndStep
      BY <2>0, <3>2, <3>3 DEF EndedAtRest, EndStep, Clean, Ended
    <3>5. ~KeepsACaught /\ ~KeepsACaught'
      BY <2>0, <2>4, <3>2, CaughtIsInTheWay DEF KeepsACaught
    <3>6. RepeatedAtRest'
      BY <3>5 DEF RepeatedAtRest
    <3>7. sweep'.result = res
      <4>1. res \in [Nodes -> Results] /\ hold \in SUBSET Nodes
        BY <1>0, ProgressTypes DEF TypeOK, Results, Answered
      <4> HIDE DEF res, hold
      <4> QED BY <3>1, <4>1, SweepFromTypes
    <3>8. \A m \in Nodes : m # n /\ record[m] = "waiting" => sweep'.result[m] = "waiting"
      BY <1>0, <3>7, ProgressTypes DEF TypeOK
    <3>9. RestIsIdle' /\ WaitsAreKnown'
      BY <3>1, <3>2, <3>8 DEF RestIsIdle, AtRest, WaitsAreKnown, Clean
    <3> QED BY <2>1, <3>4, <3>6, <3>9
  <2> QED BY <2>2, <2>3, <2>4
<1>2. CASE CarryOnInTheBackground(t)
  <2>1. /\ pc = "free" /\ pc' = "sweeping" /\ tasks' \subseteq tasks /\ t.kind = "sweep"
        /\ UNCHANGED <<dag, record, runStatus, lost, repeated, calls>>
        /\ ~overtaken' => ~overtaken /\ t.rec = record /\ t.status = runStatus
    BY <1>2 DEF CarryOnInTheBackground, TakesTurn, writes, asked
  <2>2. ~Finished(t.status)
    BY <2>1 DEF IInv, TasksGoOn
  <2>3. ~overtaken' => ~Ended /\ runStatus # "failed"
    BY <2>1, <2>2 DEF Finished, Ended
  <2>4. ~overtaken' => sweep'.result = ProgressFrom(record)
    <3>1. ProgressFrom(record) \in [Nodes -> Results]
      BY <1>0, ProgressTypes DEF TypeOK
    <3>2. {n \in Nodes : record[n] = "waiting"} \in SUBSET Nodes
      OBVIOUS
    <3> QED BY <1>2, <2>1, <3>1, <3>2, SweepFromTypes DEF CarryOnInTheBackground
  <2>5. WaitsAreKnown'
    BY <1>0, <2>1, <2>4, ProgressTypes DEF WaitsAreKnown, Clean, TypeOK
  <2>6. EndedAtRest' /\ EndStep
    BY <2>1, <2>3 DEF EndedAtRest, EndStep, Clean, Ended
  <2>7. RepeatedAtRest' /\ RepeatStep
    <3>1. ~overtaken' /\ lost = 0 => ~(repeated /\ KeepsACaught)
      BY <2>1, <2>3 DEF IInv, RepeatedAtRest, Clean
    <3> QED BY <2>1, <3>1 DEF RepeatedAtRest, RepeatStep, Clean, KeepsACaught
  <2>8. RestIsIdle' /\ TasksGoOn'
    BY <2>1 DEF IInv, RestIsIdle, AtRest, TasksGoOn
  <2> QED BY <2>5, <2>6, <2>7, <2>8
<1>3. CASE EndStopped
  <2>0. /\ pc = "free" /\ tasks' \subseteq tasks /\ overtaken' = overtaken /\ repeated' = repeated
        /\ UNCHANGED <<dag, pc, sweep, calls>>
    BY <1>3 DEF EndStopped, TakesTurn, asked, history
  <2>1. TasksGoOn'
    BY <2>0 DEF IInv, TasksGoOn
  <2>2. CASE Finished(runStatus)
    <3>1. UNCHANGED <<dag, record, runStatus, lost, pc, sweep, repeated, calls, overtaken>>
      BY <1>3, <2>0, <2>2 DEF EndStopped, writes
    <3> QED BY <2>1, <3>1, ElsewhereKeeps
  <2>3. CASE ~Finished(runStatus)
    <3> DEFINE ns == {n \in Nodes : ~Finished(record[n])}
    <3>1. Write(Of(ns, "cancelled"), "cancelled")
      BY <1>3, <2>3 DEF EndStopped
    <3>2. \A n \in Nodes : record[n] = "waiting" => n \in ns
      BY DEF Finished
    <3>3. ns \in SUBSET Nodes
      OBVIOUS
    <3> HIDE DEF ns
    <3>4. /\ (lost' = 0 => lost = 0 /\ \A n \in ns : record'[n] \in {"cancelled", "none"})
          /\ \A m \in Nodes : record'[m] = record[m] \/ (m \in ns /\ record'[m] = "cancelled")
          /\ \A m \in Nodes : record'[m] = "interrupted" => record[m] = "interrupted"
      <4> DEFINE v == "cancelled"
      <4>1. v \in RunStatuses /\ v \in Statuses /\ v # "interrupted" /\ Write(Of(ns, v), v)
        BY <3>1 DEF RunStatuses, Statuses, Results, Answered
      <4> HIDE DEF v
      <4>2. /\ (lost' = 0 => lost = 0 /\ \A n \in ns : record'[n] \in {v, "none"})
            /\ \A m \in Nodes : record'[m] = record[m] \/ (m \in ns /\ record'[m] = v)
            /\ \A m \in Nodes : record'[m] = "interrupted" => record[m] = "interrupted"
        BY <1>0, <3>3, <4>1, WriteSays
      <4> QED BY <4>2 DEF v
    <3>5. ~Ended /\ runStatus # "failed"
      BY <2>3 DEF Ended, Finished
    <3>6. Clean' => \A n \in Nodes : record'[n] # "waiting"
      BY <3>2, <3>4 DEF Clean
    <3>7. EndedAtRest' /\ EndStep
      BY <2>0, <3>5, <3>6 DEF EndedAtRest, EndStep
    <3>8. RepeatedAtRest' /\ RepeatStep
      BY <2>0, <3>4, <3>5 DEF IInv, RepeatedAtRest, RepeatStep, Clean, KeepsACaught
    <3>9. RestIsIdle' /\ WaitsAreKnown'
      BY <2>0 DEF IInv, RestIsIdle, AtRest, WaitsAreKnown
    <3> QED BY <2>1, <3>7, <3>8, <3>9
  <2> QED BY <2>2, <2>3
<1> QED BY <1>1, <1>2, <1>3 DEF TakeUp

\* Recovery writes nothing of a run that is over, and fails the others whose record is in the way.
LEMMA RecoveryStepKeeps ==
    ASSUME IInv, RecoveryStep, TypeOK'
    PROVE  RestIsIdle' /\ TasksGoOn' /\ EndedAtRest' /\ WaitsAreKnown' /\ RepeatedAtRest'
           /\ EndStep /\ RepeatStep
<1>0. TypeOK
  BY DEF IInv
<1>1. CASE ListWaits \/ ListUnfinished \/ \E w \in todo : SkipWait(w)
  <2>1. UNCHANGED <<dag, record, runStatus, lost, pc, sweep, tasks, repeated, calls, overtaken>>
    BY <1>1 DEF ListWaits, ListUnfinished, ListUnfinishedIn, SkipWait, writes, asked, history
  <2>2. TasksGoOn'
    BY <2>1 DEF IInv, TasksGoOn
  <2> QED BY <2>1, <2>2, ElsewhereKeeps
<1>2. ASSUME NEW n \in Nodes, Write(Of({n}, "failed"), "failed")
      PROVE  /\ runStatus' \in {runStatus, "failed"} /\ (lost' = 0 => lost = 0 /\ runStatus' = "failed")
             /\ \A m \in Nodes : record'[m] = "waiting" => record[m] = "waiting"
             /\ \A m \in Nodes : record'[m] = "interrupted" => record[m] = "interrupted"
  <2> DEFINE v == "failed"
  <2>1. /\ v \in RunStatuses /\ v \in Statuses /\ v # "interrupted" /\ v # "waiting"
        /\ Write(Of({n}, v), v) /\ {n} \in SUBSET Nodes
    BY <1>2 DEF RunStatuses, Statuses, Results, Answered
  <2> HIDE DEF v
  <2>2. /\ runStatus' \in {runStatus, v} /\ (lost' = 0 => lost = 0 /\ runStatus' = v)
        /\ \A m \in Nodes : record'[m] = record[m] \/ (m \in {n} /\ record'[m] = v)
        /\ \A m \in Nodes : record'[m] = "interrupted" => record[m] = "interrupted"
    BY <1>0, <2>1, WriteSays
  <2> QED BY <2>1, <2>2 DEF v
<1>3. ASSUME NEW w \in todo, RecoverWait(w)
      PROVE  RestIsIdle' /\ TasksGoOn' /\ EndedAtRest' /\ WaitsAreKnown' /\ RepeatedAtRest'
             /\ EndStep /\ RepeatStep
  <2>1. /\ w.node \in Nodes /\ pc = "free" /\ pc' \in {"free", "recovering"}
        /\ UNCHANGED <<dag, sweep, tasks, repeated, calls>>
        /\ ~overtaken' => ~overtaken /\ record[w.node] = "waiting"
    BY <1>0, <1>3 DEF RecoverWait, asked, TypeOK, Listed
  <2>2. UNCHANGED <<record, runStatus, lost>> \/ Write(Of({w.node}, "failed"), "failed")
    BY <1>3 DEF RecoverWait, writes
  <2>3. /\ runStatus' \in {runStatus, "failed"} /\ (lost' = 0 => lost = 0)
        /\ \A m \in Nodes : record'[m] = "interrupted" => record[m] = "interrupted"
    BY <1>2, <2>1, <2>2
  <2>4. ~overtaken' /\ lost = 0 => ~Ended
    BY <2>1 DEF IInv, EndedAtRest, Clean
  <2>5. EndedAtRest' /\ EndStep
    BY <2>1, <2>3, <2>4 DEF EndedAtRest, EndStep, Clean, Ended
  <2>6. RepeatedAtRest' /\ RepeatStep
    BY <2>1, <2>3 DEF IInv, RepeatedAtRest, RepeatStep, AtRest, Clean, KeepsACaught
  <2>7. RestIsIdle' /\ TasksGoOn' /\ WaitsAreKnown'
    BY <2>1 DEF IInv, RestIsIdle, AtRest, TasksGoOn, WaitsAreKnown
  <2> QED BY <2>5, <2>6, <2>7
<1>4. ASSUME NEW n \in Nodes, RecoverWaitEnds(n)
      PROVE  RestIsIdle' /\ TasksGoOn' /\ EndedAtRest' /\ WaitsAreKnown' /\ RepeatedAtRest'
             /\ EndStep /\ RepeatStep
  <2>1. /\ pc = "recovering" /\ pc' = "free" /\ tasks' \in {tasks, tasks \union {ResumeTask(n)}}
        /\ UNCHANGED <<dag, sweep, repeated, calls, overtaken>>
    BY <1>4 DEF RecoverWaitEnds, RelateVigil, asked, history
  <2>2. UNCHANGED <<record, runStatus, lost>> \/ Write(Of({n}, "failed"), "failed")
    BY <1>4 DEF RecoverWaitEnds, writes
  <2>3. /\ runStatus' \in {runStatus, "failed"} /\ (lost' = 0 => lost = 0)
        /\ \A m \in Nodes : record'[m] = "interrupted" => record[m] = "interrupted"
    BY <1>2, <2>2
  <2>4. Clean => ~Ended
    BY <2>1 DEF IInv, EndedAtRest
  <2>5. EndedAtRest' /\ EndStep
    BY <2>1, <2>3, <2>4 DEF EndedAtRest, EndStep, Clean, Ended
  <2>6. RepeatedAtRest' /\ RepeatStep
    BY <2>1, <2>3 DEF IInv, RepeatedAtRest, RepeatStep, AtRest, Clean, KeepsACaught
  <2>7. RestIsIdle' /\ TasksGoOn' /\ WaitsAreKnown'
    BY <2>1 DEF IInv, RestIsIdle, AtRest, TasksGoOn, WaitsAreKnown, ResumeTask
  <2> QED BY <2>5, <2>6, <2>7
<1>5. CASE RecoverUnfinished
  <2>1. pc = "free" /\ UNCHANGED <<dag, pc, sweep, repeated, calls, overtaken>>
    BY <1>5 DEF RecoverUnfinished, RecoverUnfinishedUnless, asked, history
  <2>2. CASE Finished(runStatus) \/ ~CannotGoOn(record, FALSE)
    <3>1. /\ UNCHANGED <<dag, record, runStatus, lost, pc, sweep, repeated, calls, overtaken>>
          /\ tasks' = tasks \/ (~Finished(runStatus) /\ tasks' = tasks \union {SweepTask(record, runStatus)})
      BY <1>5, <2>1, <2>2 DEF RecoverUnfinished, RecoverUnfinishedUnless, writes
    <3>2. TasksGoOn'
      BY <3>1 DEF IInv, TasksGoOn, SweepTask
    <3> QED BY <3>1, <3>2, ElsewhereKeeps
  <2>3. CASE ~Finished(runStatus) /\ CannotGoOn(record, FALSE)
    <3>1. tasks' = tasks /\ \E w \in todo : Write(Of({w.node}, "interrupted"), "failed")
      BY <1>5, <2>3 DEF RecoverUnfinished, RecoverUnfinishedUnless
    <3>2. PICK w \in todo : Write(Of({w.node}, "interrupted"), "failed")
      BY <3>1
    <3>3. /\ w.node \in Nodes /\ {w.node} \in SUBSET Nodes /\ "failed" \in RunStatuses
          /\ Of({w.node}, "interrupted") \in [{w.node} -> Statuses]
      <4>1. w.node \in Nodes
        BY <1>0 DEF TypeOK, Listed
      <4>2. {w.node} \in SUBSET Nodes /\ "interrupted" \in Statuses /\ "failed" \in RunStatuses
        BY <4>1 DEF RunStatuses, Statuses
      <4> QED BY <4>1, <4>2, OfTypes
    <3>4. /\ runStatus' \in {runStatus, "failed"} /\ (lost' = 0 => runStatus' = "failed")
          /\ lost' \in 0 .. MaxLost /\ lost <= lost'
      BY <1>0, <3>2, <3>3, WriteDoes
    <3>5. lost' = 0 => lost = 0
      BY <1>0, <3>4, LifecycleAssumption DEF TypeOK
    <3>6. ~Ended /\ runStatus # "failed"
      BY <2>3 DEF Ended, Finished
    <3>7. EndedAtRest' /\ EndStep
      BY <3>4, <3>6 DEF EndedAtRest, EndStep, Ended
    <3>8. RepeatedAtRest' /\ RepeatStep
      BY <2>1, <3>4 DEF RepeatedAtRest, RepeatStep, AtRest, Clean
    <3>9. RestIsIdle' /\ TasksGoOn' /\ WaitsAreKnown'
      BY <2>1, <3>1 DEF IInv, RestIsIdle, AtRest, TasksGoOn, WaitsAreKnown
    <3> QED BY <3>7, <3>8, <3>9
  <2> QED BY <2>2, <2>3
<1> QED BY <1>1, <1>3, <1>4, <1>5 DEF RecoveryStep

\* A person does not carry on what was started again; a crash leaves nobody sweeping.
LEMMA OthersKeep ==
    ASSUME IInv, Others
    PROVE  RestIsIdle' /\ TasksGoOn' /\ EndedAtRest' /\ WaitsAreKnown' /\ RepeatedAtRest'
           /\ EndStep /\ RepeatStep
<1>1. CASE AskStop \/ \E n \in Nodes : VigilIsAnswered(n)
  <2>1. UNCHANGED <<dag, record, runStatus, lost, pc, sweep, repeated, calls, overtaken>>
    BY <1>1 DEF AskStop, VigilIsAnswered, writes, asked, history
  <2>2. tasks' \in {tasks, tasks \union {StopTask}}
    BY <1>1 DEF AskStop, VigilIsAnswered
  <2>3. TasksGoOn'
    BY <2>2 DEF IInv, TasksGoOn, StopTask
  <2> QED BY <2>1, <2>3, ElsewhereKeeps
<1>2. CASE CarryOn
  <2>1. /\ pc = "free" /\ runStatus = "failed" /\ runStatus' = "running" /\ ~repeated
        /\ tasks' = tasks \union {SweepTask(record, "running")}
        /\ UNCHANGED <<dag, record, lost, pc, sweep, repeated, calls, overtaken>>
    BY <1>2 DEF CarryOn, CarryOnUnless, StoppedByARestart, history
  <2>2. EndedAtRest' /\ EndStep /\ RepeatedAtRest' /\ RepeatStep
    BY <2>1 DEF EndedAtRest, EndStep, Ended, RepeatedAtRest, RepeatStep
  <2>3. TasksGoOn'
    BY <2>1 DEF IInv, TasksGoOn, SweepTask, Finished
  <2>4. RestIsIdle' /\ WaitsAreKnown'
    BY <2>1 DEF IInv, RestIsIdle, AtRest, WaitsAreKnown
  <2> QED BY <2>2, <2>3, <2>4
<1>3. CASE StartAgain
  <2>1. /\ pc = "free" /\ runStatus = "failed"
        /\ UNCHANGED <<dag, record, runStatus, lost, pc, sweep, tasks, calls, overtaken>>
    BY <1>3 DEF StartAgain, StoppedByARestart, writes, history
  <2>2. EndedAtRest' /\ EndStep /\ RepeatedAtRest' /\ RepeatStep
    BY <2>1 DEF EndedAtRest, EndStep, Ended, RepeatedAtRest, RepeatStep, AtRest
  <2>3. RestIsIdle' /\ TasksGoOn' /\ WaitsAreKnown'
    BY <2>1 DEF IInv, RestIsIdle, AtRest, TasksGoOn, WaitsAreKnown
  <2> QED BY <2>2, <2>3
<1>4. CASE Crash
  <2>1. /\ pc' = "free" /\ sweep' = NoSweep /\ tasks' = {}
        /\ UNCHANGED <<dag, record, runStatus, lost, repeated, calls, overtaken>>
    BY <1>4 DEF Crash
  <2>2. EndedAtRest' /\ EndStep /\ RepeatedAtRest' /\ RepeatStep
    BY <2>1 DEF IInv, EndedAtRest, EndStep, Ended, RepeatedAtRest, RepeatStep, AtRest, Clean, KeepsACaught
  <2>3. RestIsIdle' /\ TasksGoOn' /\ WaitsAreKnown'
    BY <2>1, NoSweepTypes DEF RestIsIdle, TasksGoOn, WaitsAreKnown
  <2> QED BY <2>2, <2>3
<1> QED BY <1>1, <1>2, <1>3, <1>4 DEF Others
-----------------------------------------------------------------------------
LEMMA InitIInv == Init => IInv
<1> SUFFICES ASSUME Init PROVE IInv
  OBVIOUS
<1>1. TypeOK
  BY InitTypeOK
<1>2. RestIsIdle /\ TasksGoOn /\ EndedAtRest /\ RepeatedAtRest
  BY DEF Init, RestIsIdle, AtRest, TasksGoOn, EndedAtRest, Ended, RepeatedAtRest
<1>3. WaitsAreKnown
  BY DEF Init, WaitsAreKnown, Of
<1> QED BY <1>1, <1>2, <1>3 DEF IInv

LEMMA NextKeeps ==
    IInv /\ [Next]_vars => IInv' /\ (~UNCHANGED vars => EndStep /\ RepeatStep)
<1> SUFFICES ASSUME IInv, [Next]_vars
             PROVE  IInv' /\ (~UNCHANGED vars => EndStep /\ RepeatStep)
  OBVIOUS
<1>1. TypeOK'
  BY NextType DEF IInv
<1>2. CASE UNCHANGED vars
  <2>1. UNCHANGED <<dag, record, runStatus, lost, pc, sweep, tasks, repeated, calls, overtaken>>
    BY <1>2 DEF vars, writes, asked, history
  <2>2. TasksGoOn'
    BY <2>1 DEF IInv, TasksGoOn
  <2> QED BY <1>1, <1>2, <2>1, <2>2, ElsewhereKeeps DEF IInv
<1>3. CASE Process
  BY <1>1, <1>3, SweepStepKeeps, NodeStepKeeps, AnswerStepKeeps, TakeUpKeeps, RecoveryStepKeeps
     DEF Process, IInv
<1> QED BY <1>1, <1>2, <1>3, OthersKeep DEF Next, IInv

\* What the theorems below rest on.
LEMMA AlwaysIInv == Spec => []IInv
BY InitIInv, NextKeeps, PTL DEF Spec

\* A run that succeeded or was stopped stays so over any number of crashes, late answers, stops
\* and recoveries, for every drawing, where nothing is lost and nobody is overtaken.
THEOREM EndsStay == Spec => EndStays
<1>1. IInv /\ [Next]_vars =>
        [(runStatus \in {"succeeded", "cancelled"} /\ ~overtaken' /\ lost = 0)
           => runStatus' = runStatus]_vars
  BY NextKeeps DEF EndStep, Ended
<1> QED BY <1>1, AlwaysIInv, PTL DEF Spec, EndStays

\* Where no write is lost, a run started again that keeps a caught node calls nothing any more,
\* for every drawing and over any number of crashes, answers and asks.
THEOREM StartedAgainStaysOver ==
    ASSUME MaxLost = 0
    PROVE  Spec => StartedAgainIsOver
<1>1. IInv /\ [Next]_vars =>
        [(repeated /\ ~overtaken /\ KeepsACaught) => calls' = calls]_vars
  <2>1. TypeOK => lost = 0
    BY DEF TypeOK
  <2> QED BY <2>1, NextKeeps DEF RepeatStep, IInv
<1> QED BY <1>1, AlwaysIInv, PTL DEF Spec, StartedAgainIsOver
-----------------------------------------------------------------------------
(***************************************************************************)
(* What the record of a run that nothing was lost of tells: it has what    *)
(* the sweep settled, and what is under way on it stands behind nodes that *)
(* are over.  So a sweep that ends in a wait has taken up all of it, and   *)
(* what a crash left is left to the recovery.                              *)
(***************************************************************************)
InSweep == pc \in {"sweeping", "holding", "failing"}

\* What a node run that was begun and is not over says, and what one that is over says.
BegunSays == {"running", "trying", "interrupted"}
OverSays  == {"succeeded", "failed", "notTaken", "skipped", "cancelled"}

AllRelated == Clean => \A n \in Nodes : ~Unrelated(n)

TasksInOrder ==
    InSweep => \A n \in Nodes : sweep.task[n] # "none" =>
                   sweep.result[n] = "none" /\ \A m \in Into(n) : Settled(m)

HeldIsThrough == /\ pc \in {"holding", "failing"} => Calling = {}
                 /\ pc = "holding" /\ ~sweep.halted => Ready = {}
                 /\ pc = "failing" => sweep.halted

SweepFollows ==
    Clean /\ InSweep => \A n \in Nodes :
        /\ sweep.result[n] = "none" => record[n] \in BegunSays \union {"none"}
        /\ sweep.result[n] # "none" =>
               \/ record[n] = sweep.result[n]
               \/ pc # "sweeping" /\ sweep.result[n] = "failed" /\ record[n] = "waiting"
        /\ n \in sweep.holding => sweep.result[n] = "waiting"

InOrder == Clean => \A n \in Nodes : record[n] \in BegunSays =>
                        \A m \in Into(n) : record[m] \in OverSays

\* The node a recovery has listed is still under way, or its run is seen to, or is over.
ListedIsUnderWay ==
    Clean /\ recovery = "unfinished" =>
        /\ pc # "recovering"
        /\ \A w \in todo : \/ record[w.node] \in {"running", "trying"}
                           \/ InSweep
                           \/ Ended
                           \/ /\ Finished(runStatus) \/ ~CannotGoOn(record, FALSE)
                              /\ \A n \in Nodes : record[n] # "interrupted"

LeftToSome ==
    Clean /\ ~Finished(runStatus) => \A n \in Nodes : record[n] \in {"running", "trying"} =>
        InSweep \/ (\E t \in tasks : t.kind = "sweep") \/ recovery # "done"

RecordInv == /\ AllRelated
             /\ TasksInOrder
             /\ HeldIsThrough
             /\ SweepFollows
             /\ InOrder
             /\ ListedIsUnderWay
             /\ LeftToSome

\* A vigil on its way to its node run has none of its answers lost.
EarlyIsKept ==
    \A n \in placing : /\ vigil[n] = "placed"
                       /\ answering[n] \in {"lookingAgain", "done"} => n \in early
                       /\ pc \in {"holding", "recovering"}
                       /\ pc = "holding" => sweep.result[n] = "waiting" /\ n \notin sweep.holding

\* Where nothing is lost a write does all it is asked.
LEMMA CleanWrite ==
    ASSUME TypeOK, AllRelated, NEW ns \in SUBSET Nodes, NEW written \in [ns -> Statuses \ {"none"}],
           NEW status \in RunStatuses, Write(written, status), Clean', overtaken' = overtaken
    PROVE  /\ Clean /\ lost = 0
           /\ \A n \in Nodes : record'[n] = IF n \in ns THEN written[n] ELSE record[n]
           /\ runStatus' = status
           /\ AllRelated'
<1>1. written \in [ns -> Statuses] /\ \A n \in ns : written[n] # "none" /\ written[n] \in Statuses
  OBVIOUS
<1>2. PICK failing \in SUBSET ns, refused \in {FALSE, status # runStatus} :
         /\ lost' = lost + Cardinality(failing) + (IF refused THEN 1 ELSE 0)
         /\ record' = [n \in Nodes |-> IF n \in ns \ failing /\ ~Unrelated(n) THEN written[n]
                                       ELSE record[n]]
         /\ created' = created \union ns
         /\ runStatus' = IF refused THEN runStatus ELSE status
  <2>1. DOMAIN written = ns
    OBVIOUS
  <2> QED BY <2>1 DEF Write
<1>3. IsFiniteSet(failing)
  BY LifecycleAssumption, FS_Subset
<1>4. Cardinality(failing) \in Nat /\ (Cardinality(failing) = 0 => failing = {})
  BY <1>3, FS_CardinalityType, FS_EmptySet
<1>5. lost \in Nat
  BY LifecycleAssumption DEF TypeOK
<1>6. lost = 0 /\ failing = {} /\ ~refused
  <2> DEFINE r == IF refused THEN 1 ELSE 0
  <2>1. r \in Nat /\ (refused => r = 1)
    OBVIOUS
  <2>2. 0 = lost + Cardinality(failing) + r
    BY <1>2 DEF Clean
  <2> HIDE DEF r
  <2>3. lost = 0 /\ Cardinality(failing) = 0 /\ r = 0
    BY <2>1, <2>2, <1>4, <1>5
  <2> QED BY <2>1, <2>3, <1>4
<1>7. Clean /\ \A n \in Nodes : ~Unrelated(n)
  BY <1>6 DEF Clean, AllRelated
<1>8. \A n \in Nodes : record'[n] = IF n \in ns THEN written[n] ELSE record[n]
  BY <1>2, <1>6, <1>7
<1>9. runStatus' = status
  BY <1>2, <1>6
<1>10. AllRelated'
  BY <1>1, <1>2, <1>7, <1>8 DEF AllRelated, Unrelated
<1> QED BY <1>6, <1>7, <1>8, <1>9, <1>10

\* The same of one status for several nodes.
LEMMA CleanWriteOf ==
    ASSUME TypeOK, AllRelated, NEW ns \in SUBSET Nodes, NEW v \in Statuses \ {"none"},
           NEW status \in RunStatuses, Write(Of(ns, v), status), Clean', overtaken' = overtaken
    PROVE  /\ Clean /\ lost = 0
           /\ \A n \in Nodes : record'[n] = IF n \in ns THEN v ELSE record[n]
           /\ runStatus' = status
           /\ AllRelated'
<1>1. Of(ns, v) \in [ns -> Statuses \ {"none"}] /\ \A n \in ns : Of(ns, v)[n] = v
  BY DEF Of
<1> DEFINE written == Of(ns, v)
<1>2. written \in [ns -> Statuses \ {"none"}] /\ Write(written, status)
  BY <1>1
<1>3. \A n \in ns : written[n] = v
  BY <1>1
<1> HIDE DEF written
<1>4. /\ Clean /\ lost = 0
      /\ \A n \in Nodes : record'[n] = IF n \in ns THEN written[n] ELSE record[n]
      /\ runStatus' = status
      /\ AllRelated'
  BY <1>2, CleanWrite
<1> QED BY <1>3, <1>4

\* And of one that writes the run's status only.
LEMMA CleanWriteNone ==
    ASSUME TypeOK, AllRelated, NEW status \in RunStatuses, Write(Of({}, "none"), status), Clean',
           overtaken' = overtaken
    PROVE  /\ Clean /\ lost = 0
           /\ \A n \in Nodes : record'[n] = record[n]
           /\ runStatus' = status
           /\ AllRelated'
<1> DEFINE written == Of({}, "none")
<1>1. written \in [{} -> Statuses \ {"none"}] /\ Write(written, status)
  BY DEF Of
<1> HIDE DEF written
<1>2. {} \in SUBSET Nodes
  OBVIOUS
<1>3. /\ Clean /\ lost = 0
      /\ \A n \in Nodes : record'[n] = IF n \in {} THEN written[n] ELSE record[n]
      /\ runStatus' = status
      /\ AllRelated'
  BY <1>1, <1>2, CleanWrite
<1> QED BY <1>3

\* What a sweep has the turn for is seen to.
LEMMA SweepingSeesToAll ==
    InSweep' => ListedIsUnderWay' /\ LeftToSome'
BY DEF InSweep, ListedIsUnderWay, LeftToSome

\* Where no node run is taken back from its end, nor begun before its sources' end.
LEMMA InOrderKept ==
    ASSUME InOrder, Clean' => Clean, dag' = dag,
           Clean' => \A n \in Nodes :
               /\ record[n] \in OverSays => record'[n] \in OverSays
               /\ record'[n] \in BegunSays =>
                      record[n] \in BegunSays \/ \A m \in Into(n) : record'[m] \in OverSays
    PROVE  InOrder'
<1> SUFFICES ASSUME Clean', NEW n \in Nodes, record'[n] \in BegunSays, NEW m \in Into(n)
             PROVE  record'[m] \in OverSays
  BY DEF InOrder, Into
<1>1. m \in Nodes
  BY DEF Into
<1>2. CASE record[n] \in BegunSays
  BY <1>1, <1>2 DEF InOrder
<1> QED BY <1>2

\* Seeing a stop, and looking at what is ready.
LEMMA SeeStopRecord ==
    ASSUME IInv, RecordInv, SeeStop
    PROVE  RecordInv'
<1> USE SweepParts
<1>0. TypeOK
  BY DEF IInv
<1>1. /\ UNCHANGED <<record, runStatus, created, lost, overtaken, dag, pc>> /\ InSweep'
      /\ pc = "sweeping"
  BY DEF SeeStop, writes, history, InSweep
<1>2. /\ sweep'.result = sweep.result /\ sweep'.task = sweep.task /\ sweep'.holding = sweep.holding
  BY <1>0 DEF SeeStop, TypeOK, Sweeps
<1>3. AllRelated' /\ InOrder'
  BY <1>1 DEF RecordInv, AllRelated, Unrelated, InOrder, Clean, Into
<1>4. TasksInOrder' /\ HeldIsThrough' /\ SweepFollows'
  BY <1>1, <1>2 DEF RecordInv, TasksInOrder, HeldIsThrough, SweepFollows, InSweep, Into, Settled, Clean
<1> QED BY <1>1, <1>3, <1>4, SweepingSeesToAll DEF RecordInv

LEMMA LookRecord ==
    ASSUME IInv, RecordInv, Look
    PROVE  RecordInv'
<1> USE SweepParts
<1>0. TypeOK
  BY DEF IInv
<1>1. /\ UNCHANGED <<overtaken, dag, pc>> /\ InSweep' /\ InSweep /\ pc = "sweeping"
  BY DEF Look, history, InSweep
<1>2. \A n \in Nodes :
         /\ sweep'.result[n] = IF n \in NotTaken THEN "notTaken" ELSE sweep.result[n]
         /\ sweep'.task[n] = IF n \in Ready \ NotTaken THEN "queued" ELSE sweep.task[n]
  BY <1>0 DEF Look, TypeOK, Sweeps
<1>3. sweep'.holding = sweep.holding
  BY <1>0 DEF Look, TypeOK, Sweeps
<1>4. Clean' => /\ Clean /\ AllRelated'
                /\ \A n \in Nodes : record'[n] = IF n \in NotTaken THEN "notTaken" ELSE record[n]
  <2>1. /\ NotTaken \in SUBSET Nodes /\ "notTaken" \in Statuses \ {"none"} /\ runStatus \in RunStatuses
        /\ Write(Of(NotTaken, "notTaken"), runStatus) /\ AllRelated
    BY <1>0 DEF Look, NotTaken, Ready, Pending, TypeOK, Statuses, Results, RecordInv
  <2> DEFINE status == runStatus
  <2>2. status \in RunStatuses /\ Write(Of(NotTaken, "notTaken"), status)
    BY <2>1
  <2> HIDE DEF status
  <2> QED BY <1>0, <1>1, <2>1, <2>2, CleanWriteOf
<1>5. \A n \in NotTaken : sweep.result[n] = "none" /\ sweep.task[n] = "none"
  BY DEF NotTaken, Ready, Pending
<1>6. TasksInOrder'
  <2> SUFFICES ASSUME NEW n \in Nodes, sweep'.task[n] # "none"
               PROVE  sweep'.result[n] = "none" /\ \A m \in Into(n)' : Settled(m)'
    BY DEF TasksInOrder
  <2>1. Into(n)' = Into(n) /\ \A m \in Into(n) : m \in Nodes
    BY <1>1 DEF Into
  <2>2. \A m \in Nodes : Settled(m) => Settled(m)'
    BY <1>2 DEF Settled
  <2>3. CASE n \in Ready \ NotTaken
    BY <1>2, <2>1, <2>2, <2>3 DEF Ready, Pending
  <2>4. CASE n \notin Ready \ NotTaken
    BY <1>1, <1>2, <1>5, <2>1, <2>2, <2>4 DEF RecordInv, TasksInOrder
  <2> QED BY <2>3, <2>4
<1>7. HeldIsThrough'
  BY <1>1 DEF HeldIsThrough
<1>8. SweepFollows'
  BY <1>1, <1>2, <1>3, <1>4, <1>5 DEF RecordInv, SweepFollows, BegunSays
<1>9. InOrder'
  <2>1. Clean' => \A n \in Nodes :
               /\ record[n] \in OverSays => record'[n] \in OverSays
               /\ record'[n] \in BegunSays => record[n] \in BegunSays
    BY <1>4 DEF OverSays, BegunSays
  <2> QED BY <1>1, <1>4, <2>1, InOrderKept DEF RecordInv
<1>10. AllRelated'
  BY <1>4 DEF AllRelated
<1> QED BY <1>1, <1>6, <1>7, <1>8, <1>9, <1>10, SweepingSeesToAll DEF RecordInv

\* Taking an answer.
LEMMA TakeRecord ==
    ASSUME IInv, RecordInv, NEW k \in Nodes, Take(k)
    PROVE  RecordInv'
<1> USE SweepParts
<1>0. TypeOK
  BY DEF IInv
<1>1. /\ UNCHANGED <<overtaken, dag, pc>> /\ InSweep' /\ InSweep /\ pc = "sweeping"
      /\ sweep.task[k] \in Answered
  BY DEF Take, history, InSweep
<1>2. \A n \in Nodes :
         /\ sweep'.result[n] = IF n = k THEN sweep.task[k] ELSE sweep.result[n]
         /\ sweep'.task[n] = IF n = k THEN "none" ELSE sweep.task[n]
  BY <1>0 DEF Take, TypeOK, Sweeps
<1>3. sweep'.holding = sweep.holding
  BY <1>0 DEF Take, TypeOK, Sweeps
<1>4. Clean' => /\ Clean /\ AllRelated'
                /\ \A n \in Nodes : record'[n] = IF n = k THEN sweep.task[k] ELSE record[n]
  <2> DEFINE status == runStatus
             v == sweep.task[k]
             ns == {k}
  <2>1. /\ ns \in SUBSET Nodes /\ v \in Statuses \ {"none"} /\ status \in RunStatuses
        /\ Write(Of(ns, v), status) /\ AllRelated
    BY <1>0, <1>1 DEF Take, TypeOK, Statuses, Results, Answered, RecordInv
  <2>2. \A n \in Nodes : n \in ns <=> n = k
    OBVIOUS
  <2> HIDE DEF status, v, ns
  <2>3. Clean' => /\ Clean /\ AllRelated'
                  /\ \A n \in Nodes : record'[n] = IF n \in ns THEN v ELSE record[n]
    BY <1>0, <1>1, <2>1, CleanWriteOf
  <2> QED BY <2>2, <2>3 DEF v
<1>5. sweep.task[k] # "none" /\ sweep.result[k] = "none"
  BY <1>1 DEF RecordInv, TasksInOrder, Answered
<1>6. TasksInOrder'
  <2> SUFFICES ASSUME NEW n \in Nodes, sweep'.task[n] # "none"
               PROVE  sweep'.result[n] = "none" /\ \A m \in Into(n)' : Settled(m)'
    BY DEF TasksInOrder
  <2>1. Into(n)' = Into(n) /\ \A m \in Into(n) : m \in Nodes
    BY <1>1 DEF Into
  <2>2. n # k /\ sweep.result[n] = "none" /\ \A m \in Into(n) : Settled(m)
    BY <1>1, <1>2 DEF RecordInv, TasksInOrder
  <2>3. \A m \in Into(n) : m # k
    BY <1>5, <2>2 DEF Settled
  <2> QED BY <1>2, <2>1, <2>2, <2>3 DEF Settled
<1>7. HeldIsThrough'
  BY <1>1 DEF HeldIsThrough
<1>8. SweepFollows'
  BY <1>1, <1>2, <1>3, <1>4, <1>5 DEF RecordInv, SweepFollows, BegunSays
<1>9. InOrder'
  <2>1. Clean' => record[k] \notin OverSays /\ sweep.task[k] \notin BegunSays
    BY <1>1, <1>4, <1>5 DEF RecordInv, SweepFollows, BegunSays, OverSays, Answered
  <2>2. Clean' => \A n \in Nodes :
               /\ record[n] \in OverSays => record'[n] \in OverSays
               /\ record'[n] \in BegunSays => record[n] \in BegunSays
    BY <1>4, <2>1
  <2> QED BY <1>1, <1>4, <2>2, InOrderKept DEF RecordInv
<1>10. AllRelated'
  BY <1>4 DEF AllRelated
<1> QED BY <1>1, <1>6, <1>7, <1>8, <1>9, <1>10, SweepingSeesToAll DEF RecordInv

\* What a node's task does: the node stays the sweep's, and is recorded under way.
LEMMA NodeStepDoes ==
    ASSUME IInv, RecordInv, NEW k \in Nodes, NodeStep(k)
    PROVE  /\ UNCHANGED <<overtaken, dag, pc, tasks>> /\ pc = "sweeping"
           /\ sweep'.result = sweep.result /\ sweep'.holding = sweep.holding
           /\ sweep'.halted = sweep.halted
           /\ sweep.task[k] # "none" /\ sweep'.task[k] # "none"
           /\ \A n \in Nodes \ {k} : sweep'.task[n] = sweep.task[n]
           /\ Clean' => /\ Clean /\ AllRelated' /\ runStatus' = runStatus
                        /\ \A n \in Nodes : \/ record'[n] = record[n]
                                            \/ n = k /\ record'[n] \in {"running", "trying"}
<1> USE SweepParts
<1>0. TypeOK /\ AllRelated
  BY DEF IInv, RecordInv
<1>1. /\ UNCHANGED <<overtaken, dag, pc, tasks>> /\ sweep.task[k] # "none"
  BY DEF NodeStep, Begin, StartAttempt, Answers, Unreached, history
<1>2. pc = "sweeping"
  <2>1. ~AtRest /\ Calling # {}
    BY <1>1 DEF IInv, RestIsIdle, Calling
  <2> QED BY <1>0, <2>1 DEF AtRest, RecordInv, HeldIsThrough, TypeOK
<1>3. /\ sweep'.result = sweep.result /\ sweep'.holding = sweep.holding /\ sweep'.halted = sweep.halted
      /\ \A n \in Nodes \ {k} : sweep'.task[n] = sweep.task[n]
      /\ sweep'.task[k] # "none"
  BY <1>0 DEF NodeStep, Begin, StartAttempt, Answers, Unreached, TypeOK, Sweeps
<1>4. ASSUME Clean', NEW v \in {"running", "trying"}, Write(Of({k}, v), runStatus)
      PROVE  /\ Clean /\ AllRelated' /\ runStatus' = runStatus
             /\ \A n \in Nodes : \/ record'[n] = record[n]
                                 \/ n = k /\ record'[n] \in {"running", "trying"}
  <2> DEFINE status == runStatus
             ns == {k}
  <2>1. /\ ns \in SUBSET Nodes /\ v \in Statuses \ {"none"} /\ status \in RunStatuses
        /\ Write(Of(ns, v), status)
    BY <1>0, <1>4 DEF TypeOK, Statuses
  <2>2. \A n \in Nodes : n \in ns <=> n = k
    OBVIOUS
  <2> HIDE DEF status, ns
  <2>3. /\ Clean /\ AllRelated' /\ runStatus' = status
        /\ \A n \in Nodes : record'[n] = IF n \in ns THEN v ELSE record[n]
    BY <1>0, <1>1, <1>4, <2>1, CleanWriteOf
  <2> QED BY <2>2, <2>3 DEF status
<1>5. ASSUME Clean', UNCHANGED writes
      PROVE  /\ Clean /\ AllRelated' /\ runStatus' = runStatus
             /\ \A n \in Nodes : record'[n] = record[n]
  BY <1>0, <1>1, <1>5 DEF writes, Clean, AllRelated, Unrelated
<1>6. UNCHANGED writes \/ \E v \in {"running", "trying"} : Write(Of({k}, v), runStatus)
  BY DEF NodeStep, Begin, StartAttempt, Answers, Unreached
<1> QED BY <1>1, <1>2, <1>3, <1>4, <1>5, <1>6

LEMMA NodeStepRecord ==
    ASSUME IInv, RecordInv, NEW k \in Nodes, NodeStep(k)
    PROVE  RecordInv'
<1> USE NodeStepDoes
<1>1. InSweep /\ InSweep'
  BY DEF InSweep
<1>2. TasksInOrder'
  <2> SUFFICES ASSUME NEW n \in Nodes, sweep'.task[n] # "none"
               PROVE  sweep'.result[n] = "none" /\ \A m \in Into(n)' : Settled(m)'
    BY DEF TasksInOrder
  <2>1. sweep.task[n] # "none"
    OBVIOUS
  <2>2. sweep.result[n] = "none" /\ \A m \in Into(n) : Settled(m)
    BY <1>1, <2>1 DEF RecordInv, TasksInOrder
  <2> QED BY <2>2 DEF Into, Settled
<1>3. HeldIsThrough'
  BY DEF HeldIsThrough
<1>4. sweep.result[k] = "none"
  BY <1>1 DEF RecordInv, TasksInOrder
<1>5. SweepFollows'
  BY <1>1, <1>4 DEF RecordInv, SweepFollows, BegunSays
<1>6. InOrder'
  <2>1. \A m \in Into(k) : m \in Nodes /\ Settled(m)
    BY <1>1 DEF RecordInv, TasksInOrder, Into
  <2>2. Clean' => \A m \in Into(k) : record[m] \in OverSays
    <3> SUFFICES ASSUME Clean', NEW m \in Into(k) PROVE record[m] \in OverSays
      OBVIOUS
    <3>1. TypeOK /\ m \in Nodes /\ Settled(m) /\ Clean
      BY <2>1 DEF IInv
    <3>2. record[m] = sweep.result[m]
      BY <1>1, <3>1 DEF RecordInv, SweepFollows, Settled
    <3> QED BY <3>1, <3>2, SweepParts DEF Settled, OverSays, Results, Answered
  <2>3. Clean' => record[k] \notin OverSays
    BY <1>1, <1>4 DEF RecordInv, SweepFollows, BegunSays, OverSays
  <2>4. \A m \in Into(k) : m # k
    BY <1>4, <2>1 DEF Settled
  <2>5. Clean' => \A n \in Nodes :
               /\ record[n] \in OverSays => record'[n] \in OverSays
               /\ record'[n] \in BegunSays =>
                      record[n] \in BegunSays \/ \A m \in Into(n) : record'[m] \in OverSays
    BY <2>1, <2>2, <2>3, <2>4
  <2> QED BY <2>5, InOrderKept DEF RecordInv
<1>7. AllRelated'
  BY DEF AllRelated
<1> QED BY <1>1, <1>2, <1>3, <1>5, <1>6, <1>7, SweepingSeesToAll DEF RecordInv

\* Making the record whole finds it so where nothing was lost.
LEMMA WriteRecordAgainRecord ==
    ASSUME IInv, RecordInv, WriteRecordAgain
    PROVE  /\ RecordInv'
           /\ Clean' => UNCHANGED <<record, runStatus>> /\ pc' = "holding" /\ sweep'.result = sweep.result
<1> USE SweepParts
<1>0. TypeOK /\ AllRelated
  BY DEF IInv, RecordInv
<1>1. /\ UNCHANGED <<overtaken, dag, tasks>> /\ InSweep' /\ InSweep /\ pc = "sweeping"
      /\ Calling = {} /\ Ready = {} /\ ~sweep.halted /\ pc' \in {"holding", "failing"}
  BY DEF WriteRecordAgain, Through, history, InSweep
<1>2. /\ \A n \in Nodes : sweep'.result[n] = IF n \in Unrecorded(record') THEN "failed" ELSE sweep.result[n]
      /\ sweep'.task = sweep.task /\ sweep'.holding = sweep.holding
      /\ sweep'.halted = (Unrecorded(record') # {})
      /\ pc' = IF Unrecorded(record') = {} THEN "holding" ELSE "failing"
      /\ sweep'.result \in [Nodes -> Results]
  BY <1>0 DEF WriteRecordAgain, TypeOK, Sweeps, Results, Answered
<1>3. Clean' => Clean /\ AllRelated' /\ runStatus' = runStatus
                /\ \A n \in Nodes : record'[n] = IF n \in Unrecorded(record) THEN sweep.result[n] ELSE record[n]
  <2> DEFINE status == runStatus
             ns == Unrecorded(record)
             written == [n \in ns |-> sweep.result[n]]
  <2>1. /\ ns \in SUBSET Nodes /\ written \in [ns -> Statuses \ {"none"}] /\ status \in RunStatuses
        /\ \A n \in ns : written[n] = sweep.result[n]
    BY <1>0 DEF Unrecorded, Statuses, Results, Answered, TypeOK
  <2>2. Write(written, status)
    BY DEF WriteRecordAgain
  <2> HIDE DEF status, ns, written
  <2>3. Clean' => Clean /\ AllRelated' /\ runStatus' = status
                  /\ \A n \in Nodes : record'[n] = IF n \in ns THEN written[n] ELSE record[n]
    BY <1>0, <1>1, <2>1, <2>2, CleanWrite
  <2> QED BY <2>1, <2>3 DEF status, ns
<1>4. Clean' => Unrecorded(record) = {}
  BY <1>1, <1>3 DEF RecordInv, SweepFollows, Unrecorded
<1>5. Clean' => record' = record
  <2>1. record \in [Nodes -> Statuses]
    BY <1>0 DEF TypeOK
  <2>2. Clean' => \A n \in Nodes : record'[n] = record[n]
    BY <1>3, <1>4
  <2>3. \E f : record' = [n \in Nodes |-> f[n]]
    <3>1. PICK failing \in SUBSET Unrecorded(record) :
             record' = [n \in Nodes |-> IF n \in Unrecorded(record) \ failing /\ ~Unrelated(n)
                                        THEN [m \in Unrecorded(record) |-> sweep.result[m]][n]
                                        ELSE record[n]]
      BY DEF WriteRecordAgain, Write
    <3> QED BY <3>1
  <2> QED BY <2>1, <2>2, <2>3
<1>6. Clean' => Unrecorded(record') = {}
  BY <1>4, <1>5 DEF Unrecorded
<1>7. TasksInOrder'
  BY <1>1, <1>2 DEF TasksInOrder, Calling
<1>8. Clean' => pc' = "holding" /\ sweep'.result = sweep.result
  <2>1. Clean' => pc' = "holding" /\ \A n \in Nodes : sweep'.result[n] = sweep.result[n]
    BY <1>2, <1>6
  <2>2. sweep.result \in [Nodes -> Results] /\ sweep'.result \in [Nodes -> Results]
    BY <1>0, <1>2, SweepParts
  <2>3. (\A n \in Nodes : sweep'.result[n] = sweep.result[n]) => sweep'.result = sweep.result
    BY <2>2
  <2> QED BY <2>1, <2>3
<1>9. HeldIsThrough'
  <2>1. Calling' = {}
    BY <1>1, <1>2 DEF Calling
  <2>2. ~sweep'.halted => \A n \in Nodes : sweep'.result[n] = sweep.result[n]
    BY <1>2
  <2>3. ~sweep'.halted => Ready' = {}
    <3> SUFFICES ASSUME ~sweep'.halted, NEW n \in Ready' PROVE FALSE
      OBVIOUS
    <3>1. /\ n \in Nodes /\ sweep'.result[n] = "none" /\ sweep'.task[n] = "none"
          /\ \A m \in Into(n)' : Settled(m)'
      BY DEF Ready, Pending
    <3>2. Into(n)' = Into(n) /\ \A m \in Into(n) : m \in Nodes
      BY <1>1 DEF Into
    <3>3. n \in Ready
      BY <1>2, <2>2, <3>1, <3>2 DEF Ready, Pending, Settled
    <3> QED BY <1>1, <3>3
  <2>4. pc' = "failing" => sweep'.halted
    BY <1>2
  <2> QED BY <2>1, <2>3, <2>4 DEF HeldIsThrough
<1>10. SweepFollows'
  <2> SUFFICES ASSUME Clean' PROVE SweepFollows'
    BY DEF SweepFollows
  <2> QED BY <1>1, <1>2, <1>3, <1>5, <1>8 DEF RecordInv, SweepFollows
<1>11. InOrder' /\ AllRelated'
  BY <1>1, <1>3, <1>5 DEF RecordInv, InOrder, AllRelated, Into
<1> QED BY <1>1, <1>3, <1>5, <1>7, <1>8, <1>9, <1>10, <1>11, SweepingSeesToAll DEF RecordInv

\* Placing a vigil leaves the record alone; one that is refused fails its node.
LEMMA PlaceDoes ==
    ASSUME IInv, RecordInv, NEW k \in Nodes, Place(k)
    PROVE  /\ UNCHANGED <<record, runStatus, created, lost, overtaken, dag, pc, tasks>>
           /\ pc = "holding" /\ k \notin sweep.holding /\ sweep.result[k] = "waiting"
           /\ sweep'.task = sweep.task /\ sweep'.holding = sweep.holding
           /\ \/ sweep' = sweep
              \/ /\ \A n \in Nodes : sweep'.result[n] = IF n = k THEN "failed" ELSE sweep.result[n]
                 /\ sweep'.halted
<1>0. TypeOK
  BY DEF IInv
<1>1. CASE sweep' = sweep
  BY <1>1 DEF Place, Waiting, writes, history
<1>2. CASE sweep' = [sweep EXCEPT !.result[k] = "failed", !.halted = TRUE]
  <2>1. /\ \A n \in Nodes : sweep'.result[n] = IF n = k THEN "failed" ELSE sweep.result[n]
        /\ sweep'.halted /\ sweep'.task = sweep.task /\ sweep'.holding = sweep.holding
    BY <1>0, <1>2 DEF TypeOK, Sweeps
  <2> QED BY <2>1 DEF Place, Waiting, writes, history
<1> QED BY <1>1, <1>2 DEF Place

LEMMA PlaceRecord ==
    ASSUME IInv, RecordInv, NEW k \in Nodes, Place(k)
    PROVE  RecordInv'
<1> USE PlaceDoes
<1>1. InSweep /\ InSweep'
  BY DEF InSweep
<1>2. AllRelated' /\ InOrder'
  BY DEF RecordInv, AllRelated, Unrelated, InOrder, Clean, Into
<1>3. TasksInOrder' /\ HeldIsThrough'
  BY <1>1 DEF RecordInv, TasksInOrder, HeldIsThrough, Calling, Ready, Pending, Settled, Into
<1>4. SweepFollows'
  BY <1>1 DEF RecordInv, SweepFollows, Clean
<1> QED BY <1>1, <1>2, <1>3, <1>4, SweepingSeesToAll DEF RecordInv

\* Relating a vigil, and failing what was refused one.
LEMMA HoldRecord ==
    ASSUME IInv, RecordInv, EarlyIsKept, NEW k \in Nodes, Hold(k)
    PROVE  /\ RecordInv'
           /\ UNCHANGED <<record, runStatus, created, lost, overtaken, dag, pc>>
           /\ sweep'.result = sweep.result /\ sweep'.holding = sweep.holding \union {k}
<1>0. TypeOK
  BY DEF IInv
<1>1. /\ UNCHANGED <<record, runStatus, created, lost, overtaken, dag, pc>> /\ pc = "holding"
      /\ InSweep /\ InSweep'
  BY DEF Hold, writes, history, InSweep
<1>2. /\ sweep'.result = sweep.result /\ sweep'.task = sweep.task /\ sweep'.halted = sweep.halted
      /\ sweep'.holding = sweep.holding \union {k}
  BY <1>0 DEF Hold, TypeOK, Sweeps
<1>3. AllRelated' /\ InOrder'
  BY <1>1 DEF RecordInv, AllRelated, Unrelated, InOrder, Clean, Into
<1>4. TasksInOrder' /\ HeldIsThrough'
  BY <1>1, <1>2 DEF RecordInv, TasksInOrder, HeldIsThrough, Calling, Ready, Pending, Settled, Into
<1>5. sweep.result[k] = "waiting"
  BY <1>1 DEF Hold, EarlyIsKept
<1>6. SweepFollows'
  BY <1>1, <1>2, <1>5 DEF RecordInv, SweepFollows, Clean
<1> QED BY <1>1, <1>2, <1>3, <1>4, <1>6, SweepingSeesToAll DEF RecordInv

\* A sweep whose waits are all held left nothing begun, and what it did not reach is behind
\* a wait: the record can be gone on from.
LEMMA HeldCanGoOn ==
    ASSUME IInv, RecordInv, Clean, pc = "holding", ~sweep.halted
    PROVE  /\ \A n \in Nodes : record[n] \notin BegunSays
           /\ ~CannotGoOn(record, FALSE)
<1> USE SweepParts
<1>0. TypeOK /\ InSweep
  BY DEF IInv, InSweep
<1>1. \A n \in Nodes : sweep.result[n] = "none" => \E m \in Into(n) : ~Settled(m)
  <2>1. Calling = {} /\ Ready = {}
    BY DEF RecordInv, HeldIsThrough
  <2> QED BY <2>1 DEF Calling, Ready, Pending
<1>2. \A m \in Nodes : ~Settled(m) => record[m] = "waiting" \/ sweep.result[m] = "none"
  BY <1>0 DEF Settled, RecordInv, SweepFollows
<1>3. \A n \in Nodes : sweep.result[n] = "none" => record[n] \in BegunSays \union {"none"}
  BY <1>0 DEF RecordInv, SweepFollows
<1>4. \A n \in Nodes : record[n] \in BegunSays \union {"none"} => sweep.result[n] = "none"
  BY <1>0 DEF RecordInv, SweepFollows, BegunSays, TypeOK, Results, Answered
<1>5. \A n \in Nodes : record[n] \notin BegunSays
  <2> SUFFICES ASSUME NEW n \in Nodes, record[n] \in BegunSays PROVE FALSE
    OBVIOUS
  <2>1. PICK m \in Into(n) : ~Settled(m)
    BY <1>1, <1>4
  <2>2. m \in Nodes /\ record[m] \in OverSays
    BY <2>1 DEF Into, RecordInv, InOrder
  <2> QED BY <1>2, <1>3, <2>1, <2>2 DEF OverSays, BegunSays
<1>6. Caught(record) = {}
  BY <1>5 DEF Caught, BegunSays
<1>7. Missing(record) = {}
  <2> SUFFICES ASSUME Missing(record) # {} PROVE FALSE
    OBVIOUS
  <2> DEFINE ns == Missing(record)
             behind == Downstream(UnderWay(record))
  <2>1. ns \in (SUBSET Nodes) \ {{}} /\ Acyclic(dag.wires)
    BY <1>0, LifecycleAssumption DEF Missing, TypeOK
  <2>2. PICK n \in ns : \A w \in dag.wires : w[2] = n => w[1] \notin ns
    BY <2>1 DEF Acyclic
  <2>3. n \in Nodes /\ record[n] = "none" /\ n \notin behind
    BY <2>1, <2>2 DEF Missing
  <2>4. PICK m \in Into(n) : ~Settled(m)
    BY <1>1, <1>4, <2>3
  <2>5. m \in Nodes /\ <<m, n>> \in dag.wires /\ m \notin ns
    <3>1. m \in Nodes /\ <<m, n>> \in dag.wires
      BY <2>4 DEF Into
    <3>2. <<m, n>>[1] = m /\ <<m, n>>[2] = n
      OBVIOUS
    <3> QED BY <2>2, <3>1, <3>2
  <2>6. CASE record[m] = "waiting"
    <3>1. m \in UnderWay(record)
      BY <2>5, <2>6 DEF UnderWay
    <3>2. \A c \in SUBSET Nodes :
             (\A w \in dag.wires : w[1] \in UnderWay(record) \union c => w[2] \in c) => n \in c
      BY <2>5, <3>1
    <3> QED BY <2>3, <3>2 DEF Downstream
  <2>7. CASE record[m] # "waiting"
    <3>1. record[m] = "none"
      BY <1>2, <1>3, <1>5, <2>4, <2>5, <2>7
    <3>2. m \in behind
      BY <2>5, <3>1 DEF Missing
    <3>3. \A c \in SUBSET Nodes :
             (\A w \in dag.wires : w[1] \in UnderWay(record) \union c => w[2] \in c) => m \in c
      BY <3>2 DEF Downstream
    <3>4. \A c \in SUBSET Nodes :
             (\A w \in dag.wires : w[1] \in UnderWay(record) \union c => w[2] \in c) => n \in c
      BY <2>5, <3>3
    <3> QED BY <2>3, <3>4 DEF Downstream
  <2> QED BY <2>6, <2>7
<1> QED BY <1>5, <1>6, <1>7 DEF CannotGoOn

\* Where nobody sweeps, the sweep's own part holds of itself.
LEMMA NobodySweeps ==
    ASSUME pc' \in {"free", "recovering"}
    PROVE  TasksInOrder' /\ HeldIsThrough' /\ SweepFollows'
BY DEF TasksInOrder, HeldIsThrough, SweepFollows, InSweep

LEMMA HoldEndsRecord ==
    ASSUME IInv, RecordInv, HoldEnds
    PROVE  RecordInv'
<1>0. TypeOK /\ AllRelated
  BY DEF IInv, RecordInv
<1>1. CASE sweep.halted
  <2>1. /\ UNCHANGED <<record, runStatus, created, lost, overtaken, dag, sweep>> /\ pc = "holding"
        /\ pc' = "failing"
    BY <1>1 DEF HoldEnds, writes, history
  <2>2. InSweep /\ InSweep'
    BY <2>1 DEF InSweep
  <2>3. AllRelated' /\ InOrder'
    BY <2>1 DEF RecordInv, AllRelated, Unrelated, InOrder, Clean, Into
  <2>4. TasksInOrder' /\ HeldIsThrough' /\ SweepFollows'
    BY <1>1, <2>1, <2>2 DEF RecordInv, TasksInOrder, HeldIsThrough, SweepFollows, Calling, Settled,
                            Into, Clean
  <2> QED BY <2>2, <2>3, <2>4, SweepingSeesToAll DEF RecordInv
<1>2. CASE ~sweep.halted
  <2>1. /\ UNCHANGED <<overtaken, dag>> /\ pc = "holding" /\ pc' = "free"
        /\ Write(Of({}, "none"), "waiting")
    BY <1>2 DEF HoldEnds, history
  <2>2. Clean' => /\ Clean /\ AllRelated' /\ runStatus' = "waiting"
                  /\ \A n \in Nodes : record'[n] = record[n]
    <3>1. "waiting" \in RunStatuses
      BY DEF RunStatuses
    <3> QED BY <1>0, <2>1, <3>1, CleanWriteNone
  <2>3. Clean' => \A n \in Nodes : record'[n] \notin BegunSays
    BY <1>2, <2>1, <2>2, HeldCanGoOn
  <2>4. Clean' => ~CannotGoOn(record, FALSE)'
    <3> SUFFICES ASSUME Clean' PROVE ~CannotGoOn(record, FALSE)'
      OBVIOUS
    <3>1. ~CannotGoOn(record, FALSE) /\ \A n \in Nodes : record'[n] = record[n]
      BY <1>2, <2>1, <2>2, HeldCanGoOn
    <3>2. UnderWay(record)' = UnderWay(record) /\ dag' = dag
      BY <2>1, <3>1 DEF UnderWay
    <3>3. Downstream(UnderWay(record))' = Downstream(UnderWay(record))
      BY <3>2 DEF Downstream
    <3>4. Missing(record)' = Missing(record) /\ Caught(record)' = Caught(record)
      BY <3>1, <3>2, <3>3 DEF Missing, Caught
    <3> QED BY <3>1, <3>2, <3>4 DEF CannotGoOn
  <2>5. InOrder'
    BY <2>3 DEF InOrder
  <2>6. ListedIsUnderWay' /\ LeftToSome'
    BY <2>1, <2>3, <2>4 DEF ListedIsUnderWay, LeftToSome, BegunSays
  <2>7. AllRelated'
    BY <2>2 DEF AllRelated
  <2> QED BY <2>1, <2>5, <2>6, <2>7, NobodySweeps DEF RecordInv
<1> QED BY <1>1, <1>2

LEMMA FailUnheldRecord ==
    ASSUME IInv, RecordInv, FailUnheld
    PROVE  /\ RecordInv'
           /\ Clean' => /\ runStatus' = runStatus
                        /\ \A n \in Nodes : record'[n] = record[n] \/ record'[n] = "failed"
<1> DEFINE ns == {n \in Nodes : sweep.result[n] = "failed" /\ record[n] # "failed"}
<1>0. TypeOK /\ AllRelated
  BY DEF IInv, RecordInv
<1>1. /\ UNCHANGED <<overtaken, dag, sweep>> /\ pc = "failing" /\ pc' = "sweeping"
      /\ InSweep /\ InSweep'
  BY DEF FailUnheld, history, InSweep
<1>2. Clean' => /\ Clean /\ AllRelated' /\ runStatus' = runStatus
                /\ \A n \in Nodes : record'[n] = IF n \in ns THEN "failed" ELSE record[n]
  <2> DEFINE status == runStatus
  <2>1. "failed" \in Statuses \ {"none"} /\ status \in RunStatuses /\ ns \in SUBSET Nodes
    BY <1>0 DEF TypeOK, Statuses, Results, Answered
  <2>2. Write(Of(ns, "failed"), status)
    BY DEF FailUnheld
  <2> HIDE DEF ns, status
  <2>3. Clean' => /\ Clean /\ AllRelated' /\ runStatus' = status
                  /\ \A n \in Nodes : record'[n] = IF n \in ns THEN "failed" ELSE record[n]
    BY <1>0, <1>1, <2>1, <2>2, CleanWriteOf
  <2> QED BY <2>3 DEF status
<1>3. TasksInOrder' /\ HeldIsThrough'
  BY <1>1 DEF RecordInv, TasksInOrder, HeldIsThrough, Settled, Into
<1>4. SweepFollows'
  BY <1>1, <1>2 DEF RecordInv, SweepFollows
<1>5. InOrder'
  <2>1. Clean' => \A n \in Nodes :
               /\ record[n] \in OverSays => record'[n] \in OverSays
               /\ record'[n] \in BegunSays => record[n] \in BegunSays
    BY <1>2 DEF OverSays, BegunSays
  <2> QED BY <1>1, <1>2, <2>1, InOrderKept DEF RecordInv
<1>6. AllRelated'
  BY <1>2 DEF AllRelated
<1> QED BY <1>1, <1>2, <1>3, <1>4, <1>5, <1>6, SweepingSeesToAll DEF RecordInv

\* The end of a sweep leaves nothing under way.
LEMMA CloseRecord ==
    ASSUME IInv, RecordInv, Close
    PROVE  RecordInv' /\ (Clean' => Finished(runStatus'))
<1> USE SweepParts
<1> DEFINE ns == {n \in Nodes : ~Settled(n)}
           v == IF sweep.stopped THEN "cancelled" ELSE "skipped"
           status == IF sweep.stopped THEN "cancelled" ELSE IF sweep.halted THEN "failed" ELSE "succeeded"
<1>0. TypeOK /\ AllRelated
  BY DEF IInv, RecordInv
<1>1. UNCHANGED <<overtaken, dag>> /\ pc = "sweeping" /\ pc' = "free" /\ InSweep
  BY DEF Close, Through, history, InSweep
<1>2. /\ v \in Statuses \ {"none"} /\ v \in OverSays /\ Finished(status)
      /\ ns \in SUBSET Nodes /\ status \in RunStatuses /\ Write(Of(ns, v), status)
  BY DEF Close, Statuses, Results, Answered, OverSays, Finished, RunStatuses
<1>3. \A n \in Nodes \ ns : Settled(n)
  OBVIOUS
<1> HIDE DEF ns, v, status
<1>4. Clean' => /\ Clean /\ AllRelated' /\ runStatus' = status
                /\ \A n \in Nodes : record'[n] = IF n \in ns THEN v ELSE record[n]
  BY <1>0, <1>1, <1>2, CleanWriteOf
<1>5. Clean' => \A n \in Nodes : record'[n] \in OverSays
  <2> SUFFICES ASSUME Clean', NEW n \in Nodes, n \notin ns PROVE record[n] \in OverSays
    BY <1>2, <1>4
  <2>1. Settled(n) /\ record[n] = sweep.result[n]
    BY <1>1, <1>3, <1>4 DEF Settled, RecordInv, SweepFollows
  <2> QED BY <1>0, <2>1 DEF Settled, Results, Answered, OverSays
<1>6. InOrder'
  BY <1>5 DEF InOrder, BegunSays, OverSays
<1>7. ListedIsUnderWay' /\ LeftToSome'
  BY <1>1, <1>2, <1>4, <1>5 DEF ListedIsUnderWay, LeftToSome, OverSays
<1>8. AllRelated'
  BY <1>4 DEF AllRelated
<1> QED BY <1>1, <1>2, <1>4, <1>6, <1>7, <1>8, NobodySweeps DEF RecordInv

\* The record and what a sweep knows of it, where neither changes.
LEMMA SameRecord ==
    ASSUME RecordInv, UNCHANGED <<dag, record, created, pc, sweep>>, Clean' => Clean
    PROVE  AllRelated' /\ TasksInOrder' /\ HeldIsThrough' /\ SweepFollows' /\ InOrder'
<1>1. AllRelated' /\ InOrder'
  BY DEF RecordInv, AllRelated, Unrelated, InOrder, Into
<1>2. TasksInOrder' /\ HeldIsThrough' /\ SweepFollows'
  BY DEF RecordInv, TasksInOrder, HeldIsThrough, SweepFollows, Calling, Ready, Pending, Settled, Into,
         InSweep
<1> QED BY <1>1, <1>2

\* What leaves the record, whoever has the turn and the recovery alone keeps all of it.
LEMMA ElsewhereRecord ==
    ASSUME RecordInv, \A t \in tasks : t.kind = "sweep" => t \in tasks',
           UNCHANGED <<dag, record, runStatus, created, lost, pc, sweep, overtaken, recovery, todo>>
    PROVE  RecordInv'
<1>1. AllRelated' /\ TasksInOrder' /\ HeldIsThrough' /\ SweepFollows' /\ InOrder'
  BY SameRecord DEF Clean
<1>3. LeftToSome'
  BY DEF RecordInv, LeftToSome, Clean, InSweep
<1>4. CannotGoOn(record, FALSE)' = CannotGoOn(record, FALSE)
  BY DEF CannotGoOn, Missing, Caught, Downstream, UnderWay
<1>5. ListedIsUnderWay'
  BY <1>4 DEF RecordInv, ListedIsUnderWay, Clean, InSweep, Ended
<1> QED BY <1>1, <1>3, <1>5 DEF RecordInv

LEMMA AnswerStepRecord ==
    ASSUME RecordInv, NEW n \in Nodes, AnswerStep(n)
    PROVE  RecordInv'
<1>1. UNCHANGED <<dag, record, runStatus, created, lost, pc, sweep, overtaken, recovery, todo>>
  BY DEF AnswerStep, LookUp, KeepEarly, LookUpAgain, LookUpAgainIf, writes, starts, history
<1>2. tasks \subseteq tasks'
  BY DEF AnswerStep, LookUp, KeepEarly, LookUpAgain, LookUpAgainIf
<1> QED BY <1>1, <1>2, ElsewhereRecord

\* What a sweep starts from.
LEMMA SweepFromParts ==
    ASSUME NEW result \in [Nodes -> Results], NEW holding \in SUBSET Nodes
    PROVE  /\ SweepFrom(result, holding).result = result
           /\ SweepFrom(result, holding).holding = holding
           /\ ~SweepFrom(result, holding).halted
           /\ \A n \in Nodes : SweepFrom(result, holding).task[n] = "none"
BY DEF SweepFrom, Of

\* A sweep that takes a record up knows of each node what the record does.
LEMMA ProgressSays ==
    ASSUME NEW rec \in [Nodes -> Statuses], NEW n \in Nodes
    PROVE  /\ ProgressFrom(rec)[n] = "none" => rec[n] \in BegunSays \union {"none"}
           /\ ProgressFrom(rec)[n] # "none" => rec[n] = ProgressFrom(rec)[n]
           /\ rec[n] = "waiting" => ProgressFrom(rec)[n] = "waiting"
BY DEF ProgressFrom, BegunSays

\* What an answer to a wait does to the run: nothing where its node does not wait, and else the
\* run fails, or is taken up.
FailsRun == /\ UNCHANGED <<vigils, pc, sweep, revived>>
            /\ Clean' => /\ Clean /\ AllRelated' /\ runStatus' = "failed"
                         /\ \A n \in Nodes : record'[n] = record[n]

TakesRunUp(k) ==
    /\ pc' = "sweeping" /\ placing' = placing /\ vigil' = [vigil EXCEPT ![k] = "gone"]
    /\ revived' = (revived \/ Finished(runStatus))
    /\ \A n \in Nodes : /\ sweep'.result[n] = IF n = k THEN "succeeded" ELSE ProgressFrom(record)[n]
                        /\ sweep'.task[n] = "none"
    /\ ~sweep'.halted
    /\ sweep'.holding = {n \in Nodes \ {k} : record[n] = "waiting"}
    /\ Clean' => /\ Clean /\ AllRelated' /\ runStatus' = "running"
                 /\ \A n \in Nodes : record'[n] = IF n = k THEN "succeeded" ELSE record[n]

LEMMA ResumeDoes ==
    ASSUME IInv, AllRelated, NEW k \in Nodes, Resume(k)
    PROVE  /\ pc = "free" /\ tasks' = tasks \ {ResumeTask(k)}
           /\ UNCHANGED <<dag, overtaken, recovery, todo, answering, early, granted, calls, crashes>>
           /\ \/ record[k] # "waiting" /\ UNCHANGED <<writes, vigils, pc, sweep, revived>>
              \/ record[k] = "waiting" /\ FailsRun
              \/ record[k] = "waiting" /\ TakesRunUp(k)
<1>0. TypeOK
  BY DEF IInv
<1>1. /\ pc = "free" /\ tasks' = tasks \ {ResumeTask(k)}
      /\ UNCHANGED <<dag, overtaken, recovery, todo, answering, early, granted, calls, crashes>>
  BY DEF Resume, TakesTurn, answers, starts, asked
<1>2. CASE record[k] # "waiting"
  BY <1>1, <1>2 DEF Resume
<1>3. ASSUME record[k] = "waiting", CannotGoOn(record, FALSE) PROVE FailsRun
  <2>1. /\ Write(Of({}, "none"), "failed") /\ "failed" \in RunStatuses
        /\ UNCHANGED <<vigils, pc, sweep, revived>>
    BY <1>3 DEF Resume, RunStatuses
  <2>2. Clean' => /\ Clean /\ AllRelated' /\ runStatus' = "failed"
                  /\ \A n \in Nodes : record'[n] = record[n]
    BY <1>0, <1>1, <2>1, CleanWriteNone
  <2> QED BY <2>1, <2>2 DEF FailsRun
<1>4. ASSUME record[k] = "waiting", ~CannotGoOn(record, FALSE) PROVE TakesRunUp(k)
  <2> DEFINE res == [ProgressFrom(record) EXCEPT ![k] = "succeeded"]
             hold == {n \in Nodes \ {k} : record[n] = "waiting"}
             ns == {k}
             v == "succeeded"
             status == "running"
  <2>1. /\ Write(Of(ns, v), status) /\ pc' = "sweeping" /\ placing' = placing
        /\ sweep' = SweepFrom(res, hold)
        /\ vigil' = [vigil EXCEPT ![k] = "gone"] /\ revived' = (revived \/ Finished(runStatus))
    BY <1>4 DEF Resume
  <2>2. /\ ns \in SUBSET Nodes /\ v \in Statuses \ {"none"} /\ status \in RunStatuses
        /\ hold \in SUBSET Nodes /\ \A n \in Nodes : n \in ns <=> n = k
    BY DEF Statuses, Results, Answered, RunStatuses
  <2>3. /\ res \in [Nodes -> Results]
        /\ \A n \in Nodes : res[n] = IF n = k THEN v ELSE ProgressFrom(record)[n]
    BY <1>0, ProgressTypes DEF TypeOK, Results, Answered
  <2> HIDE DEF res, ns, v, status
  <2>4. Clean' => /\ Clean /\ AllRelated' /\ runStatus' = status
                  /\ \A n \in Nodes : record'[n] = IF n \in ns THEN v ELSE record[n]
    BY <1>0, <1>1, <2>1, <2>2, CleanWriteOf
  <2> HIDE DEF hold
  <2>5. /\ sweep'.result = res /\ sweep'.holding = hold /\ ~sweep'.halted
        /\ \A n \in Nodes : sweep'.task[n] = "none"
    BY <2>1, <2>2, <2>3, SweepFromParts
  <2>6. \A n \in Nodes : /\ sweep'.result[n] = IF n = k THEN "succeeded" ELSE ProgressFrom(record)[n]
                         /\ sweep'.task[n] = "none"
    BY <2>3, <2>5 DEF v
  <2>7. ~sweep'.halted /\ sweep'.holding = {n \in Nodes \ {k} : record[n] = "waiting"}
    BY <2>5 DEF hold
  <2>8. Clean' => /\ Clean /\ AllRelated' /\ runStatus' = "running"
                  /\ \A n \in Nodes : record'[n] = IF n = k THEN "succeeded" ELSE record[n]
    BY <2>2, <2>4 DEF v, status
  <2>9. /\ pc' = "sweeping" /\ placing' = placing /\ vigil' = [vigil EXCEPT ![k] = "gone"]
        /\ revived' = (revived \/ Finished(runStatus))
    BY <2>1
  <2> QED BY <2>6, <2>7, <2>8, <2>9, Zenon DEF TakesRunUp
<1> QED BY <1>1, <1>2, <1>3, <1>4, Zenon

\* A record that reads the same can be gone on from as before.
LEMMA SameRecordGoesOn ==
    ASSUME dag' = dag, \A n \in Nodes : record'[n] = record[n]
    PROVE  CannotGoOn(record, FALSE)' = CannotGoOn(record, FALSE)
<1>1. UnderWay(record)' = UnderWay(record)
  BY DEF UnderWay
<1>2. Downstream(UnderWay(record))' = Downstream(UnderWay(record))
  BY <1>1 DEF Downstream
<1>3. Missing(record)' = Missing(record) /\ Caught(record)' = Caught(record)
  BY <1>1, <1>2 DEF Missing, Caught
<1> QED BY <1>3 DEF CannotGoOn

LEMMA ResumeRecord ==
    ASSUME IInv, RecordInv, NEW k \in Nodes, Resume(k)
    PROVE  RecordInv'
<1>0. TypeOK /\ AllRelated
  BY DEF IInv, RecordInv
<1>1. /\ pc = "free" /\ tasks' = tasks \ {ResumeTask(k)}
      /\ UNCHANGED <<dag, overtaken, recovery, todo>>
  BY <1>0, ResumeDoes
<1>2. \A t \in tasks : t.kind = "sweep" => t \in tasks'
  BY <1>1 DEF ResumeTask
<1>3. CASE UNCHANGED <<writes, vigils, pc, sweep, revived>>
  BY <1>1, <1>2, <1>3, ElsewhereRecord DEF writes
<1>4. CASE record[k] = "waiting" /\ FailsRun
  <2>1. /\ UNCHANGED <<pc, sweep>>
        /\ Clean' => /\ Clean /\ AllRelated' /\ runStatus' = "failed"
                     /\ \A n \in Nodes : record'[n] = record[n]
    BY <1>4 DEF FailsRun
  <2>2. InOrder' /\ AllRelated'
    BY <1>1, <2>1, InOrderKept DEF RecordInv, AllRelated
  <2>3. LeftToSome'
    BY <2>1 DEF LeftToSome, Finished
  <2>4. ListedIsUnderWay'
    <3> SUFFICES ASSUME Clean', recovery' = "unfinished", NEW w \in todo'
                 PROVE  \/ record'[w.node] \in {"running", "trying"}
                        \/ \A n \in Nodes : record'[n] # "interrupted"
      BY <1>1, <2>1 DEF ListedIsUnderWay, Finished
    <3>1. w \in todo /\ w.node \in Nodes
      BY <1>0, <1>1 DEF TypeOK, Listed
    <3>2. Clean /\ ~InSweep
      BY <1>1, <2>1 DEF InSweep
    <3>3. ~Ended
      BY <1>4, <3>2 DEF IInv, EndedAtRest
    <3>4. \/ record[w.node] \in {"running", "trying"}
          \/ \A n \in Nodes : record[n] # "interrupted"
      BY <1>1, <3>1, <3>2, <3>3 DEF RecordInv, ListedIsUnderWay
    <3> QED BY <2>1, <3>1, <3>4
  <2> QED BY <1>1, <2>1, <2>2, <2>3, <2>4, NobodySweeps DEF RecordInv
<1>5. CASE TakesRunUp(k)
  <2>0. /\ pc' = "sweeping"
        /\ \A n \in Nodes : /\ sweep'.result[n] = IF n = k THEN "succeeded" ELSE ProgressFrom(record)[n]
                            /\ sweep'.task[n] = "none"
        /\ sweep'.holding = {n \in Nodes \ {k} : record[n] = "waiting"}
        /\ Clean' => /\ Clean /\ AllRelated'
                     /\ \A n \in Nodes : record'[n] = IF n = k THEN "succeeded" ELSE record[n]
    BY <1>5 DEF TakesRunUp
  <2>1. TasksInOrder' /\ HeldIsThrough' /\ InSweep'
    BY <2>0 DEF TasksInOrder, HeldIsThrough, InSweep
  <2>2. record \in [Nodes -> Statuses]
    BY <1>0 DEF TypeOK
  <2>3. SweepFollows'
    BY <2>0, <2>2, ProgressSays DEF SweepFollows
  <2>4. InOrder'
    <3>1. Clean' => \A n \in Nodes :
               /\ record[n] \in OverSays => record'[n] \in OverSays
               /\ record'[n] \in BegunSays => record[n] \in BegunSays
      BY <2>0 DEF OverSays, BegunSays
    <3> QED BY <1>1, <2>0, <3>1, InOrderKept DEF RecordInv
  <2>5. AllRelated'
    BY <2>0 DEF AllRelated
  <2> QED BY <2>1, <2>3, <2>4, <2>5, SweepingSeesToAll DEF RecordInv
<1> QED BY <1>0, <1>3, <1>4, <1>5, ResumeDoes
\* The sweep left to a task of its own finds the record as that task read it, or was overtaken.
LEMMA BackgroundDoes ==
    ASSUME TypeOK, AllRelated, NEW t, CarryOnInTheBackground(t)
    PROVE  /\ pc = "free" /\ pc' = "sweeping" /\ t.kind = "sweep" /\ tasks' = tasks \ {t}
           /\ UNCHANGED <<dag, writes, vigils, answers, starts, granted, revived, calls, crashes>>
           /\ Clean' => /\ Clean /\ t.rec = record /\ t.status = runStatus
           /\ t.rec = record =>
                 /\ sweep'.result = ProgressFrom(record)
                 /\ sweep'.holding = {n \in Nodes : record[n] = "waiting"}
           /\ ~sweep'.halted
           /\ \A n \in Nodes : sweep'.task[n] = "none"
<1>1. /\ pc = "free" /\ pc' = "sweeping" /\ t.kind = "sweep" /\ tasks' = tasks \ {t}
      /\ UNCHANGED <<dag, writes, vigils, answers, starts, granted, revived, calls, crashes>>
      /\ t \in tasks
      /\ overtaken' = (overtaken \/ t.rec # record \/ t.status # runStatus)
      /\ sweep' = SweepFrom(ProgressFrom(t.rec), {n \in Nodes : t.rec[n] = "waiting"})
  BY DEF CarryOnInTheBackground, TakesTurn, asked
<1>2. t.rec \in [Nodes -> Statuses]
  BY <1>1 DEF TypeOK, StopTask
<1>3. Clean' => /\ Clean /\ t.rec = record /\ t.status = runStatus
  BY <1>1 DEF Clean, writes
<1>4. ProgressFrom(t.rec) \in [Nodes -> Results]
  BY <1>2, ProgressTypes
<1> DEFINE hold == {n \in Nodes : t.rec[n] = "waiting"}
<1>5. hold \in SUBSET Nodes /\ sweep' = SweepFrom(ProgressFrom(t.rec), hold)
  BY <1>1
<1> HIDE DEF hold
<1>6. /\ sweep'.result = ProgressFrom(t.rec) /\ sweep'.holding = hold /\ ~sweep'.halted
      /\ \A n \in Nodes : sweep'.task[n] = "none"
  BY <1>4, <1>5, SweepFromParts
<1> QED BY <1>1, <1>3, <1>6 DEF hold

LEMMA BackgroundRecord ==
    ASSUME IInv, RecordInv, NEW t, CarryOnInTheBackground(t)
    PROVE  RecordInv'
<1>0. TypeOK /\ AllRelated /\ record \in [Nodes -> Statuses]
  BY DEF IInv, RecordInv, TypeOK
<1>1. /\ pc' = "sweeping" /\ UNCHANGED <<dag, record, created>>
      /\ \A n \in Nodes : sweep'.task[n] = "none"
      /\ Clean' => /\ Clean /\ sweep'.result = ProgressFrom(record)
                   /\ sweep'.holding = {n \in Nodes : record[n] = "waiting"}
  BY <1>0, BackgroundDoes DEF writes
<1>2. TasksInOrder' /\ HeldIsThrough' /\ InSweep'
  BY <1>1 DEF TasksInOrder, HeldIsThrough, InSweep
<1>3. SweepFollows'
  BY <1>0, <1>1, ProgressSays DEF SweepFollows
<1>4. InOrder' /\ AllRelated'
  BY <1>1 DEF RecordInv, InOrder, AllRelated, Unrelated, Into
<1> QED BY <1>2, <1>3, <1>4, SweepingSeesToAll DEF RecordInv

\* A stop cancels what is not over, and leaves what the restart caught.
LEMMA EndStoppedDoes ==
    ASSUME TypeOK, AllRelated, EndStopped
    PROVE  /\ pc = "free" /\ pc' = "free" /\ tasks' = tasks \ {StopTask}
           /\ UNCHANGED <<dag, sweep, overtaken, answers, starts, placing, granted, revived>>
           /\ \/ Finished(runStatus) /\ UNCHANGED <<writes, vigils>>
              \/ Clean' => /\ Clean /\ AllRelated' /\ runStatus' = "cancelled"
                           /\ \A n \in Nodes : record'[n] = IF Finished(record[n]) THEN record[n]
                                                            ELSE "cancelled"
<1>1. /\ pc = "free" /\ pc' = "free" /\ tasks' = tasks \ {StopTask}
      /\ UNCHANGED <<dag, sweep, overtaken, answers, starts, granted, revived>>
      /\ UNCHANGED placing
  BY DEF EndStopped, TakesTurn, history, vigils
<1>2. CASE Finished(runStatus)
  BY <1>1, <1>2 DEF EndStopped
<1>3. CASE ~Finished(runStatus)
  <2> DEFINE ns == {n \in Nodes : ~Finished(record[n])}
             status == "cancelled"
  <2>1. /\ ns \in SUBSET Nodes /\ "cancelled" \in Statuses \ {"none"} /\ status \in RunStatuses
        /\ Write(Of(ns, "cancelled"), status)
    BY <1>3 DEF EndStopped, Statuses, Results, Answered, RunStatuses
  <2>2. \A n \in Nodes : n \in ns <=> ~Finished(record[n])
    OBVIOUS
  <2> HIDE DEF ns
  <2>3. Clean' => /\ Clean /\ AllRelated' /\ runStatus' = status
                  /\ \A n \in Nodes : record'[n] = IF n \in ns THEN "cancelled" ELSE record[n]
    BY <1>1, <2>1, CleanWriteOf
  <2> QED BY <1>1, <2>2, <2>3
<1> QED BY <1>2, <1>3

LEMMA EndStoppedRecord ==
    ASSUME IInv, RecordInv, EndStopped
    PROVE  RecordInv'
<1>0. TypeOK /\ AllRelated
  BY DEF IInv, RecordInv
<1>1. /\ pc = "free" /\ pc' = "free" /\ tasks' = tasks \ {StopTask}
      /\ UNCHANGED <<dag, sweep, overtaken, recovery, todo>>
  BY <1>0, EndStoppedDoes DEF starts
<1>2. \A t \in tasks : t.kind = "sweep" => t \in tasks'
  BY <1>1 DEF StopTask
<1>3. CASE UNCHANGED writes
  BY <1>1, <1>2, <1>3, ElsewhereRecord DEF writes
<1>4. ASSUME Clean' => /\ Clean /\ AllRelated' /\ runStatus' = "cancelled"
                       /\ \A n \in Nodes : record'[n] = IF Finished(record[n]) THEN record[n]
                                                        ELSE "cancelled"
      PROVE  RecordInv'
  <2>1. AllRelated'
    BY <1>4 DEF AllRelated
  <2>2. InOrder'
    <3>1. Clean' => \A n \in Nodes :
               /\ record[n] \in OverSays => record'[n] \in OverSays
               /\ record'[n] \in BegunSays => record[n] \in BegunSays
      BY <1>4 DEF OverSays, BegunSays
    <3> QED BY <1>1, <1>4, <3>1, InOrderKept DEF RecordInv
  <2>3. ListedIsUnderWay' /\ LeftToSome'
    BY <1>1, <1>4 DEF ListedIsUnderWay, LeftToSome, Ended, Finished
  <2> QED BY <1>1, <2>1, <2>2, <2>3, NobodySweeps DEF RecordInv
<1> QED BY <1>0, <1>3, <1>4, EndStoppedDoes

LEMMA TakeUpRecord ==
    ASSUME IInv, RecordInv, NEW t \in tasks, TakeUp(t)
    PROVE  RecordInv'
BY ResumeRecord, BackgroundRecord, EndStoppedRecord DEF TakeUp
-----------------------------------------------------------------------------
\* A recovery lists the waits of a run that is not over.
LEMMA ListWaitsRecord ==
    ASSUME RecordInv, ListWaits \/ \E w \in todo : SkipWait(w)
    PROVE  RecordInv'
<1>1. UNCHANGED <<dag, record, created, pc, sweep, lost, overtaken>> /\ recovery' = "waits"
  BY DEF ListWaits, SkipWait, writes, history
<1>2. AllRelated' /\ TasksInOrder' /\ HeldIsThrough' /\ SweepFollows' /\ InOrder'
  BY <1>1, SameRecord DEF Clean
<1> QED BY <1>1, <1>2 DEF RecordInv, ListedIsUnderWay, LeftToSome

\* A recovered wait gets a vigil on its way, or fails its node and the run.
RecoveredFails(k) ==
    /\ pc' \in {"free", "recovering"} /\ UNCHANGED vigil
    /\ Clean' => /\ Clean /\ AllRelated' /\ runStatus' = "failed"
                 /\ \A n \in Nodes : record'[n] = IF n = k THEN "failed" ELSE record[n]

LEMMA FailedWrite ==
    ASSUME TypeOK, AllRelated, NEW k \in Nodes, Write(Of({k}, "failed"), "failed"),
           pc' \in {"free", "recovering"}, UNCHANGED vigil,
           overtaken' \in BOOLEAN, overtaken => overtaken'
    PROVE  RecoveredFails(k)
<1> DEFINE ns == {k}
           v == "failed"
<1>1. /\ ns \in SUBSET Nodes /\ v \in Statuses \ {"none"} /\ v \in RunStatuses
      /\ Write(Of(ns, v), v)
  BY DEF Statuses, Results, Answered, RunStatuses
<1>2. \A n \in Nodes : n \in ns <=> n = k
  OBVIOUS
<1> HIDE DEF ns, v
<1>3. Clean' => overtaken' = overtaken
  BY DEF Clean, TypeOK
<1>4. Clean' => /\ Clean /\ AllRelated' /\ runStatus' = v
                /\ \A n \in Nodes : record'[n] = IF n \in ns THEN v ELSE record[n]
  BY <1>1, <1>3, CleanWriteOf
<1> QED BY <1>2, <1>4 DEF v, RecoveredFails

LEMMA FailsRecord ==
    ASSUME RecordInv, dag' = dag, NEW k \in Nodes, RecoveredFails(k), recovery' # "unfinished"
    PROVE  RecordInv'
<1>1. AllRelated'
  BY DEF RecoveredFails, AllRelated
<1>2. InOrder'
  <2>1. Clean' => \A n \in Nodes :
             /\ record[n] \in OverSays => record'[n] \in OverSays
             /\ record'[n] \in BegunSays => record[n] \in BegunSays
    BY DEF OverSays, BegunSays, RecoveredFails
  <2> QED BY <2>1, InOrderKept DEF RecordInv, RecoveredFails
<1>3. ListedIsUnderWay' /\ LeftToSome'
  BY DEF ListedIsUnderWay, LeftToSome, Finished, RecoveredFails
<1> QED BY <1>1, <1>2, <1>3, NobodySweeps DEF RecordInv, RecoveredFails

LEMMA RecoverWaitDoes ==
    ASSUME TypeOK, AllRelated, NEW w \in todo, RecoverWait(w)
    PROVE  /\ pc = "free" /\ w.node \in Nodes /\ recovery = "waits" /\ todo' = todo \ {w}
           /\ ~(w.held /\ Live(w.node)) /\ answering[w.node] \in {"no", "done"}
           /\ UNCHANGED <<dag, sweep, tasks, recovery, granted, revived, calls, crashes>>
           /\ overtaken => overtaken'
           /\ Clean' => record[w.node] = "waiting"
           /\ \/ PlaceVigil(w.node) /\ pc' = "recovering" /\ UNCHANGED writes
              \/ RecoveredFails(w.node) /\ pc' = "free" /\ UNCHANGED answers /\ placing' \in {placing, {}}
<1>1. /\ pc = "free" /\ w.node \in Nodes /\ recovery = "waits" /\ todo' = todo \ {w}
      /\ ~(w.held /\ Live(w.node)) /\ answering[w.node] \in {"no", "done"}
      /\ UNCHANGED <<dag, sweep, tasks, recovery, granted, revived, calls, crashes>>
      /\ overtaken' = (overtaken \/ record[w.node] # "waiting" \/ (w.node \in awaited) # w.awaited)
  BY DEF RecoverWait, TypeOK, Listed, asked
<1>2. overtaken' \in BOOLEAN /\ (overtaken => overtaken')
  BY <1>1 DEF TypeOK
<1>3. Clean' => record[w.node] = "waiting"
  BY <1>1 DEF Clean
<1>4. CASE PlaceVigil(w.node) /\ pc' = "recovering" /\ UNCHANGED writes
  BY <1>1, <1>2, <1>3, <1>4
<1>5. CASE /\ IF w.awaited THEN Refused(w.node) ELSE UNCHANGED <<awaited, placing>>
           /\ Write(Of({w.node}, "failed"), "failed")
           /\ UNCHANGED <<vigil, answers, pc>>
  <2>1. RecoveredFails(w.node)
    BY <1>1, <1>2, <1>5, FailedWrite
  <2>2. pc' = "free" /\ UNCHANGED answers
    BY <1>1, <1>5
  <2>3. placing' = {} \/ placing' = placing
    BY <1>5 DEF Refused
  <2> QED BY <1>1, <1>2, <1>3, <2>1, <2>2, <2>3
<1> QED BY <1>4, <1>5 DEF RecoverWait

LEMMA RecoverWaitRecord ==
    ASSUME IInv, RecordInv, NEW w \in todo, RecoverWait(w)
    PROVE  RecordInv'
<1>0. TypeOK /\ AllRelated
  BY DEF IInv, RecordInv
<1>1. /\ w.node \in Nodes /\ recovery' = "waits" /\ dag' = dag /\ sweep' = sweep
      /\ overtaken => overtaken'
  BY <1>0, RecoverWaitDoes
<1>2. CASE RecoveredFails(w.node)
  BY <1>1, <1>2, FailsRecord
<1>3. ASSUME pc' = "recovering", UNCHANGED writes PROVE RecordInv'
  <2>1. Clean' => Clean
    BY <1>1, <1>3 DEF Clean, writes
  <2>2. AllRelated' /\ InOrder'
    BY <1>1, <1>3, <2>1 DEF RecordInv, AllRelated, Unrelated, InOrder, Into, writes
  <2>3. ListedIsUnderWay' /\ LeftToSome'
    BY <1>1 DEF ListedIsUnderWay, LeftToSome
  <2> QED BY <1>3, <2>2, <2>3, NobodySweeps DEF RecordInv
<1> QED BY <1>0, <1>2, <1>3, RecoverWaitDoes

LEMMA RecoverWaitEndsDoes ==
    ASSUME TypeOK, AllRelated, NEW k \in Nodes, RecoverWaitEnds(k)
    PROVE  /\ pc = "recovering" /\ pc' = "free" /\ k \in placing /\ placing' = {}
           /\ UNCHANGED <<dag, sweep, starts, answering, granted, revived, overtaken, calls, crashes>>
           /\ \/ RelateVigil(k) /\ UNCHANGED writes
              \/ RecoveredFails(k) /\ UNCHANGED <<tasks, early>>
<1>1. /\ pc = "recovering" /\ pc' = "free" /\ k \in placing
      /\ UNCHANGED <<dag, sweep, starts, answering, granted, revived, overtaken, calls, crashes>>
  BY DEF RecoverWaitEnds, asked, history
<1>2. CASE RelateVigil(k) /\ UNCHANGED writes
  BY <1>1, <1>2 DEF RelateVigil
<1>3. CASE /\ Refused(k) /\ Write(Of({k}, "failed"), "failed")
           /\ UNCHANGED <<vigil, tasks, early>>
  <2>1. overtaken' \in BOOLEAN /\ (overtaken => overtaken') /\ placing' = {}
    BY <1>1, <1>3 DEF TypeOK, Refused
  <2>2. RecoveredFails(k)
    BY <1>1, <1>3, <2>1, FailedWrite
  <2> QED BY <1>1, <1>3, <2>1, <2>2
<1> QED BY <1>2, <1>3 DEF RecoverWaitEnds

LEMMA RecoverWaitEndsRecord ==
    ASSUME IInv, RecordInv, NEW k \in Nodes, RecoverWaitEnds(k)
    PROVE  RecordInv'
<1>0. TypeOK /\ AllRelated
  BY DEF IInv, RecordInv
<1>1. /\ pc = "recovering" /\ pc' = "free"
      /\ UNCHANGED <<dag, sweep, recovery, todo, overtaken>>
  BY <1>0, RecoverWaitEndsDoes DEF starts
<1>2. Clean => recovery # "unfinished"
  BY <1>1 DEF RecordInv, ListedIsUnderWay
<1>3. ASSUME RecoveredFails(k) PROVE RecordInv'
  <2>1. CASE ~Clean'
    <3>1. AllRelated' /\ InOrder' /\ ListedIsUnderWay' /\ LeftToSome'
      BY <2>1 DEF AllRelated, InOrder, ListedIsUnderWay, LeftToSome
    <3> QED BY <1>1, <3>1, NobodySweeps DEF RecordInv
  <2>2. CASE Clean'
    <3>1. recovery' # "unfinished"
      BY <1>1, <1>2, <1>3, <2>2 DEF RecoveredFails
    <3> QED BY <1>1, <1>3, <3>1, FailsRecord
  <2> QED BY <2>1, <2>2
<1>4. ASSUME RelateVigil(k), UNCHANGED writes PROVE RecordInv'
  <2>1. Clean' = Clean /\ tasks \subseteq tasks'
    BY <1>1, <1>4 DEF Clean, writes, RelateVigil
  <2>2. AllRelated' /\ InOrder'
    BY <1>1, <1>4, <2>1 DEF RecordInv, AllRelated, Unrelated, InOrder, Into, writes
  <2>3. ListedIsUnderWay'
    BY <1>1, <1>2, <2>1 DEF ListedIsUnderWay
  <2>4. LeftToSome'
    BY <1>1, <1>4, <2>1 DEF RecordInv, LeftToSome, InSweep, writes
  <2> QED BY <1>1, <2>2, <2>3, <2>4, NobodySweeps DEF RecordInv
<1> QED BY <1>0, <1>3, <1>4, RecoverWaitEndsDoes

\* What is under way is listed when the waits are through.
LEMMA ListUnfinishedRecord ==
    ASSUME RecordInv, ListUnfinished
    PROVE  RecordInv'
<1>1. /\ UNCHANGED <<dag, record, created, pc, sweep, lost, overtaken, runStatus, tasks>>
      /\ pc # "recovering"
  BY DEF ListUnfinished, ListUnfinishedIn, writes, history
<1>2. AllRelated' /\ TasksInOrder' /\ HeldIsThrough' /\ SweepFollows' /\ InOrder'
  BY <1>1, SameRecord DEF Clean
<1> DEFINE listed == {n \in Nodes : record[n] \in {"running", "trying"}}
<1>3. \/ recovery' = "done" /\ (Finished(runStatus) \/ listed = {})
      \/ /\ recovery' = "unfinished"
         /\ \E n \in listed : todo' = {[node |-> n, awaited |-> FALSE, held |-> FALSE]}
  BY DEF ListUnfinished, ListUnfinishedIn
<1>4. ListedIsUnderWay'
  <2> SUFFICES ASSUME recovery' = "unfinished"
               PROVE  pc' # "recovering" /\ \A w \in todo' : record'[w.node] \in {"running", "trying"}
    BY DEF ListedIsUnderWay
  <2>1. PICK n \in listed : todo' = {[node |-> n, awaited |-> FALSE, held |-> FALSE]}
    BY <1>3
  <2>2. \A w \in todo' : w.node = n
    BY <2>1
  <2> QED BY <1>1, <2>1, <2>2
<1>5. LeftToSome'
  BY <1>1, <1>3 DEF LeftToSome
<1> QED BY <1>2, <1>4, <1>5 DEF RecordInv

\* And carried on, or its run failed.
LEMMA RecoverUnfinishedRecord ==
    ASSUME IInv, RecordInv, RecoverUnfinished
    PROVE  RecordInv'
<1>0. TypeOK /\ AllRelated
  BY DEF IInv, RecordInv
<1>1. /\ pc = "free" /\ pc' = "free" /\ recovery = "unfinished" /\ recovery' = "done"
      /\ UNCHANGED <<dag, sweep, overtaken>>
  BY DEF RecoverUnfinished, RecoverUnfinishedUnless, history
<1>2. ListedIsUnderWay'
  BY <1>1 DEF ListedIsUnderWay
<1>3. ASSUME UNCHANGED writes, Finished(runStatus) \/ SweepTask(record, runStatus) \in tasks'
      PROVE  RecordInv'
  <2>1. AllRelated' /\ InOrder'
    BY <1>1, <1>3 DEF RecordInv, AllRelated, Unrelated, InOrder, Into, writes, Clean
  <2>2. LeftToSome'
    BY <1>3 DEF LeftToSome, SweepTask, writes
  <2> QED BY <1>1, <1>2, <2>1, <2>2, NobodySweeps DEF RecordInv
<1>4. ASSUME ~Finished(runStatus), CannotGoOn(record, FALSE),
             NEW w \in todo, Write(Of({w.node}, "interrupted"), "failed")
      PROVE  RecordInv'
  <2> DEFINE ns == {w.node}
             v == "interrupted"
             status == "failed"
  <2>1. /\ ns \in SUBSET Nodes /\ v \in Statuses \ {"none"} /\ status \in RunStatuses
        /\ Write(Of(ns, v), status) /\ w.node \in Nodes
    BY <1>0, <1>4 DEF TypeOK, Listed, Statuses, RunStatuses
  <2>2. \A n \in Nodes : n \in ns <=> n = w.node
    OBVIOUS
  <2> HIDE DEF ns, v, status
  <2>3. Clean' => /\ Clean /\ AllRelated' /\ runStatus' = status
                  /\ \A n \in Nodes : record'[n] = IF n \in ns THEN v ELSE record[n]
    BY <1>0, <1>1, <2>1, CleanWriteOf
  <2>4. Clean' => record[w.node] \in BegunSays
    <3>1. ~Ended /\ ~InSweep
      BY <1>1, <1>4 DEF Ended, InSweep, Finished
    <3> QED BY <1>1, <1>4, <2>3, <3>1 DEF RecordInv, ListedIsUnderWay, BegunSays
  <2>5. InOrder'
    <3>1. Clean' => \A n \in Nodes :
               /\ record[n] \in OverSays => record'[n] \in OverSays
               /\ record'[n] \in BegunSays => record[n] \in BegunSays
      BY <2>2, <2>3, <2>4 DEF OverSays, BegunSays, v
    <3> QED BY <1>1, <2>3, <3>1, InOrderKept DEF RecordInv
  <2>6. LeftToSome'
    BY <2>3 DEF LeftToSome, Finished, status
  <2>7. AllRelated'
    BY <2>3 DEF AllRelated
  <2> QED BY <1>1, <1>2, <2>5, <2>6, <2>7, NobodySweeps DEF RecordInv
<1> QED BY <1>3, <1>4 DEF RecoverUnfinished, RecoverUnfinishedUnless

LEMMA RecoveryStepRecord ==
    ASSUME IInv, RecordInv, RecoveryStep
    PROVE  RecordInv'
BY ListWaitsRecord, RecoverWaitRecord, RecoverWaitEndsRecord, ListUnfinishedRecord,
   RecoverUnfinishedRecord DEF RecoveryStep

\* What others ask of the run, and a crash.
LEMMA OthersRecord ==
    ASSUME IInv, RecordInv, Others
    PROVE  RecordInv'
<1>1. CASE AskStop \/ StartAgain \/ \E n \in Nodes : VigilIsAnswered(n)
  <2>1. /\ UNCHANGED <<dag, record, runStatus, created, lost, pc, sweep, overtaken, recovery, todo>>
        /\ tasks \subseteq tasks'
    BY <1>1 DEF AskStop, StartAgain, VigilIsAnswered, writes, starts, history
  <2> QED BY <2>1, ElsewhereRecord
<1>2. CASE CarryOn
  <2>1. /\ UNCHANGED <<dag, record, created, pc, sweep, lost, overtaken, recovery, todo>>
        /\ pc = "free" /\ runStatus = "failed" /\ \E n \in Nodes : record[n] = "interrupted"
        /\ SweepTask(record, "running") \in tasks'
    BY <1>2 DEF CarryOn, CarryOnUnless, StoppedByARestart, starts, history
  <2>2. AllRelated' /\ TasksInOrder' /\ HeldIsThrough' /\ SweepFollows' /\ InOrder'
    BY <2>1, SameRecord DEF Clean
  <2>3. ListedIsUnderWay'
    BY <2>1 DEF RecordInv, ListedIsUnderWay, Ended, InSweep, Clean
  <2>4. LeftToSome'
    BY <2>1 DEF LeftToSome, SweepTask
  <2> QED BY <2>2, <2>3, <2>4 DEF RecordInv
<1>3. CASE Crash
  <2>1. /\ pc' = "free" /\ created' = {} /\ recovery' = "starting"
        /\ UNCHANGED <<dag, record, lost, overtaken>>
    BY <1>3 DEF Crash
  <2>2. AllRelated' /\ InOrder'
    BY <2>1 DEF RecordInv, AllRelated, Unrelated, InOrder, Into, Clean
  <2>3. ListedIsUnderWay' /\ LeftToSome'
    BY <2>1 DEF ListedIsUnderWay, LeftToSome
  <2> QED BY <2>1, <2>2, <2>3, NobodySweeps DEF RecordInv
<1> QED BY <1>1, <1>2, <1>3 DEF Others
-----------------------------------------------------------------------------
\* While a vigil is placed its answer is kept: who holds or recovers has the turn throughout.
LEMMA PlacingVigil ==
    ASSUME TypeOK, NEW k \in Nodes, PlaceVigil(k)
    PROVE  placing' = {k} /\ vigil'[k] = "placed" /\ answering'[k] = "no"
BY DEF PlaceVigil, TypeOK

LEMMA SweepStepEarly ==
    ASSUME IInv, EarlyIsKept, SweepStep
    PROVE  EarlyIsKept'
<1>0. TypeOK
  BY DEF IInv
<1>1. CASE SeeStop \/ Look \/ WriteRecordAgain \/ Close \/ HoldEnds \/ FailUnheld \/ \E n \in Nodes : Take(n)
  <2>1. (pc # "holding" \/ placing = {}) /\ pc # "recovering" /\ placing' = placing
    BY <1>1 DEF SeeStop, Look, WriteRecordAgain, Close, HoldEnds, FailUnheld, Take, Through, vigils
  <2>2. placing' = {}
    BY <2>1 DEF EarlyIsKept
  <2> QED BY <2>2 DEF EarlyIsKept
<1>2. ASSUME NEW k \in Nodes, Place(k) PROVE EarlyIsKept'
  <2>1. CASE placing' = {}
    BY <2>1 DEF EarlyIsKept
  <2>2. CASE PlaceVigil(k) /\ UNCHANGED sweep
    <3>1. /\ pc' = "holding" /\ sweep' = sweep /\ sweep.result[k] = "waiting" /\ k \notin sweep.holding
      BY <1>2, <2>2 DEF Place, Waiting
    <3> QED BY <1>0, <2>2, <3>1, PlacingVigil DEF EarlyIsKept
  <2> QED BY <1>2, <2>1, <2>2 DEF Place, Refused
<1>3. ASSUME NEW k \in Nodes, Hold(k) PROVE EarlyIsKept'
  <2>1. placing' = {}
    BY <1>3 DEF Hold, RelateVigil
  <2> QED BY <2>1 DEF EarlyIsKept
<1> QED BY <1>1, <1>2, <1>3 DEF SweepStep

\* The answer that finds the vigil held by no node run yet stays to be claimed.
LEMMA AnswerStepEarly ==
    ASSUME IInv, EarlyIsKept, NEW k \in Nodes, AnswerStep(k) \/ VigilIsAnswered(k)
    PROVE  EarlyIsKept'
<1>0. TypeOK
  BY DEF IInv
<1>1. UNCHANGED <<placing, vigil, pc, sweep>>
  BY DEF AnswerStep, LookUp, KeepEarly, LookUpAgain, LookUpAgainIf, VigilIsAnswered, vigils
<1>2. ASSUME NEW n \in placing, answering'[n] \in {"lookingAgain", "done"}
      PROVE  n \in early'
  <2>1. n \in Nodes /\ vigil[n] = "placed"
    BY <1>0 DEF EarlyIsKept, TypeOK
  <2>2. CASE n # k
    <3>1. answering'[n] = answering[n] /\ (n \in early => n \in early')
      BY <1>0, <2>1, <2>2 DEF AnswerStep, LookUp, KeepEarly, LookUpAgain, LookUpAgainIf, VigilIsAnswered, TypeOK
    <3> QED BY <1>2, <3>1 DEF EarlyIsKept
  <2>3. CASE n = k
    <3>1. CASE VigilIsAnswered(k) \/ LookUp(k)
      BY <1>0, <1>2, <2>1, <2>3, <3>1 DEF VigilIsAnswered, LookUp, TypeOK
    <3>2. CASE KeepEarly(k)
      BY <2>3, <3>2 DEF KeepEarly
    <3>3. CASE LookUpAgain(k)
      BY <2>1, <2>3, <3>3 DEF LookUpAgain, LookUpAgainIf, EarlyIsKept
    <3> QED BY <3>1, <3>2, <3>3 DEF AnswerStep
  <2> QED BY <2>2, <2>3
<1> QED BY <1>1, <1>2 DEF EarlyIsKept

LEMMA NextRecord ==
    IInv /\ RecordInv /\ EarlyIsKept /\ [Next]_vars => RecordInv' /\ EarlyIsKept'
<1> SUFFICES ASSUME IInv, RecordInv, EarlyIsKept, [Next]_vars PROVE RecordInv' /\ EarlyIsKept'
  OBVIOUS
<1>0. TypeOK /\ AllRelated
  BY DEF IInv, RecordInv
<1>1. CASE UNCHANGED vars
  <2>1. UNCHANGED <<dag, record, runStatus, created, lost, pc, sweep, overtaken, recovery, todo,
                    tasks, placing, vigil, early, answering>>
    BY <1>1 DEF vars, writes, starts, history, vigils, answers
  <2>2. RecordInv'
    BY <2>1, ElsewhereRecord
  <2>3. EarlyIsKept'
    BY <2>1 DEF EarlyIsKept
  <2> QED BY <2>2, <2>3
<1>2. CASE SweepStep
  <2>1. RecordInv'
    BY <1>2, SeeStopRecord, LookRecord, WriteRecordAgainRecord, HoldEndsRecord, FailUnheldRecord,
       CloseRecord, TakeRecord, PlaceRecord, HoldRecord DEF SweepStep
  <2> QED BY <1>2, <2>1, SweepStepEarly
<1>3. ASSUME NEW n \in Nodes, NodeStep(n) PROVE RecordInv' /\ EarlyIsKept'
  <2>1. pc = "sweeping" /\ placing' = placing
    BY <1>3, NodeStepDoes DEF NodeStep, Begin, StartAttempt, Answers, Unreached, vigils
  <2>2. EarlyIsKept'
    BY <2>1 DEF EarlyIsKept
  <2> QED BY <1>3, <2>2, NodeStepRecord
<1>4. ASSUME NEW n \in Nodes, AnswerStep(n) PROVE RecordInv' /\ EarlyIsKept'
  BY <1>4, AnswerStepRecord, AnswerStepEarly
<1>5. ASSUME NEW t \in tasks, TakeUp(t) PROVE RecordInv' /\ EarlyIsKept'
  <2>1. pc = "free" /\ placing' = placing
    BY <1>5 DEF TakeUp, TakesTurn, Resume, CarryOnInTheBackground, EndStopped, vigils
  <2>2. EarlyIsKept'
    BY <2>1 DEF EarlyIsKept
  <2> QED BY <1>5, <2>2, TakeUpRecord
<1>6. CASE RecoveryStep
  <2>1. ASSUME NEW w \in todo, RecoverWait(w) PROVE EarlyIsKept'
    <3>1. pc = "free" /\ w.node \in Nodes /\ (\/ PlaceVigil(w.node) /\ pc' = "recovering"
                                             \/ placing' \in {placing, {}})
      BY <1>0, <2>1, RecoverWaitDoes
    <3>2. placing = {}
      BY <3>1 DEF EarlyIsKept
    <3>3. PlaceVigil(w.node) => placing' = {w.node} /\ vigil'[w.node] = "placed" /\ answering'[w.node] = "no"
      BY <1>0, <3>1, PlacingVigil
    <3> QED BY <3>1, <3>2, <3>3 DEF EarlyIsKept
  <2>2. ASSUME NEW n \in Nodes, RecoverWaitEnds(n) PROVE EarlyIsKept'
    BY <1>0, <2>2, RecoverWaitEndsDoes DEF EarlyIsKept
  <2>3. ASSUME ListWaits \/ ListUnfinished \/ RecoverUnfinished \/ \E w \in todo : SkipWait(w)
       PROVE  EarlyIsKept'
    <3>1. UNCHANGED <<placing, vigil, early, answering, pc, sweep>>
      BY <2>3 DEF ListWaits, ListUnfinished, ListUnfinishedIn, RecoverUnfinished, RecoverUnfinishedUnless,
                  SkipWait, vigils, answers
    <3> QED BY <3>1 DEF EarlyIsKept
  <2> QED BY <1>6, <2>1, <2>2, <2>3, RecoveryStepRecord DEF RecoveryStep
<1>7. CASE Others
  <2>1. ASSUME AskStop \/ CarryOn \/ StartAgain
       PROVE  EarlyIsKept'
    <3>1. UNCHANGED <<placing, vigil, early, answering, pc, sweep>>
      BY <2>1 DEF AskStop, CarryOn, CarryOnUnless, StartAgain, vigils, answers
    <3> QED BY <3>1 DEF EarlyIsKept
  <2>2. ASSUME Crash PROVE EarlyIsKept'
    BY <2>2 DEF Crash, EarlyIsKept
  <2>3. EarlyIsKept'
    BY <1>7, <2>1, <2>2, AnswerStepEarly DEF Others
  <2> QED BY <1>7, <2>3, OthersRecord
<1> QED BY <1>1, <1>2, <1>3, <1>4, <1>5, <1>6, <1>7 DEF Next, Process

LEMMA InitRecord == Init => RecordInv /\ EarlyIsKept
<1> SUFFICES ASSUME Init PROVE RecordInv /\ EarlyIsKept
  OBVIOUS
<1>1. sweep = SweepFrom([n \in Nodes |-> "none"], {})
  BY DEF Init, NoSweep, Of
<1>2. [n \in Nodes |-> "none"] \in [Nodes -> Results]
  BY DEF Results
<1>3. /\ sweep.holding = {} /\ ~sweep.halted
      /\ \A n \in Nodes : sweep.task[n] = "none" /\ sweep.result[n] = "none"
  BY <1>1, <1>2, SweepFromParts
<1>4. \A n \in Nodes : record[n] = "none"
  BY DEF Init, Of
<1>5. pc = "sweeping" /\ created = {} /\ placing = {} /\ recovery = "starting"
  BY DEF Init
<1>6. AllRelated /\ InOrder /\ EarlyIsKept
  BY <1>4, <1>5 DEF AllRelated, Unrelated, InOrder, BegunSays, EarlyIsKept
<1>7. TasksInOrder /\ HeldIsThrough /\ SweepFollows
  BY <1>3, <1>4, <1>5 DEF TasksInOrder, HeldIsThrough, SweepFollows
<1>8. ListedIsUnderWay /\ LeftToSome
  BY <1>5 DEF ListedIsUnderWay, LeftToSome
<1> QED BY <1>6, <1>7, <1>8 DEF RecordInv

LEMMA AlwaysRecordInv == Spec => [](RecordInv /\ EarlyIsKept)
BY InitRecord, NextRecord, AlwaysIInv, PTL DEF Spec

\* Where no write is lost and nobody is overtaken, a run that is not over has no node recorded in
\* the middle of a call that nobody makes, once all is done that this process had to do about it:
\* for every drawing and over any number of crashes, answers, stops and recoveries.
THEOREM NothingIsLeft == Spec => []NothingLeftUnderWay
<1>1. RecordInv => NothingLeftUnderWay
  BY DEF RecordInv, LeftToSome, NothingLeftUnderWay, Quiet, Clean, InSweep
<1> QED BY <1>1, AlwaysRecordInv, PTL
-----------------------------------------------------------------------------
(***************************************************************************)
(* Where nothing was lost, a node that waits is seen to: by the vigil it   *)
(* holds and the way of its answer, by a task, by a recovery, or by the    *)
(* sweep that is to place its vigil.                                       *)
(***************************************************************************)
SweepsGoOn == Clean /\ InSweep => ~Finished(runStatus)

\* A wait that was failed while its sweep held the others halts it.
UnheldHalts == Clean /\ pc = "holding" /\ ~sweep.halted =>
                   \A n \in Nodes : record[n] = "waiting" => sweep.result[n] = "waiting"

PlacesOne == \A m, n \in placing : m = n

WaitFor(n) ==
    \/ /\ vigil[n] = "held"
       /\ answering[n] \in {"no", "told", "unheld"} \/ (answering[n] = "lookingAgain" /\ n \in early)
    \/ ResumeTask(n) \in tasks
    \/ recovery = "starting"
    \/ recovery = "waits" /\ \E w \in todo : w.node = n
    \/ pc = "recovering" /\ n \in placing
    \/ InSweep /\ n \notin sweep.holding

\* A vigil that no node run holds yet is on its way to its node run, or was left by a crash to a
\* recovery that does not take it for held.
PlacedFor(n) ==
    \/ recovery = "starting"
    \/ recovery = "waits" /\ \E w \in todo : w.node = n /\ ~w.held
    \/ pc = "recovering" /\ n \in placing
    \/ InSweep /\ n \notin sweep.holding

SeenTo(n) == WaitFor(n) /\ (vigil[n] = "placed" => PlacedFor(n))

AsItWent == Clean /\ granted = 0 /\ ~revived /\ ~Finished(runStatus)

WaitsAreSeen == AsItWent => \A n \in Nodes : record[n] = "waiting" => SeenTo(n)

HeldInv == SweepsGoOn /\ UnheldHalts /\ PlacesOne /\ WaitsAreSeen

\* What sees to a wait goes on to.
StaysSeenTo(n) ==
    /\ vigil'[n] = vigil[n] /\ answering'[n] = answering[n]
    /\ n \in early => n \in early'
    /\ ResumeTask(n) \in tasks => ResumeTask(n) \in tasks'
    /\ recovery = "starting" => recovery' = "starting"
    /\ recovery = "waits" => \A w \in todo : w.node = n => recovery' = "waits" /\ w \in todo'
    /\ pc = "recovering" /\ n \in placing => pc' = "recovering" /\ n \in placing'
    /\ InSweep /\ n \notin sweep.holding => InSweep' /\ n \notin sweep'.holding

LEMMA StaysSeen ==
    ASSUME NEW n, SeenTo(n), StaysSeenTo(n)
    PROVE  SeenTo(n)'
<1>1. WaitFor(n)'
  BY DEF SeenTo, WaitFor, StaysSeenTo, ResumeTask
<1>2. PlacedFor(n) => PlacedFor(n)'
  BY DEF PlacedFor, StaysSeenTo
<1> QED BY <1>1, <1>2 DEF SeenTo, StaysSeenTo

LEMMA AllStaySeen ==
    ASSUME WaitsAreSeen,
           AsItWent' => /\ AsItWent
                        /\ \A n \in Nodes : record'[n] = "waiting" =>
                              SeenTo(n)' \/ (record[n] = "waiting" /\ StaysSeenTo(n))
    PROVE  WaitsAreSeen'
<1> SUFFICES ASSUME AsItWent', NEW n \in Nodes, record'[n] = "waiting" PROVE SeenTo(n)'
  BY DEF WaitsAreSeen
<1>1. CASE record[n] = "waiting" /\ StaysSeenTo(n)
  <2>1. SeenTo(n)
    BY <1>1 DEF WaitsAreSeen
  <2> QED BY <1>1, <2>1, StaysSeen
<1> QED BY <1>1

\* A wait that its sweep is to hold is seen to.
LEMMA SweepSees ==
    ASSUME NEW n, InSweep', n \notin sweep'.holding
    PROVE  SeenTo(n)'
BY DEF SeenTo, WaitFor, PlacedFor

\* A step of a sweep that leaves vigils, answers, tasks and what it holds alone.
LEMMA SweepingHeld ==
    ASSUME HeldInv, InSweep, InSweep',
           UNCHANGED <<vigil, answering, early, placing, tasks, recovery, todo, granted, revived>>,
           sweep'.holding = sweep.holding,
           Clean' => /\ Clean /\ runStatus' = runStatus
                     /\ \A n \in Nodes : record'[n] = "waiting" =>
                            record[n] = "waiting" \/ n \notin sweep.holding
    PROVE  SweepsGoOn' /\ PlacesOne' /\ WaitsAreSeen'
<1>1. SweepsGoOn'
  BY DEF HeldInv, SweepsGoOn
<1>2. PlacesOne'
  BY DEF HeldInv, PlacesOne
<1>3. pc # "recovering"
  BY DEF InSweep
<1>4. \A n : StaysSeenTo(n)
  BY <1>3 DEF StaysSeenTo
<1>5. AsItWent' => AsItWent
  BY DEF AsItWent
<1>6. AsItWent' => \A n \in Nodes : record'[n] = "waiting" =>
         SeenTo(n)' \/ (record[n] = "waiting" /\ StaysSeenTo(n))
  BY <1>4, SweepSees DEF AsItWent
<1> QED BY <1>1, <1>2, <1>5, <1>6, AllStaySeen DEF HeldInv

\* The steps of a sweep before it places a vigil, and the failing of what was refused one.
LEMMA LooksHeld ==
    ASSUME IInv, RecordInv, HeldInv,
           SeeStop \/ Look \/ WriteRecordAgain \/ FailUnheld \/ \E n \in Nodes : Take(n)
    PROVE  HeldInv'
<1> USE SweepParts
<1>0. TypeOK
  BY DEF IInv
<1>1. /\ InSweep /\ InSweep'
      /\ UNCHANGED <<vigil, answering, early, placing, tasks, recovery, todo, granted, revived, overtaken>>
  BY DEF SeeStop, Look, WriteRecordAgain, FailUnheld, Take, Through, InSweep, vigils, answers, starts,
         asked, history
<1>2. sweep'.holding = sweep.holding
  BY <1>0 DEF SeeStop, Look, WriteRecordAgain, FailUnheld, Take, TypeOK, Sweeps
<1>3. CASE SeeStop
  BY <1>1, <1>2, <1>3, SweepingHeld DEF SeeStop, HeldInv, UnheldHalts, writes, Clean
<1>4. CASE Look
  <2>1. NotTaken \in SUBSET Nodes /\ "notTaken" \in Statuses /\ Write(Of(NotTaken, "notTaken"), runStatus)
    BY <1>4 DEF Look, NotTaken, Ready, Pending, Statuses, Results
  <2>2. /\ runStatus' = runStatus /\ (lost' = 0 => lost = 0)
        /\ \A n \in Nodes : record'[n] = record[n] \/ (n \in NotTaken /\ record'[n] = "notTaken")
    BY <1>0, <2>1, WriteOfSays
  <2>3. UnheldHalts'
    BY <1>4 DEF Look, UnheldHalts
  <2> QED BY <1>1, <1>2, <2>2, <2>3, SweepingHeld DEF HeldInv, Clean
<1>5. CASE FailUnheld
  <2>1. Clean' => /\ Clean /\ runStatus' = runStatus
                  /\ \A n \in Nodes : record'[n] = record[n] \/ record'[n] = "failed"
    <3> DEFINE ns == {n \in Nodes : sweep.result[n] = "failed" /\ record[n] # "failed"}
    <3>1. ns \in SUBSET Nodes /\ "failed" \in Statuses /\ Write(Of(ns, "failed"), runStatus)
      BY <1>5 DEF FailUnheld, Statuses, Results, Answered
    <3> HIDE DEF ns
    <3>2. /\ runStatus' = runStatus /\ (lost' = 0 => lost = 0)
          /\ \A n \in Nodes : record'[n] = record[n] \/ (n \in ns /\ record'[n] = "failed")
      BY <1>0, <3>1, WriteOfSays
    <3> QED BY <1>1, <3>2 DEF Clean
  <2>2. UnheldHalts'
    BY <1>5 DEF FailUnheld, UnheldHalts
  <2> QED BY <1>1, <1>2, <2>1, <2>2, SweepingHeld DEF HeldInv
<1>6. CASE WriteRecordAgain
  <2>1. Clean' => UNCHANGED <<record, runStatus>> /\ sweep'.result = sweep.result
    BY <1>6, WriteRecordAgainRecord
  <2>2. Clean' => Clean
    <3> DEFINE ns == Unrecorded(record)
               written == [n \in ns |-> sweep.result[n]]
    <3>1. ns \in SUBSET Nodes /\ written \in [ns -> Statuses] /\ runStatus \in RunStatuses
      BY <1>0 DEF Unrecorded, Statuses, Results, Answered, TypeOK
    <3>2. Write(written, runStatus)
      BY <1>6 DEF WriteRecordAgain
    <3> HIDE DEF ns, written
    <3>3. lost <= lost' /\ lost' \in 0 .. MaxLost
      BY <1>0, <3>1, <3>2, WriteDoes
    <3> QED BY <1>0, <1>1, <3>3, LifecycleAssumption DEF Clean, TypeOK
  <2>3. UnheldHalts'
    <3>1. pc = "sweeping"
      BY <1>6 DEF WriteRecordAgain, Through
    <3>2. Clean' => \A n \in Nodes : record[n] = "waiting" => sweep.result[n] = "waiting"
      BY <2>2, <3>1 DEF IInv, WaitsAreKnown
    <3> QED BY <2>1, <3>2 DEF UnheldHalts
  <2> QED BY <1>1, <1>2, <2>1, <2>2, <2>3, SweepingHeld DEF HeldInv
<1>7. ASSUME NEW k \in Nodes, Take(k) PROVE HeldInv'
  <2>1. sweep.task[k] \in Answered /\ Write(Of({k}, sweep.task[k]), runStatus) /\ pc' = "sweeping"
    BY <1>7 DEF Take
  <2>2. Clean' => /\ Clean /\ runStatus' = runStatus
                  /\ \A n \in Nodes : record'[n] = record[n] \/ n = k
    <3> DEFINE v == sweep.task[k]
               ns == {k}
    <3>1. /\ v \in Statuses /\ v # "interrupted" /\ Write(Of(ns, v), runStatus) /\ ns \in SUBSET Nodes
      BY <2>1 DEF Statuses, Results, Answered
    <3>2. \A n \in ns : n = k
      OBVIOUS
    <3> HIDE DEF v, ns
    <3>3. /\ runStatus' = runStatus /\ (lost' = 0 => lost = 0)
          /\ \A n \in Nodes : record'[n] = record[n] \/ (n \in ns /\ record'[n] = v)
      BY <1>0, <3>1, WriteOfSays
    <3> QED BY <1>1, <3>2, <3>3 DEF Clean
  <2>3. sweep.result[k] = "none"
    BY <1>1, <2>1 DEF RecordInv, TasksInOrder, Answered
  <2>4. Clean => k \notin sweep.holding
    BY <1>1, <2>3 DEF RecordInv, SweepFollows
  <2>5. UnheldHalts'
    BY <2>1 DEF UnheldHalts
  <2> QED BY <1>1, <1>2, <2>2, <2>4, <2>5, SweepingHeld DEF HeldInv
<1> QED BY <1>3, <1>4, <1>5, <1>6, <1>7

LEMMA NodeStepHeld ==
    ASSUME IInv, RecordInv, HeldInv, NEW k \in Nodes, NodeStep(k)
    PROVE  HeldInv'
<1>1. /\ UNCHANGED <<vigil, answering, early, placing, tasks, recovery, todo, granted, revived>>
      /\ pc = "sweeping" /\ pc' = pc /\ sweep'.holding = sweep.holding
      /\ Clean' => /\ Clean /\ runStatus' = runStatus
                   /\ \A n \in Nodes : record'[n] = "waiting" => record[n] = "waiting"
  BY NodeStepDoes DEF NodeStep, Begin, StartAttempt, Answers, Unreached, vigils, answers, starts, asked,
                      history
<1>2. InSweep /\ InSweep' /\ UnheldHalts'
  BY <1>1 DEF InSweep, UnheldHalts
<1> QED BY <1>1, <1>2, SweepingHeld DEF HeldInv

\* A wait whose vigil is placed is the sweep's to hold until the vigil is related.
LEMMA PlaceHeld ==
    ASSUME IInv, RecordInv, HeldInv, NEW k \in Nodes, Place(k)
    PROVE  HeldInv'
<1>0. TypeOK
  BY DEF IInv
<1>1. /\ UNCHANGED <<record, runStatus, lost, overtaken, pc, tasks, recovery, todo, granted, revived>>
      /\ pc = "holding" /\ k \notin sweep.holding /\ sweep'.holding = sweep.holding
      /\ InSweep /\ InSweep'
  BY PlaceDoes DEF Place, InSweep, starts, asked, history
<1>2. \A n \in Nodes \ {k} : vigil'[n] = vigil[n] /\ answering'[n] = answering[n] /\ (n \in early => n \in early')
  BY <1>0 DEF Place, PlaceVigil, answers, TypeOK
<1>3. SweepsGoOn'
  BY <1>1 DEF HeldInv, SweepsGoOn, Clean
<1>4. UnheldHalts'
  <2>1. CASE sweep' = sweep
    BY <1>1, <2>1 DEF HeldInv, UnheldHalts, Clean
  <2>2. CASE sweep'.halted
    BY <2>2 DEF UnheldHalts
  <2> QED BY <2>1, <2>2, PlaceDoes
<1>5. PlacesOne'
  BY DEF Place, PlaceVigil, Refused, PlacesOne
<1>6. WaitsAreSeen'
  <2>1. SeenTo(k)'
    BY <1>1, SweepSees
  <2>2. \A n \in Nodes \ {k} : StaysSeenTo(n)
    BY <1>1, <1>2 DEF StaysSeenTo
  <2>3. AsItWent' => AsItWent
    BY <1>1 DEF AsItWent, Clean
  <2> QED BY <1>1, <2>1, <2>2, <2>3, AllStaySeen DEF HeldInv
<1> QED BY <1>3, <1>4, <1>5, <1>6 DEF HeldInv

\* What came early is claimed as the vigil is related, and what comes now finds it.
LEMMA RelatedSees ==
    ASSUME TypeOK, EarlyIsKept, NEW k \in placing, RelateVigil(k), answering' = answering
    PROVE  /\ SeenTo(k)'
           /\ \A n \in Nodes \ {k} : /\ vigil'[n] = vigil[n] /\ (n \in early => n \in early')
                                     /\ ResumeTask(n) \in tasks => ResumeTask(n) \in tasks'
<1>1. k \in Nodes
  BY DEF TypeOK
<1>2. /\ vigil'[k] = "held"
      /\ \A n \in Nodes \ {k} : /\ vigil'[n] = vigil[n] /\ (n \in early => n \in early')
                                /\ ResumeTask(n) \in tasks => ResumeTask(n) \in tasks'
  BY <1>1 DEF RelateVigil, TypeOK
<1>3. k \in early => ResumeTask(k) \in tasks'
  BY DEF RelateVigil
<1>4. k \notin early => answering'[k] \in {"no", "told", "unheld"}
  BY <1>1 DEF EarlyIsKept, TypeOK
<1>5. WaitFor(k)'
  BY <1>2, <1>3, <1>4 DEF WaitFor, ResumeTask
<1> QED BY <1>2, <1>5 DEF SeenTo

LEMMA HoldHeld ==
    ASSUME IInv, RecordInv, EarlyIsKept, HeldInv, NEW k \in Nodes, Hold(k)
    PROVE  HeldInv'
<1>0. TypeOK
  BY DEF IInv
<1>1. /\ UNCHANGED <<record, runStatus, lost, overtaken, pc, recovery, todo, granted, revived, answering>>
      /\ sweep'.result = sweep.result /\ sweep'.holding = sweep.holding \union {k}
      /\ sweep'.halted = sweep.halted
      /\ pc = "holding" /\ InSweep /\ InSweep' /\ k \in placing /\ RelateVigil(k)
  BY <1>0, HoldRecord DEF Hold, InSweep, starts, asked, history, TypeOK, Sweeps
<1>2. SweepsGoOn' /\ UnheldHalts'
  BY <1>1 DEF HeldInv, SweepsGoOn, UnheldHalts, Clean
<1>3. PlacesOne'
  BY <1>1 DEF RelateVigil, PlacesOne
<1>4. WaitsAreSeen'
  <2>1. /\ SeenTo(k)'
        /\ \A n \in Nodes \ {k} : /\ vigil'[n] = vigil[n] /\ (n \in early => n \in early')
                                  /\ ResumeTask(n) \in tasks => ResumeTask(n) \in tasks'
    BY <1>0, <1>1, RelatedSees
  <2>2. \A n \in Nodes \ {k} : StaysSeenTo(n)
    BY <1>1, <2>1 DEF StaysSeenTo
  <2>3. AsItWent' => AsItWent
    BY <1>1 DEF AsItWent, Clean
  <2> QED BY <1>1, <2>1, <2>2, <2>3, AllStaySeen DEF HeldInv
<1> QED BY <1>2, <1>3, <1>4 DEF HeldInv

\* A sweep that ends in a wait holds all of its waits.
LEMMA HoldEndsHeld ==
    ASSUME IInv, RecordInv, HeldInv, HoldEnds
    PROVE  HeldInv'
<1>0. TypeOK /\ AllRelated
  BY DEF IInv, RecordInv
<1>1. /\ UNCHANGED <<vigil, answering, early, placing, tasks, recovery, todo, granted, revived, overtaken>>
      /\ pc = "holding" /\ InSweep /\ Waiting \subseteq sweep.holding
  BY DEF HoldEnds, InSweep, vigils, answers, starts, history
<1>2. CASE sweep.halted
  <2>1. /\ pc' = "failing" /\ InSweep' /\ sweep' = sweep
        /\ UNCHANGED <<record, runStatus, lost>>
    BY <1>2 DEF HoldEnds, InSweep, writes
  <2>2. UnheldHalts'
    BY <2>1 DEF UnheldHalts
  <2> QED BY <1>1, <2>1, <2>2, SweepingHeld DEF HeldInv, Clean
<1>3. CASE ~sweep.halted
  <2>1. pc' = "free" /\ Write(Of({}, "none"), "waiting") /\ "waiting" \in RunStatuses
    BY <1>3 DEF HoldEnds, RunStatuses
  <2>2. Clean' => Clean /\ \A n \in Nodes : record'[n] = record[n]
    BY <1>0, <1>1, <2>1, CleanWriteNone
  <2>3. SweepsGoOn' /\ UnheldHalts' /\ PlacesOne'
    BY <1>1, <2>1 DEF HeldInv, SweepsGoOn, UnheldHalts, PlacesOne, InSweep
  <2>4. AsItWent' => AsItWent
    BY <1>1, <2>2 DEF AsItWent, HeldInv, SweepsGoOn
  <2>5. Clean => \A n \in Nodes : record[n] = "waiting" => n \in sweep.holding
    BY <1>1, <1>3 DEF HeldInv, UnheldHalts, Waiting
  <2>6. Clean => \A n \in Nodes : record[n] = "waiting" => StaysSeenTo(n)
    BY <1>1, <2>5 DEF StaysSeenTo
  <2> QED BY <2>2, <2>3, <2>4, <2>6, AllStaySeen DEF HeldInv, AsItWent
<1> QED BY <1>2, <1>3

\* A run that is over owes its waits nothing.
LEMMA OverHeld ==
    ASSUME pc' \in {"free", "recovering"}, PlacesOne', Clean' => Finished(runStatus')
    PROVE  HeldInv'
BY DEF HeldInv, SweepsGoOn, UnheldHalts, WaitsAreSeen, AsItWent, InSweep

LEMMA SweepStepHeld ==
    ASSUME IInv, RecordInv, EarlyIsKept, HeldInv, SweepStep
    PROVE  HeldInv'
<1>1. CASE Close
  <2>1. pc' = "free" /\ placing' = placing
    BY <1>1 DEF Close, vigils
  <2>2. PlacesOne'
    BY <2>1 DEF HeldInv, PlacesOne
  <2> QED BY <1>1, <2>1, <2>2, CloseRecord, OverHeld
<1> QED BY <1>1, LooksHeld, PlaceHeld, HoldHeld, HoldEndsHeld DEF SweepStep

\* An answer is nowhere lost between being told, looked up and claimed.
LEMMA AnswerStepHeld ==
    ASSUME IInv, HeldInv, NEW k \in Nodes, AnswerStep(k) \/ VigilIsAnswered(k)
    PROVE  HeldInv'
<1>0. TypeOK
  BY DEF IInv
<1>1. /\ UNCHANGED <<record, runStatus, lost, overtaken, pc, sweep, vigil, placing, recovery, todo,
                     granted, revived>>
      /\ tasks \subseteq tasks'
  BY DEF AnswerStep, LookUp, KeepEarly, LookUpAgain, LookUpAgainIf, VigilIsAnswered, writes, vigils, starts,
         asked, history
<1>2. SweepsGoOn' /\ UnheldHalts' /\ PlacesOne'
  BY <1>1 DEF HeldInv, SweepsGoOn, UnheldHalts, PlacesOne, InSweep, Clean
<1>3. \A n \in Nodes \ {k} : StaysSeenTo(n)
  <2>1. \A n \in Nodes \ {k} : answering'[n] = answering[n] /\ (n \in early => n \in early')
    BY <1>0 DEF AnswerStep, LookUp, KeepEarly, LookUpAgain, LookUpAgainIf, VigilIsAnswered, TypeOK
  <2> QED BY <1>1, <2>1 DEF StaysSeenTo, InSweep
<1>4. SeenTo(k) => SeenTo(k)'
  <2> SUFFICES ASSUME SeenTo(k) PROVE SeenTo(k)'
    OBVIOUS
  <2>1. PlacedFor(k) => PlacedFor(k)'
    BY <1>1 DEF PlacedFor, InSweep
  <2> DEFINE other == \/ ResumeTask(k) \in tasks
                      \/ recovery = "starting"
                      \/ recovery = "waits" /\ \E w \in todo : w.node = k
                      \/ pc = "recovering" /\ k \in placing
                      \/ InSweep /\ k \notin sweep.holding
             byVigil == /\ vigil[k] = "held"
                        /\ \/ answering[k] \in {"no", "told", "unheld"}
                           \/ answering[k] = "lookingAgain" /\ k \in early
  <2>2. WaitFor(k) => byVigil \/ other
    BY DEF WaitFor
  <2>3. other => WaitFor(k)'
    BY <1>1 DEF WaitFor, InSweep, ResumeTask
  <2>4. byVigil => WaitFor(k)'
    <3> SUFFICES ASSUME byVigil PROVE byVigil' \/ ResumeTask(k) \in tasks'
      BY DEF WaitFor, ResumeTask
    <3>1. CASE VigilIsAnswered(k)
      BY <1>0, <1>1, <3>1 DEF VigilIsAnswered, TypeOK
    <3>2. CASE LookUp(k)
      BY <3>2 DEF LookUp
    <3>3. CASE KeepEarly(k)
      BY <1>0, <1>1, <3>3 DEF KeepEarly, TypeOK
    <3>4. CASE LookUpAgain(k)
      BY <3>4 DEF LookUpAgain, LookUpAgainIf
    <3> QED BY <3>1, <3>2, <3>3, <3>4 DEF AnswerStep
  <2> QED BY <1>1, <2>1, <2>2, <2>3, <2>4 DEF SeenTo
<1>5. WaitsAreSeen'
  <2> SUFFICES ASSUME AsItWent', NEW n \in Nodes, record'[n] = "waiting" PROVE SeenTo(n)'
    BY DEF WaitsAreSeen
  <2>1. SeenTo(n)
    BY <1>1 DEF AsItWent, Clean, HeldInv, WaitsAreSeen
  <2>2. CASE n = k
    BY <1>4, <2>1, <2>2
  <2>3. CASE n # k
    BY <1>3, <2>1, <2>3, StaysSeen
  <2> QED BY <2>2, <2>3
<1> QED BY <1>2, <1>5 DEF HeldInv

\* Who takes the turn leaves the other waits to what sees to them, or to its own sweep.
LEMMA ResumeHeld ==
    ASSUME IInv, RecordInv, HeldInv, NEW k \in Nodes, Resume(k)
    PROVE  HeldInv'
<1>0. TypeOK /\ AllRelated
  BY DEF IInv, RecordInv
<1>1. /\ pc = "free" /\ tasks' = tasks \ {ResumeTask(k)}
      /\ UNCHANGED <<recovery, todo, answering, early, granted, overtaken>>
  BY <1>0, ResumeDoes
<1>2. \A n \in Nodes \ {k} : ResumeTask(n) \in tasks => ResumeTask(n) \in tasks'
  <2>1. \A n \in Nodes \ {k} : ResumeTask(n) # ResumeTask(k)
    <3> SUFFICES ASSUME NEW n \in Nodes \ {k}, ResumeTask(n) = ResumeTask(k) PROVE FALSE
      OBVIOUS
    <3>1. ResumeTask(n).node = n /\ ResumeTask(k).node = k
      BY DEF ResumeTask
    <3> QED BY <3>1
  <2> QED BY <1>1, <2>1
<1>3. ~InSweep /\ pc # "recovering"
  BY <1>1 DEF InSweep
<1>4. CASE record[k] # "waiting" /\ UNCHANGED <<writes, vigils, pc, sweep, revived>>
  <2>1. SweepsGoOn' /\ UnheldHalts' /\ PlacesOne'
    BY <1>1, <1>4 DEF HeldInv, SweepsGoOn, UnheldHalts, PlacesOne, InSweep, vigils
  <2>2. AsItWent' => AsItWent
    BY <1>1, <1>4 DEF AsItWent, Clean, writes
  <2>3. \A n \in Nodes \ {k} : StaysSeenTo(n)
    BY <1>1, <1>2, <1>3, <1>4 DEF StaysSeenTo, vigils
  <2> QED BY <1>4, <2>1, <2>2, <2>3, AllStaySeen DEF HeldInv, writes
<1>5. CASE FailsRun
  <2>1. pc' = "free" /\ placing' = placing /\ (Clean' => Finished(runStatus'))
    BY <1>1, <1>5 DEF FailsRun, vigils, Finished
  <2>2. PlacesOne'
    BY <2>1 DEF HeldInv, PlacesOne
  <2> QED BY <2>1, <2>2, OverHeld
<1>6. CASE TakesRunUp(k)
  <2>0. /\ pc' = "sweeping" /\ placing' = placing /\ vigil' = [vigil EXCEPT ![k] = "gone"]
        /\ sweep'.holding = {n \in Nodes \ {k} : record[n] = "waiting"}
        /\ Clean' => /\ Clean /\ runStatus' = "running"
                     /\ \A n \in Nodes : record'[n] = IF n = k THEN "succeeded" ELSE record[n]
    BY <1>6 DEF TakesRunUp
  <2>1. SweepsGoOn' /\ UnheldHalts' /\ PlacesOne'
    BY <2>0 DEF HeldInv, SweepsGoOn, UnheldHalts, PlacesOne, Finished
  <2>2. ~revived' => ~revived /\ ~Finished(runStatus)
    BY <1>6 DEF TakesRunUp
  <2>3. AsItWent' => AsItWent
    BY <1>1, <2>0, <2>2 DEF AsItWent
  <2>4. \A n \in Nodes \ {k} : vigil'[n] = vigil[n]
    BY <1>0, <2>0 DEF TypeOK
  <2>5. \A n \in Nodes \ {k} : StaysSeenTo(n)
    BY <1>1, <1>2, <1>3, <2>4 DEF StaysSeenTo
  <2> QED BY <2>0, <2>1, <2>3, <2>5, AllStaySeen DEF HeldInv, AsItWent
<1> QED BY <1>0, <1>4, <1>5, <1>6, ResumeDoes

LEMMA BackgroundHeld ==
    ASSUME IInv, RecordInv, HeldInv, NEW t, CarryOnInTheBackground(t)
    PROVE  HeldInv'
<1>0. TypeOK /\ AllRelated
  BY DEF IInv, RecordInv
<1>1. /\ pc = "free" /\ pc' = "sweeping" /\ t.kind = "sweep" /\ tasks' = tasks \ {t} /\ t \in tasks
      /\ UNCHANGED <<record, runStatus, vigil, placing, answering, early, recovery, todo, granted, revived>>
      /\ Clean' => Clean /\ t.status = runStatus
  BY <1>0, BackgroundDoes DEF writes, vigils, answers, starts, CarryOnInTheBackground, TakesTurn
<1>2. SweepsGoOn'
  <2>1. ~Finished(t.status)
    BY <1>1 DEF IInv, TasksGoOn
  <2> QED BY <1>1, <2>1 DEF SweepsGoOn
<1>3. UnheldHalts' /\ PlacesOne'
  BY <1>1 DEF HeldInv, UnheldHalts, PlacesOne
<1>4. AsItWent' => AsItWent
  BY <1>1 DEF AsItWent
<1>5. \A n \in Nodes : ResumeTask(n) \in tasks => ResumeTask(n) \in tasks'
  BY <1>1 DEF ResumeTask
<1>6. \A n \in Nodes : StaysSeenTo(n)
  BY <1>1, <1>5 DEF StaysSeenTo, InSweep
<1> QED BY <1>1, <1>2, <1>3, <1>4, <1>6, AllStaySeen DEF HeldInv

LEMMA EndStoppedHeld ==
    ASSUME IInv, RecordInv, HeldInv, EndStopped
    PROVE  HeldInv'
<1>0. TypeOK /\ AllRelated
  BY DEF IInv, RecordInv
<1>1. /\ pc' = "free" /\ placing' = placing /\ overtaken' = overtaken
      /\ \/ Finished(runStatus) /\ runStatus' = runStatus
         \/ Clean' => runStatus' = "cancelled"
  BY <1>0, EndStoppedDoes DEF writes
<1>2. PlacesOne' /\ (Clean' => Finished(runStatus'))
  BY <1>1 DEF HeldInv, PlacesOne, Finished
<1> QED BY <1>1, <1>2, OverHeld

LEMMA TakeUpHeld ==
    ASSUME IInv, RecordInv, HeldInv, NEW t \in tasks, TakeUp(t)
    PROVE  HeldInv'
BY ResumeHeld, BackgroundHeld, EndStoppedHeld DEF TakeUp

\* A recovery lists every wait of a run that is not over, whether a node run holds its vigil.
LEMMA ListWaitsHeld ==
    ASSUME IInv, HeldInv, ListWaits
    PROVE  HeldInv'
<1>1. /\ UNCHANGED <<record, runStatus, lost, overtaken, pc, sweep, vigil, placing, answering, early,
                     tasks, granted, revived>>
      /\ recovery' = "waits"
  BY DEF ListWaits, writes, vigils, answers, asked, history
<1>2. SweepsGoOn' /\ UnheldHalts' /\ PlacesOne'
  BY <1>1 DEF HeldInv, SweepsGoOn, UnheldHalts, PlacesOne, InSweep, Clean
<1>3. ASSUME AsItWent', NEW n \in Nodes, record'[n] = "waiting" PROVE SeenTo(n)'
  <2> DEFINE w == [node |-> n, awaited |-> n \in awaited, held |-> vigil[n] = "held"]
  <2>1. ~Finished(runStatus) /\ record[n] = "waiting"
    BY <1>1, <1>3 DEF AsItWent
  <2>2. w \in todo'
    BY <2>1 DEF ListWaits
  <2>3. w.node = n /\ (vigil[n] = "placed" => ~w.held)
    OBVIOUS
  <2> HIDE DEF w
  <2> QED BY <1>1, <2>2, <2>3 DEF SeenTo, WaitFor, PlacedFor
<1> QED BY <1>2, <1>3 DEF HeldInv, WaitsAreSeen

\* It leaves a wait alone only while a node run holds its vigil, or takes it for placed.
LEMMA SkipWaitHeld ==
    ASSUME IInv, HeldInv, NEW w \in todo, SkipWait(w)
    PROVE  HeldInv'
<1>0. TypeOK
  BY DEF IInv
<1>1. /\ UNCHANGED <<record, runStatus, lost, overtaken, pc, sweep, vigil, placing, answering, early,
                     tasks, granted, revived, recovery>>
      /\ todo' = todo \ {w} /\ w.held /\ Live(w.node) /\ w.node \in Nodes
  BY <1>0 DEF SkipWait, writes, vigils, answers, asked, history, TypeOK, Listed
<1>2. SweepsGoOn' /\ UnheldHalts' /\ PlacesOne'
  BY <1>1 DEF HeldInv, SweepsGoOn, UnheldHalts, PlacesOne, InSweep, Clean
<1>3. \A n \in Nodes \ {w.node} : StaysSeenTo(n)
  BY <1>1 DEF StaysSeenTo, InSweep
<1>4. SeenTo(w.node) => SeenTo(w.node)'
  <2> SUFFICES ASSUME SeenTo(w.node) PROVE SeenTo(w.node)'
    OBVIOUS
  <2> DEFINE k == w.node
  <2>1. vigil[k] \in {"placed", "held"} /\ answering[k] = "no"
    BY <1>1 DEF Live
  <2>2. PlacedFor(k) => PlacedFor(k)'
    BY <1>1 DEF PlacedFor, InSweep
  <2>3. PlacedFor(k)' => WaitFor(k)'
    BY DEF PlacedFor, WaitFor
  <2>4. vigil[k] = "held" => WaitFor(k)'
    BY <1>1, <2>1 DEF WaitFor
  <2> QED BY <1>1, <2>1, <2>2, <2>3, <2>4 DEF SeenTo
<1>5. WaitsAreSeen'
  <2> SUFFICES ASSUME AsItWent', NEW n \in Nodes, record'[n] = "waiting" PROVE SeenTo(n)'
    BY DEF WaitsAreSeen
  <2>1. SeenTo(n)
    BY <1>1 DEF AsItWent, Clean, HeldInv, WaitsAreSeen
  <2> QED BY <1>3, <1>4, <2>1, StaysSeen
<1> QED BY <1>2, <1>5 DEF HeldInv

\* A wait it takes up again has its vigil on its way.
LEMMA RecoverWaitHeld ==
    ASSUME IInv, RecordInv, EarlyIsKept, HeldInv, NEW w \in todo, RecoverWait(w)
    PROVE  HeldInv'
<1>0. TypeOK /\ AllRelated
  BY DEF IInv, RecordInv
<1>1. /\ pc = "free" /\ w.node \in Nodes /\ recovery = "waits" /\ todo' = todo \ {w}
      /\ UNCHANGED <<sweep, tasks, recovery, granted, revived>>
      /\ overtaken => overtaken'
  BY <1>0, RecoverWaitDoes
<1>2. placing = {}
  BY <1>1 DEF EarlyIsKept
<1>3. ASSUME RecoveredFails(w.node), placing' \in {placing, {}} PROVE HeldInv'
  <2>1. PlacesOne' /\ pc' \in {"free", "recovering"} /\ (Clean' => Finished(runStatus'))
    BY <1>2, <1>3 DEF PlacesOne, RecoveredFails, Finished
  <2> QED BY <2>1, OverHeld
<1>4. ASSUME PlaceVigil(w.node), pc' = "recovering", UNCHANGED writes PROVE HeldInv'
  <2>1. /\ placing' = {w.node}
        /\ \A n \in Nodes \ {w.node} : /\ vigil'[n] = vigil[n] /\ answering'[n] = answering[n]
                                       /\ n \in early => n \in early'
    BY <1>0, <1>1, <1>4 DEF PlaceVigil, TypeOK
  <2>2. SweepsGoOn' /\ UnheldHalts' /\ PlacesOne'
    BY <1>4, <2>1 DEF SweepsGoOn, UnheldHalts, PlacesOne, InSweep
  <2>3. AsItWent' => AsItWent
    BY <1>1, <1>4 DEF AsItWent, Clean, writes
  <2>4. \A n \in Nodes \ {w.node} : StaysSeenTo(n)
    BY <1>1, <2>1 DEF StaysSeenTo, InSweep
  <2>5. SeenTo(w.node)'
    BY <1>4, <2>1 DEF SeenTo, WaitFor, PlacedFor
  <2> QED BY <1>4, <2>2, <2>3, <2>4, <2>5, AllStaySeen DEF HeldInv, writes
<1> QED BY <1>0, <1>3, <1>4, RecoverWaitDoes

LEMMA RecoverWaitEndsHeld ==
    ASSUME IInv, RecordInv, EarlyIsKept, HeldInv, NEW k \in Nodes, RecoverWaitEnds(k)
    PROVE  HeldInv'
<1>0. TypeOK /\ AllRelated
  BY DEF IInv, RecordInv
<1>1. /\ pc = "recovering" /\ pc' = "free" /\ k \in placing /\ placing' = {}
      /\ UNCHANGED <<sweep, recovery, todo, answering, granted, revived, overtaken>>
  BY <1>0, RecoverWaitEndsDoes DEF starts
<1>2. PlacesOne'
  BY <1>1 DEF PlacesOne
<1>3. ASSUME RecoveredFails(k) PROVE HeldInv'
  <2>1. Clean' => Finished(runStatus')
    BY <1>3 DEF RecoveredFails, Finished
  <2> QED BY <1>1, <1>2, <2>1, OverHeld
<1>4. ASSUME RelateVigil(k), UNCHANGED writes PROVE HeldInv'
  <2>1. /\ SeenTo(k)'
        /\ \A n \in Nodes \ {k} : /\ vigil'[n] = vigil[n] /\ (n \in early => n \in early')
                                  /\ ResumeTask(n) \in tasks => ResumeTask(n) \in tasks'
    BY <1>0, <1>1, <1>4, RelatedSees
  <2>2. SweepsGoOn' /\ UnheldHalts'
    BY <1>1 DEF SweepsGoOn, UnheldHalts, InSweep
  <2>3. AsItWent' => AsItWent
    BY <1>1, <1>4 DEF AsItWent, Clean, writes
  <2>4. \A n \in Nodes \ {k} : n \notin placing
    BY <1>1 DEF HeldInv, PlacesOne
  <2>5. \A n \in Nodes \ {k} : StaysSeenTo(n)
    BY <1>1, <2>1, <2>4 DEF StaysSeenTo, InSweep
  <2> QED BY <1>2, <1>4, <2>1, <2>2, <2>3, <2>5, AllStaySeen DEF HeldInv, writes
<1> QED BY <1>0, <1>3, <1>4, RecoverWaitEndsDoes

\* When it comes to what is under way it is through with the waits.
LEMMA UnfinishedHeld ==
    ASSUME IInv, RecordInv, HeldInv, ListUnfinished \/ RecoverUnfinished
    PROVE  HeldInv'
<1>0. TypeOK /\ AllRelated
  BY DEF IInv, RecordInv
<1>1. UNCHANGED <<vigil, placing, pc, sweep, answering, early, granted, revived, overtaken>> /\ tasks \subseteq tasks'
  BY DEF ListUnfinished, ListUnfinishedIn, RecoverUnfinished, RecoverUnfinishedUnless, vigils, answers,
         asked, history, writes
<1>2. /\ recovery # "starting"
      /\ recovery = "waits" => todo = {}
  BY DEF ListUnfinished, ListUnfinishedIn, RecoverUnfinished, RecoverUnfinishedUnless
<1>3. ASSUME UNCHANGED writes PROVE HeldInv'
  <2>1. SweepsGoOn' /\ UnheldHalts' /\ PlacesOne'
    BY <1>1, <1>3 DEF HeldInv, SweepsGoOn, UnheldHalts, PlacesOne, InSweep, Clean, writes
  <2>2. AsItWent' => AsItWent
    BY <1>1, <1>3 DEF AsItWent, Clean, writes
  <2>3. \A n \in Nodes : StaysSeenTo(n)
    BY <1>1, <1>2 DEF StaysSeenTo, InSweep
  <2> QED BY <1>3, <2>1, <2>2, <2>3, AllStaySeen DEF HeldInv, writes
<1>4. ASSUME RecoverUnfinished, NEW w \in todo, Write(Of({w.node}, "interrupted"), "failed") PROVE HeldInv'
  <2> DEFINE ns == {w.node}
             v == "interrupted"
             status == "failed"
  <2>1. /\ ns \in SUBSET Nodes /\ v \in Statuses \ {"none"} /\ status \in RunStatuses
        /\ Write(Of(ns, v), status)
    BY <1>0, <1>4 DEF TypeOK, Listed, Statuses, RunStatuses
  <2> HIDE DEF ns, v
  <2>2. Clean' => Finished(runStatus')
    BY <1>0, <1>1, <2>1, CleanWriteOf DEF Finished
  <2>3. pc' = "free" /\ PlacesOne'
    BY <1>1, <1>4 DEF HeldInv, PlacesOne, RecoverUnfinished, RecoverUnfinishedUnless
  <2> QED BY <2>2, <2>3, OverHeld
<1> QED BY <1>3, <1>4 DEF ListUnfinished, ListUnfinishedIn, RecoverUnfinished, RecoverUnfinishedUnless

LEMMA RecoveryStepHeld ==
    ASSUME IInv, RecordInv, EarlyIsKept, HeldInv, RecoveryStep
    PROVE  HeldInv'
BY ListWaitsHeld, SkipWaitHeld, RecoverWaitHeld, RecoverWaitEndsHeld, UnfinishedHeld DEF RecoveryStep

LEMMA OthersHeld ==
    ASSUME IInv, RecordInv, HeldInv, Others
    PROVE  HeldInv'
<1>0. TypeOK
  BY DEF IInv
<1>1. CASE AskStop
  <2>1. /\ UNCHANGED <<record, runStatus, lost, overtaken, pc, sweep, vigil, placing, answering, early,
                       granted, revived, recovery, todo>>
        /\ tasks \subseteq tasks'
    BY <1>1 DEF AskStop, writes, vigils, answers, starts, history
  <2>2. SweepsGoOn' /\ UnheldHalts' /\ PlacesOne'
    BY <2>1 DEF HeldInv, SweepsGoOn, UnheldHalts, PlacesOne, InSweep, Clean
  <2>3. AsItWent' => AsItWent
    BY <2>1 DEF AsItWent, Clean
  <2>4. \A n \in Nodes : StaysSeenTo(n)
    BY <2>1 DEF StaysSeenTo, InSweep
  <2> QED BY <2>1, <2>2, <2>3, <2>4, AllStaySeen DEF HeldInv
<1>2. CASE CarryOn
  <2>1. pc' = "free" /\ granted' = granted + 1 /\ placing' = placing
    BY <1>2 DEF CarryOn, CarryOnUnless, vigils
  <2>2. granted \in Nat
    <3>1. granted \in 0 .. asks /\ asks \in 0 .. MaxAsks /\ MaxAsks \in Nat
      BY <1>0, LifecycleAssumption DEF TypeOK
    <3> QED BY <3>1
  <2>3. granted' # 0
    BY <2>1, <2>2
  <2> QED BY <2>1, <2>3 DEF HeldInv, SweepsGoOn, UnheldHalts, PlacesOne, WaitsAreSeen, AsItWent, InSweep
<1>3. CASE StartAgain
  <2>1. pc' = "free" /\ runStatus' = "failed" /\ placing' = placing
    BY <1>3 DEF StartAgain, StoppedByARestart, writes, vigils
  <2>2. PlacesOne' /\ Finished(runStatus')
    BY <2>1 DEF HeldInv, PlacesOne, Finished
  <2> QED BY <2>1, <2>2, OverHeld
<1>4. CASE Crash
  <2>1. pc' = "free" /\ placing' = {} /\ recovery' = "starting"
    BY <1>4 DEF Crash
  <2> QED BY <2>1 DEF HeldInv, SweepsGoOn, UnheldHalts, PlacesOne, WaitsAreSeen, InSweep, SeenTo, WaitFor,
                      PlacedFor
<1> QED BY <1>1, <1>2, <1>3, <1>4, AnswerStepHeld DEF Others

LEMMA NextHeld ==
    IInv /\ RecordInv /\ EarlyIsKept /\ HeldInv /\ [Next]_vars => HeldInv'
<1> SUFFICES ASSUME IInv, RecordInv, EarlyIsKept, HeldInv, [Next]_vars PROVE HeldInv'
  OBVIOUS
<1>1. CASE UNCHANGED vars
  <2>1. UNCHANGED <<record, runStatus, lost, overtaken, pc, sweep, vigil, placing, answering, early, tasks,
                    granted, revived, recovery, todo>>
    BY <1>1 DEF vars, writes, vigils, answers, starts, asked, history
  <2>2. SweepsGoOn' /\ UnheldHalts' /\ PlacesOne'
    BY <2>1 DEF HeldInv, SweepsGoOn, UnheldHalts, PlacesOne, InSweep, Clean
  <2>3. AsItWent' => AsItWent
    BY <2>1 DEF AsItWent, Clean
  <2>4. \A n \in Nodes : StaysSeenTo(n)
    BY <2>1 DEF StaysSeenTo, InSweep
  <2> QED BY <2>1, <2>2, <2>3, <2>4, AllStaySeen DEF HeldInv
<1>2. CASE Process
  BY <1>2, SweepStepHeld, NodeStepHeld, AnswerStepHeld, TakeUpHeld, RecoveryStepHeld DEF Process
<1> QED BY <1>1, <1>2, OthersHeld DEF Next

LEMMA InitHeld == Init => HeldInv
<1> SUFFICES ASSUME Init PROVE HeldInv
  OBVIOUS
<1>1. pc = "sweeping" /\ placing = {} /\ recovery = "starting" /\ runStatus = "running"
  BY DEF Init
<1> QED BY <1>1 DEF HeldInv, SweepsGoOn, UnheldHalts, PlacesOne, WaitsAreSeen, SeenTo, WaitFor, PlacedFor,
                    Finished

\* Where no write is lost and nobody is overtaken, a node of a run that is not over and still
\* waits, once all is done that this process had to do, holds a vigil that was not answered:
\* no answer is lost over any number of crashes, recoveries, stops and crossings of an answer
\* with the placing of its vigil, unless a person or another answer took up a failed run.
THEOREM EveryWaitIsHeld == Spec => []WaitsAreHeld
<1>1. HeldInv => WaitsAreHeld
  <2> SUFFICES ASSUME HeldInv, Quiet, ~overtaken, lost = 0, granted = 0, ~revived, ~Finished(runStatus),
                      NEW n \in Nodes, record[n] = "waiting"
               PROVE  vigil[n] = "held" /\ answering[n] = "no"
    BY DEF WaitsAreHeld
  <2>1. SeenTo(n)
    BY DEF HeldInv, WaitsAreSeen, AsItWent, Clean
  <2>2. WaitFor(n) /\ pc = "free" /\ tasks = {} /\ recovery = "done" /\ answering[n] \in {"no", "done"}
    BY <2>1 DEF SeenTo, Quiet
  <2> QED BY <2>2 DEF WaitFor, InSweep
<1>2. Spec => []HeldInv
  BY InitHeld, NextHeld, AlwaysIInv, AlwaysRecordInv, PTL DEF Spec
<1> QED BY <1>1, <1>2, PTL
-----------------------------------------------------------------------------

(***************************************************************************)
(* How often a node's service is called.  What a node may be called is     *)
(* spent when its call begins, and given back by a crash where it may be   *)
(* called again or is retried, and by a person.  A sweep calls a node only *)
(* where some is left: what the record would have called with nothing left *)
(* either keeps the run from going on, or no sweep can start any more.     *)
(* One write that is lost leaves one node at most that the record tells    *)
(* otherwise, and the loss of a second is not made up for.                 *)
(***************************************************************************)
Almost == lost < 2 /\ ~overtaken

Credited == dag.retried \union dag.again

Allowed(n) == (IF n \in dag.retried THEN MaxAttempts ELSE 1) + granted
                + (IF n \in Credited THEN crashes ELSE 0)

MayBeCalled(n) == calls[n] < Allowed(n)

\* What a sweep that takes up the record would call.
Callable == BegunSays \union {"none"}

NoneWaits == \A m \in Nodes : record[m] # "waiting"

\* A node that only a person can have called again keeps the run from going on.
StaysCaught == Caught(record) \ dag.again # {}

\* No sweep starts any more.
Dead == AtRest /\ runStatus = "cancelled" /\ NoneWaits

\* A node of which its first write was lost.
Traceless(n) == \/ Unrelated(n)
                \/ n \notin dag.retried /\ calls[n] >= 1 /\ record[n] = "none"

\* A node of which the record and the sweep tell otherwise.
Unmatched(n) == /\ sweep.result[n] # "none" /\ record[n] # sweep.result[n]
                /\ ~(pc # "sweeping" /\ sweep.result[n] = "failed" /\ record[n] = "waiting")

Deviates(n) == \/ Unmatched(n)
               \/ sweep.task[n] \notin {"none", "queued"} /\ record[n] \notin {"running", "trying"}

-----------------------------------------------------------------------------
AttemptsTell ==
    \A n \in dag.retried :
        calls[n] <= attempts[n] + granted + crashes + (IF sweep.task[n] = "calling" THEN 1 ELSE 0)

OutputIsNotCalled == calls[dag.output] = 0 /\ sweep.task[dag.output] \notin {"between", "calling"}

TriesAreRetried ==
    \A n \in Nodes : record[n] = "trying" \/ sweep.task[n] = "between" => n \in dag.retried

ListedIsBegun == \A w \in todo : record[w.node] # "none"

TasksMissNothing == \A t \in tasks : t.kind = "sweep" => Missing(t.rec) = {}

RecoveredWaits == Almost /\ pc = "recovering" => \A n \in placing : record[n] = "waiting"

HeldIsRecorded ==
    pc = "holding" => \A n \in Nodes : sweep.result[n] # "none" => ~Unmatched(n)

\* What a sweep has yet to settle is not over on the record.
OpenIsNotOver ==
    ~overtaken /\ InSweep => \A n \in Nodes :
        /\ sweep.result[n] = "none" => record[n] \in Callable
        /\ sweep.result[n] = "waiting" => record[n] \in Callable \union {"waiting"}

Plain == /\ AttemptsTell
         /\ OutputIsNotCalled
         /\ TriesAreRetried
         /\ ListedIsBegun
         /\ TasksMissNothing
         /\ RecoveredWaits
         /\ HeldIsRecorded
         /\ OpenIsNotOver

\* Where nothing is lost, what comes after is recorded after.
RecordedInOrder ==
    Clean /\ runStatus # "cancelled" =>
        \A n \in Nodes : record[n] # "none" => \A m \in Into(n) : record[m] \in OverSays

OneDeviates ==
    Almost /\ InSweep => /\ \A m, n \in Nodes : Deviates(m) /\ Deviates(n) => m = n
                         /\ lost = 0 => \A n \in Nodes : ~Deviates(n)

\* Nothing is behind a node without a trace that is not over: it is missing, and the record
\* cannot be gone on from.
MissedIn(n) == \A b \in Nodes : b = n \/ record[b] # "none" =>
                   \A a \in Into(b) : a = n \/ record[a] \in OverSays

TracelessIsMissed(n) ==
    \/ Dead
    \/ /\ lost = 1
       /\ MissedIn(n)
       /\ InSweep => n \in created /\ (sweep.result[n] # "none" \/ sweep.task[n] \notin {"none", "queued"})
       /\ AtRest => \/ Finished(runStatus)
                    \/ /\ n \notin created
                       /\ recovery = "unfinished" => \A w \in todo : record[w.node] \in {"running", "trying"}

TracelessAreMissed == Almost => \A n \in Nodes : Traceless(n) => TracelessIsMissed(n)

\* What a recovery would mark interrupted was not called since, or it does not matter.
ListedOneLost ==
    ~overtaken /\ lost = 1 /\ recovery = "unfinished" =>
        \A w \in todo : \/ InSweep
                        \/ record[w.node] \in {"running", "trying"}
                        \/ Finished(runStatus)
                        \/ Missing(record) = {} \/ NoneWaits \/ StaysCaught

Traces == RecordedInOrder /\ OneDeviates /\ TracelessAreMissed /\ ListedOneLost

CallsWithin == Almost => \A n \in Nodes : calls[n] <= Allowed(n)

OpenMayBeCalled ==
    Almost /\ InSweep => \A n \in Nodes :
        sweep.result[n] = "none" /\ sweep.task[n] \in {"none", "queued", "between"} => MayBeCalled(n)

SpentAtRest(n) == \/ record[n] \notin Callable
                  \/ Finished(runStatus) /\ NoneWaits
                  \/ lost = 1 /\ StaysCaught

RestMayBeCalled ==
    Almost /\ AtRest => \A n \in Credited \intersect Nodes : ~MayBeCalled(n) => SpentAtRest(n)

TaskMayCall ==
    Almost /\ AtRest /\ ~Finished(runStatus) /\ (\E t \in tasks : t.kind = "sweep") =>
        \A n \in Nodes : record[n] \in Callable => MayBeCalled(n)

Sparing == CallsWithin /\ OpenMayBeCalled /\ RestMayBeCalled /\ TaskMayCall

SparedInv == Plain /\ Traces /\ Sparing

-----------------------------------------------------------------------------
\* What a write does where at most one is lost.
Loses(failing, status) ==
    /\ lost \in {0, 1} /\ lost' \in {0, 1} /\ lost <= lost'
    /\ \A m, n \in failing : m = n
    /\ runStatus' \in {runStatus, status}
    /\ lost' = lost => failing = {} /\ runStatus' = status
    /\ runStatus' # status => failing = {}

LEMMA WriteLoses ==
    ASSUME TypeOK, NEW ns \in SUBSET Nodes, NEW written \in [ns -> Statuses],
           NEW status \in RunStatuses, Write(written, status), lost' < 2
    PROVE  \E failing \in SUBSET ns :
              /\ Loses(failing, status)
              /\ \A n \in Nodes : record'[n] = IF n \in ns \ failing /\ ~Unrelated(n) THEN written[n]
                                               ELSE record[n]
              /\ created' = created \union ns
<1>1. PICK failing \in SUBSET ns, refused \in {FALSE, status # runStatus} :
         /\ lost' = lost + Cardinality(failing) + (IF refused THEN 1 ELSE 0)
         /\ lost' <= MaxLost
         /\ record' = [n \in Nodes |-> IF n \in ns \ failing /\ ~Unrelated(n) THEN written[n]
                                       ELSE record[n]]
         /\ created' = created \union ns
         /\ runStatus' = IF refused THEN runStatus ELSE status
  <2>1. DOMAIN written = ns
    OBVIOUS
  <2> QED BY <2>1 DEF Write
<1>2. IsFiniteSet(failing)
  BY LifecycleAssumption, FS_Subset
<1>3. /\ Cardinality(failing) \in Nat
      /\ Cardinality(failing) = 0 => failing = {}
      /\ Cardinality(failing) = 1 => \E x : failing = {x}
  BY <1>2, FS_CardinalityType, FS_EmptySet, FS_Singleton
<1>4. lost \in Nat
  BY DEF TypeOK
<1> DEFINE r == IF refused THEN 1 ELSE 0
           k == Cardinality(failing)
<1>5. r \in {0, 1} /\ (refused <=> r = 1) /\ k \in Nat /\ lost' = lost + k + r
  BY <1>1, <1>3
<1> HIDE DEF r, k
<1>6. /\ lost \in {0, 1} /\ lost' \in {0, 1} /\ lost <= lost'
      /\ k \in {0, 1}
      /\ lost' = lost => k = 0 /\ r = 0
      /\ r = 1 => k = 0
  BY <1>4, <1>5
<1>7. \A m, n \in failing : m = n
  BY <1>3, <1>6 DEF k
<1>8. /\ refused => failing = {}
      /\ lost' = lost => failing = {} /\ ~refused
  BY <1>3, <1>5, <1>6 DEF k
<1>9. Loses(failing, status)
  BY <1>1, <1>6, <1>7, <1>8 DEF Loses
<1> QED BY <1>1, <1>9
-----------------------------------------------------------------------------

\* A node whose sweep is through with it and that does not deviate is over on the record, too.
LEMMA SettledIsOver ==
    ASSUME TypeOK, NEW n \in Nodes, Settled(n), ~Deviates(n), pc = "sweeping"
    PROVE  record[n] \in OverSays
<1>1. sweep.result[n] \in Results /\ sweep.result[n] \notin {"none", "waiting"}
  BY SweepParts DEF Settled
<1>2. record[n] = sweep.result[n]
  BY <1>1 DEF Deviates, Unmatched
<1> QED BY <1>1, <1>2 DEF Results, Answered, OverSays

\* A sweep has come to a node without a trace, and it is the one that deviates.
LEMMA TracelessInSweep ==
    ASSUME Traces, Almost, InSweep, NEW n \in Nodes, Traceless(n)
    PROVE  /\ lost = 1 /\ MissedIn(n) /\ n \in created
           /\ sweep.result[n] # "none" \/ sweep.task[n] \notin {"none", "queued"}
           /\ Unrelated(n) /\ Deviates(n)
           /\ \A m \in Nodes : Deviates(m) => m = n
<1>1. TracelessIsMissed(n) /\ ~Dead
  BY DEF Traces, TracelessAreMissed, Dead, InSweep, AtRest
<1>2. /\ lost = 1 /\ MissedIn(n) /\ n \in created
      /\ sweep.result[n] # "none" \/ sweep.task[n] \notin {"none", "queued"}
  BY <1>1 DEF TracelessIsMissed
<1>3. record[n] = "none"
  BY DEF Traceless, Unrelated
<1>4. Unrelated(n) /\ Deviates(n)
  BY <1>2, <1>3 DEF Unrelated, Deviates, Unmatched
<1> QED BY <1>2, <1>4 DEF Traces, OneDeviates

\* What a step of a sweep does that writes the nodes of ns, of which it loses some.
SweepsOn(ns, failing) ==
    /\ InSweep /\ InSweep' /\ UNCHANGED <<dag, overtaken, recovery, todo>>
    /\ Loses(failing, runStatus)
    /\ created' = created \union ns
    /\ \A n \in Nodes :
          /\ n \notin ns \ failing \/ Unrelated(n) => record'[n] = record[n]
          /\ n \in ns \ failing /\ ~Unrelated(n) => record'[n] # "none"
          /\ record[n] \in OverSays => record'[n] \in OverSays
          /\ sweep.result[n] # "none" => sweep'.result[n] # "none"
          /\ sweep.task[n] \notin {"none", "queued"} =>
                sweep'.result[n] # "none" \/ sweep'.task[n] \notin {"none", "queued"}
          /\ Deviates(n)' => Deviates(n) \/ n \in failing
          /\ n \notin dag.retried /\ calls'[n] >= 1 => calls[n] >= 1 \/ n \in ns
    /\ \A n \in ns :
          /\ sweep'.result[n] # "none" \/ sweep'.task[n] \notin {"none", "queued"}
          /\ record[n] = "none" =>
                Deviates(n) \/ (pc = "sweeping" /\ \A m \in Into(n) : Settled(m))

LEMMA SweepsOnKeeps ==
    ASSUME IInv, RecordInv, Traces, Almost', NEW ns \in SUBSET Nodes, NEW failing \in SUBSET ns,
           SweepsOn(ns, failing)
    PROVE  Traces'
<1>1. /\ InSweep /\ InSweep' /\ dag' = dag /\ overtaken' = overtaken /\ ~overtaken
      /\ created' = created \union ns
      /\ lost \in {0, 1} /\ lost' \in {0, 1} /\ lost <= lost' /\ runStatus' = runStatus
      /\ \A m, n \in failing : m = n
      /\ lost' = lost => failing = {}
  BY DEF SweepsOn, Loses, Almost
<1>2. Almost /\ TypeOK /\ AllRelated
  BY <1>1 DEF Almost, IInv, RecordInv
<1>3. \A n \in Nodes : Into(n)' = Into(n) /\ \A m \in Into(n) : m \in Nodes
  BY <1>1 DEF Into
<1>4. OneDeviates'
  <2>1. \A n \in Nodes : Deviates(n)' => Deviates(n) \/ n \in failing
    BY DEF SweepsOn
  <2>2. lost' = 0 => \A n \in Nodes : ~Deviates(n)'
    BY <1>1, <1>2, <2>1 DEF Traces, OneDeviates
  <2>3. \A m, n \in Nodes : Deviates(m)' /\ Deviates(n)' => m = n
    <3>1. CASE lost = 1
      BY <1>1, <1>2, <2>1, <3>1 DEF Traces, OneDeviates
    <3>2. CASE lost = 0
      BY <1>1, <1>2, <2>1, <3>2 DEF Traces, OneDeviates
    <3> QED BY <1>1, <3>1, <3>2
  <2> QED BY <2>2, <2>3 DEF OneDeviates
\* Where nothing was lost before, what is recorded now is recorded after what it follows.
<1>5. ASSUME lost = 0, NEW n \in Nodes, record'[n] # "none" \/ n \in ns, NEW m \in Into(n)
      PROVE  record'[m] \in OverSays
  <2>1. /\ m \in Nodes
        /\ record[m] \in OverSays => record'[m] \in OverSays
        /\ Clean /\ ~Deviates(m) /\ ~Deviates(n)
    BY <1>1, <1>2, <1>3, <1>5 DEF SweepsOn, Traces, OneDeviates, Clean
  <2>2. runStatus # "cancelled"
    BY <1>1, <2>1 DEF IInv, EndedAtRest, Ended, InSweep
  <2>3. CASE record[n] # "none"
    BY <1>5, <2>1, <2>2, <2>3 DEF Traces, RecordedInOrder
  <2>4. CASE record[n] = "none"
    <3>1. n \in ns
      BY <1>5, <2>4 DEF SweepsOn
    <3>2. pc = "sweeping" /\ Settled(m)
      BY <1>5, <2>1, <2>4, <3>1 DEF SweepsOn
    <3> QED BY <1>2, <2>1, <3>2, SettledIsOver
  <2> QED BY <2>3, <2>4
<1>6. RecordedInOrder'
  <2>1. Clean' => lost = 0
    BY <1>1 DEF Clean
  <2> QED BY <1>3, <1>5, <2>1 DEF RecordedInOrder
<1>7. ASSUME NEW n \in Nodes, Traceless(n)' PROVE TracelessIsMissed(n)'
  <2>0. ~AtRest'
    BY <1>1 DEF InSweep, AtRest
  <2>1. record'[n] = "none"
    BY <1>7 DEF Traceless, Unrelated
  <2>2. CASE Traceless(n)
    <3>1. /\ lost = 1 /\ MissedIn(n) /\ n \in created /\ Unrelated(n) /\ Deviates(n)
          /\ sweep.result[n] # "none" \/ sweep.task[n] \notin {"none", "queued"}
          /\ \A m \in Nodes : Deviates(m) => m = n
      BY <1>1, <1>2, <2>2, TracelessInSweep
    <3>2. lost' = 1 /\ failing = {}
      BY <1>1, <3>1
    <3>3. n \in created' /\ (sweep'.result[n] # "none" \/ sweep'.task[n] \notin {"none", "queued"})
      BY <1>1, <3>1 DEF SweepsOn
    <3>4. ASSUME NEW b \in Nodes, b = n \/ record'[b] # "none", NEW a \in Into(b), a # n
          PROVE  record'[a] \in OverSays
      <4>1. a \in Nodes /\ (record[a] \in OverSays => record'[a] \in OverSays)
        BY <1>3, <3>4 DEF SweepsOn
      <4>2. CASE b = n \/ record[b] # "none"
        BY <3>1, <3>4, <4>1, <4>2 DEF MissedIn
      <4>3. CASE b # n /\ record[b] = "none"
        <5>1. b \in ns /\ ~Deviates(b) /\ ~Deviates(a)
          BY <3>1, <3>4, <4>1, <4>3 DEF SweepsOn
        <5>2. pc = "sweeping" /\ Settled(a)
          BY <3>4, <4>3, <5>1 DEF SweepsOn
        <5> QED BY <1>2, <4>1, <5>1, <5>2, SettledIsOver
      <4> QED BY <4>2, <4>3
    <3>5. MissedIn(n)'
      BY <1>3, <3>4 DEF MissedIn
    <3> QED BY <1>1, <2>0, <3>2, <3>3, <3>5 DEF TracelessIsMissed
  <2>3. CASE ~Traceless(n)
    <3>1. record[n] = "none" /\ ~Unrelated(n)
      <4>1. record[n] = "none"
        BY <2>1, <1>1 DEF SweepsOn
      <4> QED BY <2>3, <4>1 DEF Traceless
    <3>2. n \in ns
      <4>1. CASE Unrelated(n)'
        BY <1>1, <3>1, <4>1 DEF Unrelated
      <4>2. CASE n \notin dag.retried /\ calls'[n] >= 1
        BY <2>3, <3>1, <4>2 DEF SweepsOn, Traceless
      <4> QED BY <1>1, <1>7, <4>1, <4>2 DEF Traceless
    <3>3. n \in failing
      BY <2>1, <3>1, <3>2 DEF SweepsOn
    <3>4. lost = 0 /\ lost' = 1
      BY <1>1, <3>3
    <3>5. MissedIn(n)'
      BY <1>3, <1>5, <3>2, <3>4 DEF MissedIn
    <3>6. n \in created' /\ (sweep'.result[n] # "none" \/ sweep'.task[n] \notin {"none", "queued"})
      BY <1>1, <3>2 DEF SweepsOn
    <3> QED BY <2>0, <3>4, <3>5, <3>6 DEF TracelessIsMissed
  <2> QED BY <2>2, <2>3
<1>8. TracelessAreMissed' /\ ListedOneLost'
  BY <1>1, <1>7 DEF TracelessAreMissed, ListedOneLost
<1> QED BY <1>4, <1>6, <1>8 DEF Traces
-----------------------------------------------------------------------------

\* What more than one write was lost of owes nothing.
LEMMA NothingOwed == ~Almost' => Traces' /\ Sparing'
BY DEF Almost, Traces, Sparing, RecordedInOrder, OneDeviates, TracelessAreMissed, ListedOneLost, CallsWithin,
       OpenMayBeCalled, RestMayBeCalled, TaskMayCall, Clean

LEMMA NothingWritten ==
    ASSUME TypeOK, Almost, UNCHANGED <<record, runStatus, created, lost>>
    PROVE  Loses({}, runStatus)
<1>1. lost \in {0, 1}
  BY DEF TypeOK, Almost
<1> QED BY <1>1 DEF Loses

\* A step of a sweep that calls nothing and gives no node back.
LEMMA SweepsPlainly ==
    ASSUME TypeOK, Plain, UNCHANGED <<dag, calls, attempts, granted, crashes, todo>>, InSweep',
           \A t \in tasks' : t.kind = "sweep" => t \in tasks,
           \A n \in Nodes : /\ sweep'.task[n] \in {"between", "calling"} => sweep.task[n] = sweep'.task[n]
                            /\ sweep.task[n] = "calling" => sweep'.task[n] = "calling"
                            /\ record'[n] = "none" => record[n] = "none"
                            /\ record'[n] = "trying" => record[n] = "trying",
           HeldIsRecorded', OpenIsNotOver'
    PROVE  Plain'
<1>1. dag.retried \subseteq Nodes /\ dag.output \in Nodes /\ \A w \in todo : w.node \in Nodes
  BY LifecycleAssumption DEF TypeOK, Drawing, Listed
<1>2. AttemptsTell'
  BY <1>1 DEF Plain, AttemptsTell
<1>3. OutputIsNotCalled'
  BY <1>1 DEF Plain, OutputIsNotCalled
<1>4. TriesAreRetried' /\ ListedIsBegun' /\ RecoveredWaits'
  BY <1>1 DEF Plain, TriesAreRetried, ListedIsBegun, RecoveredWaits, InSweep
<1>5. TasksMissNothing'
  BY DEF Plain, TasksMissNothing, Missing, Downstream
<1> QED BY <1>2, <1>3, <1>4, <1>5 DEF Plain

Open(n) == sweep.result[n] = "none" /\ sweep.task[n] \in {"none", "queued", "between"}

LEMMA SweepsSparingly ==
    ASSUME Sparing, Almost' => Almost, InSweep, InSweep', UNCHANGED <<dag, calls, granted, crashes>>,
           Almost' => \A n \in Nodes : Open(n)' => Open(n) \/ MayBeCalled(n)
    PROVE  Sparing'
<1>1. \A n : Allowed(n)' = Allowed(n) /\ MayBeCalled(n)' = MayBeCalled(n)
  BY DEF Allowed, MayBeCalled, Credited
<1>2. CallsWithin'
  BY <1>1 DEF Sparing, CallsWithin
<1>3. OpenMayBeCalled'
  BY <1>1 DEF Sparing, OpenMayBeCalled, Open
<1>4. RestMayBeCalled' /\ TaskMayCall'
  BY DEF RestMayBeCalled, TaskMayCall, InSweep, AtRest
<1> QED BY <1>2, <1>3, <1>4 DEF Sparing

LEMMA AlmostBefore ==
    ASSUME TypeOK, lost \in Nat, lost' \in Nat, lost <= lost', overtaken => overtaken'
    PROVE  Almost' => Almost
BY DEF Almost

LEMMA SeeStopSpared ==
    ASSUME IInv, RecordInv, SparedInv, SeeStop
    PROVE  SparedInv'
<1> USE SweepParts
<1>0. TypeOK
  BY DEF IInv
<1>1. /\ UNCHANGED <<dag, record, runStatus, created, lost, overtaken, recovery, todo, calls, attempts, granted,
                     crashes, tasks, pc>>
      /\ pc = "sweeping" /\ InSweep /\ InSweep'
  BY DEF SeeStop, InSweep, writes, starts, asked, history
<1>2. sweep'.result = sweep.result /\ sweep'.task = sweep.task
  BY <1>0 DEF SeeStop, TypeOK, Sweeps
<1>3. Plain'
  <2>1. HeldIsRecorded'
    BY <1>1 DEF HeldIsRecorded
  <2>2. OpenIsNotOver'
    BY <1>1, <1>2 DEF SparedInv, Plain, OpenIsNotOver
  <2> QED BY <1>0, <1>1, <1>2, <2>1, <2>2, SweepsPlainly DEF SparedInv
<1>4. Almost' => Almost
  BY <1>1 DEF Almost
<1>5. Sparing'
  BY <1>1, <1>2, <1>4, SweepsSparingly DEF SparedInv, Open
<1>6. Almost' => Traces'
  <2> SUFFICES ASSUME Almost' PROVE Traces'
    OBVIOUS
  <2>1. SweepsOn({}, {})
    <3>1. Loses({}, runStatus)
      BY <1>0, <1>1, <1>4, NothingWritten
    <3>2. \A n \in Nodes : Deviates(n)' => Deviates(n)
      BY <1>1, <1>2 DEF Deviates, Unmatched
    <3> QED BY <1>1, <1>2, <3>1, <3>2 DEF SweepsOn
  <2> QED BY <2>1, SweepsOnKeeps DEF SparedInv
<1> QED BY <1>3, <1>5, <1>6, NothingOwed DEF SparedInv

\* A node a sweep has yet to come to is related to its run.
LEMMA OpenIsRelated ==
    ASSUME Traces, Almost, InSweep, NEW n \in Nodes, sweep.result[n] = "none",
           sweep.task[n] \in {"none", "queued"}
    PROVE  ~Unrelated(n)
BY TracelessInSweep DEF Traceless

LEMMA LookSpared ==
    ASSUME IInv, RecordInv, SparedInv, Look
    PROVE  SparedInv'
<1> USE SweepParts
<1>0. TypeOK
  BY DEF IInv
<1>1. /\ UNCHANGED <<dag, overtaken, recovery, todo, calls, attempts, granted, crashes, tasks, pc>>
      /\ pc = "sweeping" /\ InSweep /\ InSweep'
  BY DEF Look, InSweep, starts, asked, history
<1>2. \A n \in Nodes :
         /\ sweep'.result[n] = IF n \in NotTaken THEN "notTaken" ELSE sweep.result[n]
         /\ sweep'.task[n] = IF n \in Ready \ NotTaken THEN "queued" ELSE sweep.task[n]
  BY <1>0 DEF Look, TypeOK, Sweeps
<1>3. \A n \in NotTaken \union Ready :
         n \in Nodes /\ sweep.result[n] = "none" /\ sweep.task[n] = "none" /\ \A m \in Into(n) : Settled(m)
  BY DEF NotTaken, Ready, Pending
<1> DEFINE ns == NotTaken
           written == Of(ns, "notTaken")
           status == runStatus
<1>4. /\ ns \in SUBSET Nodes /\ written \in [ns -> Statuses] /\ status \in RunStatuses
      /\ Write(written, status) /\ \A n \in ns : written[n] = "notTaken"
  <2>1. ns \in SUBSET Nodes /\ "notTaken" \in Statuses /\ status \in RunStatuses /\ Write(written, status)
    BY <1>0 DEF Look, NotTaken, Ready, Pending, TypeOK, Statuses, Results
  <2> HIDE DEF ns
  <2> QED BY <2>1, OfTypes
<1>5. \A n \in ns : n \in NotTaken
  OBVIOUS
<1>6. status = runStatus /\ \A n \in NotTaken : n \in ns
  OBVIOUS
<1> HIDE DEF ns, written, status
<1>7. /\ lost \in Nat /\ lost' \in Nat /\ lost <= lost'
      /\ \A n \in Nodes : record'[n] = record[n] \/ (n \in ns /\ record'[n] = "notTaken")
  <2>1. /\ lost' \in 0 .. MaxLost /\ lost <= lost'
        /\ \A n \in Nodes : record'[n] = record[n] \/ (n \in ns /\ record'[n] = written[n])
    BY <1>0, <1>4, WriteDoes
  <2> QED BY <1>0, <1>4, <2>1, LifecycleAssumption DEF TypeOK
<1>8. Plain'
  <2>1. HeldIsRecorded'
    BY <1>1 DEF HeldIsRecorded
  <2>2. \A n \in Nodes : /\ sweep'.task[n] \in {"between", "calling"} => sweep.task[n] = sweep'.task[n]
                         /\ sweep.task[n] = "calling" => sweep'.task[n] = "calling"
    BY <1>2, <1>3
  <2>3. \A n \in Nodes : /\ record'[n] = "none" => record[n] = "none"
                         /\ record'[n] = "trying" => record[n] = "trying"
    BY <1>7
  <2>4. OpenIsNotOver'
    BY <1>1, <1>2, <1>5, <1>7 DEF SparedInv, Plain, OpenIsNotOver
  <2> QED BY <1>0, <1>1, <2>1, <2>2, <2>3, <2>4, SweepsPlainly DEF SparedInv
<1>9. Almost' => Almost
  BY <1>0, <1>1, <1>7, AlmostBefore
<1>10. Sparing'
  BY <1>1, <1>2, <1>3, <1>9, SweepsSparingly DEF SparedInv, Open
<1>11. Almost' => Traces'
  <2> SUFFICES ASSUME Almost' PROVE Traces'
    OBVIOUS
  <2>1. PICK failing \in SUBSET ns :
           /\ Loses(failing, status)
           /\ \A n \in Nodes : record'[n] = IF n \in ns \ failing /\ ~Unrelated(n) THEN written[n]
                                            ELSE record[n]
           /\ created' = created \union ns
    BY <1>0, <1>4, WriteLoses DEF Almost
  <2>2. \A n \in ns : ~Unrelated(n)
    <3> SUFFICES ASSUME NEW n \in ns PROVE ~Unrelated(n)
      OBVIOUS
    <3>1. n \in Nodes /\ sweep.result[n] = "none" /\ sweep.task[n] = "none"
      BY <1>3, <1>5
    <3> QED BY <1>1, <1>9, <3>1, OpenIsRelated DEF SparedInv
  <2>3. SweepsOn(ns, failing)
    <3>1. ASSUME NEW n \in Nodes
          PROVE  /\ n \notin ns \ failing \/ Unrelated(n) => record'[n] = record[n]
                 /\ n \in ns \ failing /\ ~Unrelated(n) => record'[n] = "notTaken"
      BY <1>4, <2>1
    <3>2. ASSUME NEW n \in Nodes, Deviates(n)' PROVE Deviates(n) \/ n \in failing
      <4>1. CASE n \in ns \ failing
        BY <1>1, <1>2, <1>3, <1>5, <2>2, <3>1, <3>2, <4>1 DEF Deviates, Unmatched
      <4>2. CASE n \notin ns
        BY <1>1, <1>2, <1>6, <3>1, <3>2, <4>2 DEF Deviates, Unmatched
      <4> QED BY <4>1, <4>2
    <3>3. \A n \in Nodes :
            /\ record[n] \in OverSays => record'[n] \in OverSays
            /\ sweep.result[n] # "none" => sweep'.result[n] # "none"
            /\ sweep.task[n] \notin {"none", "queued"} => sweep'.task[n] \notin {"none", "queued"}
      BY <1>2, <1>3, <1>7 DEF OverSays
    <3>4. \A n \in ns : sweep'.result[n] # "none" /\ (pc = "sweeping" /\ \A m \in Into(n) : Settled(m))
      BY <1>1, <1>2, <1>3, <1>4, <1>5
    <3> QED BY <1>1, <1>6, <2>1, <3>1, <3>2, <3>3, <3>4 DEF SweepsOn
  <2> QED BY <1>4, <2>1, <2>3, SweepsOnKeeps DEF SparedInv
<1> QED BY <1>8, <1>10, <1>11, NothingOwed DEF SparedInv
-----------------------------------------------------------------------------

LEMMA TakeSpared ==
    ASSUME IInv, RecordInv, SparedInv, NEW k \in Nodes, Take(k)
    PROVE  SparedInv'
<1> USE SweepParts
<1>0. TypeOK
  BY DEF IInv
<1>1. /\ UNCHANGED <<dag, overtaken, recovery, todo, calls, attempts, granted, crashes, tasks, pc>>
      /\ pc = "sweeping" /\ InSweep /\ InSweep' /\ sweep.task[k] \in Answered
  BY DEF Take, InSweep, starts, asked, history
<1>2. \A n \in Nodes :
         /\ sweep'.result[n] = IF n = k THEN sweep.task[k] ELSE sweep.result[n]
         /\ sweep'.task[n] = IF n = k THEN "none" ELSE sweep.task[n]
  BY <1>0 DEF Take, TypeOK, Sweeps
<1>3. sweep.result[k] = "none" /\ \A m \in Into(k) : Settled(m)
  BY <1>1 DEF RecordInv, TasksInOrder, Answered
<1> DEFINE ns == {k}
           v == sweep.task[k]
           written == Of(ns, v)
           status == runStatus
<1>4. /\ ns \in SUBSET Nodes /\ written \in [ns -> Statuses] /\ status \in RunStatuses
      /\ Write(written, status) /\ \A n \in ns : written[n] = v
  <2>1. ns \in SUBSET Nodes /\ v \in Statuses /\ status \in RunStatuses /\ Write(written, status)
    BY <1>0, <1>1 DEF Take, TypeOK, Statuses, Results, Answered
  <2> HIDE DEF ns, v
  <2> QED BY <2>1, OfTypes
<1>5. /\ \A n : n \in ns <=> n = k
      /\ v = sweep.task[k] /\ v \in Answered /\ status = runStatus
  BY <1>1
<1> HIDE DEF ns, written, status, v
<1>6. /\ lost \in Nat /\ lost' \in Nat /\ lost <= lost'
      /\ \A n \in Nodes : record'[n] = record[n] \/ (n = k /\ record'[n] = v)
  <2>1. /\ lost' \in 0 .. MaxLost /\ lost <= lost'
        /\ \A n \in Nodes : record'[n] = record[n] \/ (n \in ns /\ record'[n] = written[n])
    BY <1>0, <1>4, WriteDoes
  <2> QED BY <1>0, <1>4, <1>5, <2>1, LifecycleAssumption DEF TypeOK
<1>7. Plain'
  <2>1. HeldIsRecorded'
    BY <1>1 DEF HeldIsRecorded
  <2>2. \A n \in Nodes : /\ sweep'.task[n] \in {"between", "calling"} => sweep.task[n] = sweep'.task[n]
                         /\ sweep.task[n] = "calling" => sweep'.task[n] = "calling"
    BY <1>1, <1>2 DEF Answered
  <2>3. \A n \in Nodes : /\ record'[n] = "none" => record[n] = "none"
                         /\ record'[n] = "trying" => record[n] = "trying"
    BY <1>5, <1>6 DEF Answered
  <2>4. OpenIsNotOver'
    BY <1>1, <1>2, <1>3, <1>5, <1>6 DEF SparedInv, Plain, OpenIsNotOver, Answered
  <2> QED BY <1>0, <1>1, <2>1, <2>2, <2>3, <2>4, SweepsPlainly DEF SparedInv
<1>8. Almost' => Almost
  BY <1>0, <1>1, <1>6, AlmostBefore
<1>9. Sparing'
  <2>1. \A n \in Nodes : Open(n)' => Open(n)
    BY <1>1, <1>2 DEF Open, Answered
  <2> QED BY <1>1, <1>8, <2>1, SweepsSparingly DEF SparedInv
<1>10. Almost' => Traces'
  <2> SUFFICES ASSUME Almost' PROVE Traces'
    OBVIOUS
  <2>1. PICK failing \in SUBSET ns :
           /\ Loses(failing, status)
           /\ \A n \in Nodes : record'[n] = IF n \in ns \ failing /\ ~Unrelated(n) THEN written[n]
                                            ELSE record[n]
           /\ created' = created \union ns
    BY <1>0, <1>4, WriteLoses DEF Almost
  <2>2. record[k] \in Callable
    BY <1>1, <1>3, <1>8 DEF SparedInv, Plain, OpenIsNotOver, Almost
  <2>3. Unrelated(k) => Deviates(k)
    BY <1>1, <1>8, TracelessInSweep DEF SparedInv, Traceless
  <2>4. SweepsOn(ns, failing)
    <3>1. ASSUME NEW n \in Nodes
          PROVE  /\ n \notin ns \ failing \/ Unrelated(n) => record'[n] = record[n]
                 /\ n \in ns \ failing /\ ~Unrelated(n) => record'[n] = v
      BY <1>4, <2>1
    <3>2. ASSUME NEW n \in Nodes, Deviates(n)' PROVE Deviates(n) \/ n \in failing
      <4>1. CASE n = k
        <5>1. sweep'.result[k] = v /\ sweep'.task[k] = "none"
          BY <1>2, <1>5
        <5>2. record'[k] # v
          BY <3>2, <4>1, <5>1 DEF Deviates, Unmatched
        <5> QED BY <1>5, <2>3, <3>1, <4>1, <5>2
      <4>2. CASE n # k
        BY <1>1, <1>2, <1>6, <3>2, <4>2 DEF Deviates, Unmatched
      <4> QED BY <4>1, <4>2
    <3>3. \A n \in Nodes :
            /\ record[n] \in OverSays => record'[n] \in OverSays
            /\ sweep.result[n] # "none" => sweep'.result[n] # "none"
            /\ sweep.task[n] \notin {"none", "queued"} =>
                  sweep'.result[n] # "none" \/ sweep'.task[n] \notin {"none", "queued"}
      BY <1>1, <1>2, <1>3, <1>6, <2>2 DEF OverSays, Callable, BegunSays, Answered
    <3>4. \A n \in ns : sweep'.result[n] # "none" /\ (pc = "sweeping" /\ \A m \in Into(n) : Settled(m))
      BY <1>1, <1>2, <1>3, <1>5 DEF Answered
    <3>5. v # "none"
      BY <1>5 DEF Answered
    <3> QED BY <1>1, <1>5, <2>1, <3>1, <3>2, <3>3, <3>4, <3>5 DEF SweepsOn
  <2> QED BY <1>4, <2>1, <2>4, SweepsOnKeeps DEF SparedInv
<1> QED BY <1>7, <1>9, <1>10, NothingOwed DEF SparedInv
-----------------------------------------------------------------------------

LEMMA AllowedIsNat == TypeOK => \A n \in Nodes : Allowed(n) \in Nat /\ calls[n] \in Nat
<1> SUFFICES ASSUME TypeOK, NEW n \in Nodes PROVE Allowed(n) \in Nat /\ calls[n] \in Nat
  OBVIOUS
<1>1. MaxAttempts \in Nat /\ granted \in Nat /\ crashes \in Nat /\ calls[n] \in Nat
  BY LifecycleAssumption DEF TypeOK
<1> QED BY <1>1 DEF Allowed

\* What a node's task does to the sweep, the counts and the record.
LEMMA NodeStepCounts ==
    ASSUME IInv, RecordInv, SparedInv, NEW k \in Nodes, NodeStep(k)
    PROVE  /\ UNCHANGED <<dag, overtaken, recovery, todo, granted, crashes, tasks, pc>>
           /\ pc = "sweeping" /\ InSweep /\ InSweep'
           /\ sweep'.result = sweep.result /\ sweep.result[k] = "none"
           /\ \A m \in Into(k) : Settled(m)
           /\ \A n \in Nodes \ {k} : /\ sweep'.task[n] = sweep.task[n]
                                     /\ calls'[n] = calls[n] /\ attempts'[n] = attempts[n]
           /\ sweep.task[k] \in {"queued", "between", "calling"}
<1>1. /\ UNCHANGED <<dag, overtaken, pc, tasks>> /\ pc = "sweeping" /\ sweep'.result = sweep.result
      /\ sweep.task[k] # "none" /\ \A n \in Nodes \ {k} : sweep'.task[n] = sweep.task[n]
  BY NodeStepDoes
<1>2. InSweep /\ InSweep'
  BY <1>1 DEF InSweep
<1>3. sweep.result[k] = "none" /\ \A m \in Into(k) : Settled(m)
  BY <1>1, <1>2 DEF RecordInv, TasksInOrder
<1>4. /\ UNCHANGED <<recovery, todo, granted, crashes>>
      /\ sweep.task[k] \in {"queued", "between", "calling"}
  BY DEF NodeStep, Begin, StartAttempt, Answers, Unreached, starts, asked, history
<1>5. calls \in [Nodes -> Nat] /\ attempts \in [Nodes -> Nat]
  BY DEF IInv, TypeOK
<1>6. \A n \in Nodes \ {k} : calls'[n] = calls[n]
  BY <1>5 DEF NodeStep, Begin, StartAttempt, Answers, Unreached, history
<1>7. \A n \in Nodes \ {k} : attempts'[n] = attempts[n]
  BY <1>5 DEF NodeStep, Begin, StartAttempt, Answers, Unreached, AttemptMade
<1> QED BY <1>1, <1>2, <1>3, <1>4, <1>6, <1>7

\* What is left to show of such a step.
LEMMA NodeStepSpares ==
    ASSUME IInv, RecordInv, SparedInv, NEW k \in Nodes, NodeStep(k), NEW v \in {"running", "trying"},
           lost' \in Nat, lost <= lost',
           \A n \in Nodes : record'[n] = record[n] \/ (n = k /\ record'[n] = v),
           v = "trying" => k \in dag.retried,
           sweep'.task[k] = "between" => k \in dag.retried,
           k \in dag.retried =>
              calls'[k] <= attempts'[k] + granted + crashes + (IF sweep'.task[k] = "calling" THEN 1 ELSE 0),
           k = dag.output => calls'[k] = calls[k] /\ sweep'.task[k] \notin {"between", "calling"},
           Almost' /\ Almost => calls'[k] <= Allowed(k),
           Almost' /\ Almost /\ sweep'.task[k] \in {"none", "queued", "between"} => calls'[k] < Allowed(k),
           Almost' /\ Almost => Traces'
    PROVE  SparedInv'
<1>0. TypeOK
  BY DEF IInv
<1>1. /\ UNCHANGED <<dag, overtaken, recovery, todo, granted, crashes, tasks, pc>>
      /\ pc = "sweeping" /\ InSweep /\ InSweep'
      /\ sweep'.result = sweep.result /\ sweep.result[k] = "none"
      /\ \A n \in Nodes \ {k} : /\ sweep'.task[n] = sweep.task[n]
                                /\ calls'[n] = calls[n] /\ attempts'[n] = attempts[n]
  BY NodeStepCounts
<1>2. dag.retried \subseteq Nodes /\ dag.output \in Nodes /\ \A w \in todo : w.node \in Nodes
  BY <1>0, LifecycleAssumption DEF TypeOK, Drawing, Listed
<1>3. AttemptsTell'
  <2> SUFFICES ASSUME NEW n \in dag.retried
               PROVE  calls'[n] <= attempts'[n] + granted + crashes
                                     + (IF sweep'.task[n] = "calling" THEN 1 ELSE 0)
    BY <1>1 DEF AttemptsTell
  <2>1. CASE n = k
    BY <2>1
  <2>2. CASE n # k
    BY <1>1, <1>2, <2>2 DEF SparedInv, Plain, AttemptsTell
  <2> QED BY <2>1, <2>2
<1>4. OutputIsNotCalled'
  BY <1>1, <1>2 DEF SparedInv, Plain, OutputIsNotCalled
<1>5. TriesAreRetried' /\ ListedIsBegun' /\ RecoveredWaits' /\ HeldIsRecorded'
  <2>1. TriesAreRetried' /\ ListedIsBegun'
    BY <1>1, <1>2 DEF SparedInv, Plain, TriesAreRetried, ListedIsBegun
  <2> QED BY <1>1, <2>1 DEF RecoveredWaits, HeldIsRecorded
<1>6. TasksMissNothing'
  BY <1>1 DEF SparedInv, Plain, TasksMissNothing, Missing, Downstream
<1>7. OpenIsNotOver'
  BY <1>1 DEF SparedInv, Plain, OpenIsNotOver, Callable, BegunSays
<1>8. Plain'
  BY <1>3, <1>4, <1>5, <1>6, <1>7 DEF Plain
<1>9. Almost' => Almost
  BY <1>0, <1>1, AlmostBefore DEF TypeOK
<1>10. \A n : Allowed(n)' = Allowed(n)
  BY <1>1 DEF Allowed, Credited
<1>11. CallsWithin'
  BY <1>1, <1>9, <1>10 DEF SparedInv, Sparing, CallsWithin
<1>12. OpenMayBeCalled'
  BY <1>1, <1>9, <1>10 DEF SparedInv, Sparing, OpenMayBeCalled, MayBeCalled
<1>13. Sparing'
  BY <1>1, <1>11, <1>12 DEF Sparing, RestMayBeCalled, TaskMayCall, InSweep, AtRest
<1> QED BY <1>8, <1>9, <1>13, NothingOwed DEF SparedInv

\* A step of a node's task that writes nothing leaves the traces as they are.
LEMMA UnwrittenTraces ==
    ASSUME IInv, RecordInv, SparedInv, Almost, Almost', NEW k \in Nodes, NodeStep(k),
           UNCHANGED <<record, runStatus, created, lost>>,
           sweep.task[k] \in {"between", "calling"}, sweep'.task[k] \notin {"none", "queued"},
           k \notin dag.retried => calls'[k] = calls[k]
    PROVE  Traces'
<1>0. TypeOK
  BY DEF IInv
<1>1. /\ UNCHANGED <<dag, overtaken, recovery, todo, pc>> /\ InSweep /\ InSweep'
      /\ sweep'.result = sweep.result
      /\ \A n \in Nodes \ {k} : sweep'.task[n] = sweep.task[n] /\ calls'[n] = calls[n]
  BY NodeStepCounts
<1>2. Loses({}, runStatus)
  BY <1>0, NothingWritten
<1>3. \A n \in Nodes : Deviates(n)' => Deviates(n)
  BY <1>1 DEF Deviates, Unmatched
<1>4. SweepsOn({}, {})
  BY <1>1, <1>2, <1>3 DEF SweepsOn
<1> QED BY <1>4, SweepsOnKeeps DEF SparedInv

\* One that writes its node under way leaves a trace of it, or loses the write.
LEMMA WrittenTraces ==
    ASSUME IInv, RecordInv, SparedInv, Almost, Almost', NEW k \in Nodes, NodeStep(k),
           NEW v \in {"running", "trying"}, Write(Of({k}, v), runStatus),
           sweep'.task[k] \notin {"none", "queued"}, UNCHANGED <<overtaken>>
    PROVE  Traces'
<1>0. TypeOK
  BY DEF IInv
<1>1. /\ UNCHANGED <<dag, overtaken, recovery, todo, pc>> /\ InSweep /\ InSweep' /\ pc = "sweeping"
      /\ sweep'.result = sweep.result /\ sweep.result[k] = "none"
      /\ \A m \in Into(k) : Settled(m)
      /\ \A n \in Nodes \ {k} : sweep'.task[n] = sweep.task[n] /\ calls'[n] = calls[n]
      /\ sweep.task[k] \in {"queued", "between", "calling"}
  BY NodeStepCounts
<1> DEFINE ns == {k}
           written == Of(ns, v)
           status == runStatus
<1>2. /\ ns \in SUBSET Nodes /\ written \in [ns -> Statuses] /\ status \in RunStatuses
      /\ Write(written, status) /\ \A n \in ns : written[n] = v
  <2>1. ns \in SUBSET Nodes /\ v \in Statuses /\ status \in RunStatuses /\ Write(written, status)
    BY <1>0 DEF TypeOK, Statuses
  <2> HIDE DEF ns
  <2> QED BY <2>1, OfTypes
<1>3. (\A n : n \in ns <=> n = k) /\ status = runStatus
  OBVIOUS
<1> HIDE DEF ns, written, status
<1>4. PICK failing \in SUBSET ns :
           /\ Loses(failing, status)
           /\ \A n \in Nodes : record'[n] = IF n \in ns \ failing /\ ~Unrelated(n) THEN written[n]
                                            ELSE record[n]
           /\ created' = created \union ns
  BY <1>0, <1>2, WriteLoses DEF Almost
<1>5. record[k] \in Callable
  BY <1>1 DEF SparedInv, Plain, OpenIsNotOver, Almost
<1>6. Unrelated(k) => Deviates(k)
  BY <1>1, TracelessInSweep DEF SparedInv, Traceless
<1>7. ASSUME NEW n \in Nodes
      PROVE  /\ n \notin ns \ failing \/ Unrelated(n) => record'[n] = record[n]
             /\ n \in ns \ failing /\ ~Unrelated(n) => record'[n] = v
  BY <1>2, <1>4
<1>8. ASSUME NEW n \in Nodes, Deviates(n)' PROVE Deviates(n) \/ n \in failing
  <2>1. CASE n = k
    <3>1. record'[k] # v
      BY <1>1, <1>8, <2>1 DEF Deviates, Unmatched
    <3> QED BY <1>3, <1>6, <1>7, <2>1, <3>1
  <2>2. CASE n # k
    <3>1. record'[n] = record[n]
      BY <1>3, <1>7, <2>2
    <3> QED BY <1>1, <1>8, <2>2, <3>1 DEF Deviates, Unmatched
  <2> QED BY <2>1, <2>2
<1>9. \A n \in Nodes :
        /\ record[n] \in OverSays => record'[n] \in OverSays
        /\ sweep.task[n] \notin {"none", "queued"} => sweep'.task[n] \notin {"none", "queued"}
        /\ calls'[n] >= 1 => calls[n] >= 1 \/ n \in ns
  <2>1. \A n \in Nodes : n # k => record'[n] = record[n]
    BY <1>3, <1>7
  <2>2. record[k] \notin OverSays
    BY <1>5 DEF Callable, BegunSays, OverSays
  <2> QED BY <1>1, <1>3, <2>1, <2>2
<1>10. SweepsOn(ns, failing)
  BY <1>1, <1>3, <1>4, <1>7, <1>8, <1>9 DEF SweepsOn
<1> QED BY <1>2, <1>4, <1>10, SweepsOnKeeps DEF SparedInv
-----------------------------------------------------------------------------

\* A node's task that begins spends what its node may be called; one that is called again after
\* an attempt spends an attempt.
LEMMA BeginSpared ==
    ASSUME IInv, RecordInv, SparedInv, NEW k \in Nodes, Begin(k)
    PROVE  SparedInv'
<1> USE SweepParts
<1>0. TypeOK /\ NodeStep(k)
  BY DEF IInv, NodeStep
<1>1. /\ sweep.task[k] = "queued" /\ overtaken' = overtaken /\ attempts' = attempts
      /\ granted' = granted /\ crashes' = crashes /\ dag' = dag
      /\ Write(Of({k}, "running"), runStatus)
      /\ sweep'.task[k] = IF k = dag.output THEN "succeeded"
                          ELSE IF k \in dag.retried THEN "between" ELSE "calling"
  BY <1>0 DEF Begin, TypeOK, Sweeps, asked
<1>2. /\ sweep.result[k] = "none" /\ InSweep
  BY <1>0, NodeStepCounts
<1>3. calls'[k] = IF sweep'.task[k] = "calling" THEN calls[k] + 1 ELSE calls[k]
  BY <1>0 DEF Begin, TypeOK
<1>4. \A n \in Nodes : record'[n] = record[n] \/ (n = k /\ record'[n] = "running")
  <2> DEFINE ns == {k}
             v == "running"
  <2>1. ns \in SUBSET Nodes /\ v \in Statuses /\ v # "interrupted" /\ Write(Of(ns, v), runStatus)
        /\ \A n : n \in ns <=> n = k
    BY <1>1 DEF Statuses
  <2> HIDE DEF ns
  <2>2. \A n \in Nodes : record'[n] = record[n] \/ (n \in ns /\ record'[n] = v)
    BY <1>0, <2>1, WriteOfSays
  <2> QED BY <2>1, <2>2
<1>5. lost' \in Nat /\ lost <= lost'
  <2> DEFINE written == Of({k}, "running")
             status == runStatus
  <2>1. written \in [{k} -> Statuses] /\ {k} \in SUBSET Nodes /\ status \in RunStatuses /\ Write(written, status)
    BY <1>0, <1>1, OfTypes DEF Statuses, TypeOK
  <2> HIDE DEF written, status
  <2>2. lost' \in 0 .. MaxLost /\ lost <= lost'
    BY <1>0, <2>1, WriteDoes
  <2> QED BY <2>2, LifecycleAssumption
<1>6. Almost => calls[k] < Allowed(k)
  BY <1>1, <1>2 DEF SparedInv, Sparing, OpenMayBeCalled, MayBeCalled
<1>7. k \in dag.retried => calls'[k] <= attempts'[k] + granted + crashes
                                          + (IF sweep'.task[k] = "calling" THEN 1 ELSE 0)
  BY <1>1, <1>3 DEF SparedInv, Plain, AttemptsTell
<1>8. Allowed(k) \in Nat /\ calls[k] \in Nat
  BY <1>0, AllowedIsNat
<1>9. /\ Almost => calls'[k] <= Allowed(k)
      /\ Almost /\ sweep'.task[k] # "calling" => calls'[k] < Allowed(k)
  BY <1>3, <1>6, <1>8
<1>10. Almost' /\ Almost => Traces'
  BY <1>0, <1>1, WrittenTraces
<1> QED BY <1>0, <1>1, <1>3, <1>4, <1>5, <1>7, <1>9, <1>10, NodeStepSpares

LEMMA StartAttemptSpared ==
    ASSUME IInv, RecordInv, SparedInv, NEW k \in Nodes, StartAttempt(k)
    PROVE  SparedInv'
<1> USE SweepParts
<1>0. TypeOK /\ NodeStep(k) /\ lost \in Nat
  BY LifecycleAssumption DEF IInv, NodeStep, TypeOK
<1>1. /\ sweep.task[k] = "between" /\ UNCHANGED <<record, runStatus, created, lost>>
      /\ attempts' = attempts /\ granted' = granted /\ crashes' = crashes
      /\ sweep'.task[k] = IF stopAsked THEN "cancelled" ELSE "calling"
      /\ calls'[k] = IF stopAsked THEN calls[k] ELSE calls[k] + 1
  BY <1>0 DEF StartAttempt, TypeOK, Sweeps, asked, writes
<1>2. sweep.result[k] = "none" /\ InSweep
  BY <1>0, NodeStepCounts
<1>3. k \in dag.retried /\ k # dag.output
  BY <1>1 DEF SparedInv, Plain, TriesAreRetried, OutputIsNotCalled
<1>4. Almost => calls[k] < Allowed(k)
  BY <1>1, <1>2 DEF SparedInv, Sparing, OpenMayBeCalled, MayBeCalled
<1>5. Allowed(k) \in Nat /\ calls[k] \in Nat /\ granted \in Nat /\ crashes \in Nat /\ attempts[k] \in Nat
  BY <1>0, AllowedIsNat DEF TypeOK
<1>6. calls[k] <= attempts[k] + granted + crashes
  BY <1>1, <1>3, <1>5 DEF SparedInv, Plain, AttemptsTell
<1>7. calls'[k] <= attempts'[k] + granted + crashes + (IF sweep'.task[k] = "calling" THEN 1 ELSE 0)
  BY <1>1, <1>5, <1>6
<1>8. Almost => calls'[k] <= Allowed(k)
  BY <1>1, <1>4, <1>5
<1>9. Almost' /\ Almost => Traces'
  BY <1>0, <1>1, <1>3, UnwrittenTraces
<1>10. lost' \in Nat /\ lost <= lost' /\ \A n \in Nodes : record'[n] = record[n]
  BY <1>0, <1>1
<1> DEFINE v == "running"
<1>11. v \in {"running", "trying"} /\ v # "trying"
  OBVIOUS
<1> HIDE DEF v
<1> QED BY <1>0, <1>1, <1>3, <1>7, <1>8, <1>9, <1>10, <1>11, NodeStepSpares

LEMMA AttemptEndsSpared ==
    ASSUME IInv, RecordInv, SparedInv, NEW k \in Nodes, Answers(k) \/ Unreached(k)
    PROVE  SparedInv'
<1> USE SweepParts
<1>0. TypeOK /\ NodeStep(k) /\ lost \in Nat
  BY LifecycleAssumption DEF IInv, NodeStep, TypeOK
<1>1. /\ sweep.task[k] = "calling" /\ AttemptMade(k) /\ overtaken' = overtaken
      /\ calls' = calls /\ granted' = granted /\ crashes' = crashes
  BY DEF Answers, Unreached, asked, history
<1>2. /\ UNCHANGED writes /\ sweep'.task[k] \in Answered
      \/ /\ k \in dag.retried /\ attempts'[k] < MaxAttempts /\ sweep'.task[k] = "between"
         /\ Write(Of({k}, "trying"), runStatus)
  BY <1>0 DEF Answers, Unreached, TypeOK, Sweeps, Answered
<1>3. k # dag.output
  BY <1>1 DEF SparedInv, Plain, OutputIsNotCalled
<1>4. /\ Allowed(k) \in Nat /\ calls[k] \in Nat /\ granted \in Nat /\ crashes \in Nat
      /\ attempts[k] \in Nat /\ MaxAttempts \in Nat
  BY <1>0, AllowedIsNat, LifecycleAssumption DEF TypeOK
<1>5. k \in dag.retried => attempts'[k] = attempts[k] + 1
  BY <1>0, <1>1 DEF AttemptMade, TypeOK
<1>6. k \in dag.retried => calls[k] <= attempts[k] + granted + crashes + 1
  BY <1>1 DEF SparedInv, Plain, AttemptsTell
<1>7. /\ sweep'.task[k] \notin {"none", "queued", "calling"}
      /\ k \in dag.retried => calls'[k] <= attempts'[k] + granted + crashes + 0
  <2>1. sweep'.task[k] \notin {"none", "queued", "calling"}
    BY <1>2 DEF Answered
  <2>2. k \in dag.retried => calls'[k] <= attempts'[k] + granted + crashes + 0
    BY <1>1, <1>4, <1>5, <1>6
  <2> QED BY <2>1, <2>2
<1>8. Almost => calls'[k] <= Allowed(k)
  BY <1>1 DEF SparedInv, Sparing, CallsWithin
<1>9. CASE UNCHANGED writes /\ sweep'.task[k] \in Answered
  <2>1. /\ UNCHANGED <<record, runStatus, created, lost>> /\ lost' \in Nat /\ lost <= lost'
        /\ sweep'.task[k] \notin {"none", "queued", "between"}
    BY <1>0, <1>9 DEF writes, Answered
  <2>2. Almost' /\ Almost => Traces'
    BY <1>0, <1>1, <1>7, <2>1, UnwrittenTraces
  <2> DEFINE v == "running"
  <2>3. v \in {"running", "trying"} /\ v # "trying"
    OBVIOUS
  <2> HIDE DEF v
  <2> QED BY <1>0, <1>1, <1>3, <1>7, <1>8, <2>1, <2>2, <2>3, NodeStepSpares
<1>10. CASE /\ k \in dag.retried /\ attempts'[k] < MaxAttempts /\ sweep'.task[k] = "between"
            /\ Write(Of({k}, "trying"), runStatus)
  <2>1. Almost' /\ Almost => Traces'
    BY <1>0, <1>1, <1>7, <1>10, WrittenTraces
  <2>2. Allowed(k) = MaxAttempts + granted + crashes
    BY <1>10 DEF Allowed, Credited
  <2>3. calls'[k] < Allowed(k)
    BY <1>1, <1>4, <1>5, <1>7, <1>10, <2>2
  <2>4. \A n \in Nodes : record'[n] = record[n] \/ (n = k /\ record'[n] = "trying")
    <3> DEFINE ns == {k}
               v == "trying"
    <3>1. ns \in SUBSET Nodes /\ v \in Statuses /\ v # "interrupted" /\ Write(Of(ns, v), runStatus)
          /\ \A n : n \in ns <=> n = k
      BY <1>10 DEF Statuses
    <3> HIDE DEF ns
    <3>2. \A n \in Nodes : record'[n] = record[n] \/ (n \in ns /\ record'[n] = v)
      BY <1>0, <3>1, WriteOfSays
    <3> QED BY <3>1, <3>2
  <2>5. lost' \in Nat /\ lost <= lost'
    <3> DEFINE written == Of({k}, "trying")
               status == runStatus
    <3>1. written \in [{k} -> Statuses] /\ {k} \in SUBSET Nodes /\ status \in RunStatuses /\ Write(written, status)
      BY <1>0, <1>10, OfTypes DEF Statuses, TypeOK
    <3> HIDE DEF written, status
    <3>2. lost' \in 0 .. MaxLost /\ lost <= lost'
      BY <1>0, <3>1, WriteDoes
    <3> QED BY <3>2, LifecycleAssumption
  <2> DEFINE w == "trying"
  <2>6. w \in {"running", "trying"} /\ \A n \in Nodes : record'[n] = record[n] \/ (n = k /\ record'[n] = w)
    BY <2>4
  <2> HIDE DEF w
  <2> QED BY <1>0, <1>1, <1>3, <1>7, <1>8, <1>10, <2>1, <2>3, <2>5, <2>6, NodeStepSpares
<1> QED BY <1>2, <1>9, <1>10

LEMMA NodeStepSpared ==
    ASSUME IInv, RecordInv, SparedInv, NEW k \in Nodes, NodeStep(k)
    PROVE  SparedInv'
BY BeginSpared, StartAttemptSpared, AttemptEndsSpared DEF NodeStep
-----------------------------------------------------------------------------

\* A sweep that is through with its nodes calls none of them any more.
LEMMA ThroughCallsNothing ==
    ASSUME IInv, RecordInv, pc \in {"holding", "failing"}
    PROVE  InSweep /\ \A n \in Nodes : sweep.task[n] = "none"
BY DEF RecordInv, HeldIsThrough, Calling, InSweep

\* Steps of a sweep that write nothing.
LEMMA UnwrittenSpared ==
    ASSUME IInv, RecordInv, SparedInv, InSweep, InSweep',
           UNCHANGED <<dag, record, runStatus, created, lost, overtaken, recovery, todo, calls, attempts,
                       granted, crashes>>,
           \A t \in tasks' : t.kind = "sweep" => t \in tasks,
           sweep'.task = sweep.task,
           \A n \in Nodes : /\ sweep.result[n] = "none" <=> sweep'.result[n] = "none"
                            /\ sweep'.result[n] = "waiting" => sweep.result[n] = "waiting"
                            /\ Deviates(n)' => Deviates(n),
           HeldIsRecorded'
    PROVE  SparedInv'
<1>0. TypeOK
  BY DEF IInv
<1>1. OpenIsNotOver'
  BY DEF SparedInv, Plain, OpenIsNotOver
<1>2. Plain'
  BY <1>0, <1>1, SweepsPlainly DEF SparedInv
<1>3. Almost' => Almost
  BY DEF Almost
<1>4. Sparing'
  BY <1>3, SweepsSparingly DEF SparedInv, Open
<1>5. Almost' => Traces'
  <2> SUFFICES ASSUME Almost' PROVE Traces'
    OBVIOUS
  <2>1. Loses({}, runStatus)
    BY <1>0, <1>3, NothingWritten
  <2>2. SweepsOn({}, {})
    BY <2>1 DEF SweepsOn
  <2> QED BY <2>2, SweepsOnKeeps DEF SparedInv
<1> QED BY <1>2, <1>4, <1>5, NothingOwed DEF SparedInv

LEMMA PlaceSpared ==
    ASSUME IInv, RecordInv, SparedInv, NEW k \in Nodes, Place(k)
    PROVE  SparedInv'
<1>1. /\ UNCHANGED <<record, runStatus, created, lost, overtaken, dag, pc, tasks>>
      /\ pc = "holding" /\ sweep.result[k] = "waiting"
      /\ sweep'.task = sweep.task
      /\ \/ sweep' = sweep
         \/ \A n \in Nodes : sweep'.result[n] = IF n = k THEN "failed" ELSE sweep.result[n]
  BY PlaceDoes
<1>2. UNCHANGED <<recovery, todo, calls, attempts, granted, crashes>>
  BY DEF Place, starts, asked, history
<1>3. \A n \in Nodes : sweep'.result[n] = sweep.result[n] \/ (n = k /\ sweep'.result[n] = "failed")
  BY <1>1
<1>4. record[k] = "waiting"
  BY <1>1 DEF SparedInv, Plain, HeldIsRecorded, Unmatched
<1>5. \A n \in Nodes : Unmatched(n)' => Unmatched(n)
  BY <1>1, <1>3, <1>4 DEF Unmatched
<1>6. HeldIsRecorded'
  BY <1>1, <1>3, <1>5 DEF SparedInv, Plain, HeldIsRecorded, Unmatched
<1>7. \A n \in Nodes : Deviates(n)' => Deviates(n)
  BY <1>1, <1>5 DEF Deviates
<1>8. InSweep /\ InSweep'
  BY <1>1 DEF InSweep
<1> QED BY <1>1, <1>2, <1>3, <1>6, <1>7, <1>8, UnwrittenSpared

LEMMA HoldSpared ==
    ASSUME IInv, RecordInv, SparedInv, NEW k \in Nodes, Hold(k)
    PROVE  SparedInv'
<1>0. TypeOK
  BY DEF IInv
<1>1. /\ UNCHANGED <<record, runStatus, created, lost, overtaken, dag, pc>>
      /\ UNCHANGED <<recovery, todo, calls, attempts, granted, crashes>>
      /\ pc = "holding"
      /\ tasks' = tasks \/ tasks' = tasks \union {ResumeTask(k)}
  BY DEF Hold, RelateVigil, starts, asked, history, writes
<1>2. sweep'.task = sweep.task /\ sweep'.result = sweep.result
  BY <1>0 DEF Hold, TypeOK, Sweeps
<1>3. InSweep /\ InSweep'
  BY <1>1 DEF InSweep
<1>4. \A n \in Nodes : Deviates(n)' = Deviates(n) /\ Unmatched(n)' = Unmatched(n)
  BY <1>1, <1>2 DEF Deviates, Unmatched
<1>5. HeldIsRecorded'
  BY <1>1, <1>2, <1>4 DEF SparedInv, Plain, HeldIsRecorded
<1>6. \A t \in tasks' : t.kind = "sweep" => t \in tasks
  BY <1>1 DEF ResumeTask
<1> QED BY <1>1, <1>2, <1>3, <1>4, <1>5, <1>6, UnwrittenSpared

LEMMA UnheldSpared ==
    ASSUME IInv, RecordInv, SparedInv, HoldEnds, sweep.halted
    PROVE  SparedInv'
<1>1. /\ UNCHANGED <<record, runStatus, created, lost, overtaken, dag, tasks, sweep>>
      /\ UNCHANGED <<recovery, todo, calls, attempts, granted, crashes>>
      /\ pc = "holding" /\ pc' = "failing"
  BY DEF HoldEnds, starts, asked, history, writes
<1>2. InSweep /\ InSweep' /\ HeldIsRecorded'
  BY <1>1 DEF InSweep, HeldIsRecorded
<1>3. \A n \in Nodes : Deviates(n)' = Deviates(n)
  BY <1>1 DEF Deviates, Unmatched
<1> QED BY <1>1, <1>2, <1>3, UnwrittenSpared

LEMMA WriteRecordAgainSpared ==
    ASSUME IInv, RecordInv, SparedInv, WriteRecordAgain
    PROVE  SparedInv'
<1> USE SweepParts
<1>0. TypeOK
  BY DEF IInv
<1>1. /\ UNCHANGED <<dag, overtaken, recovery, todo, calls, attempts, granted, crashes, tasks>>
      /\ pc = "sweeping" /\ pc' \in {"holding", "failing"} /\ InSweep /\ InSweep'
      /\ \A n \in Nodes : sweep.task[n] = "none"
  BY DEF WriteRecordAgain, Through, Calling, InSweep, starts, asked, history
<1>2. /\ sweep'.task = sweep.task
      /\ \A n \in Nodes : sweep'.result[n] = IF n \in Unrecorded(record') THEN "failed" ELSE sweep.result[n]
      /\ pc' = "holding" => Unrecorded(record') = {}
  BY <1>0 DEF WriteRecordAgain, TypeOK, Sweeps
<1> DEFINE ns == Unrecorded(record)
           written == [n \in ns |-> sweep.result[n]]
           status == runStatus
<1>3. /\ ns \in SUBSET Nodes /\ written \in [ns -> Statuses] /\ status \in RunStatuses
      /\ Write(written, status) /\ \A n \in ns : written[n] = sweep.result[n] /\ written[n] # "none"
  BY <1>0 DEF WriteRecordAgain, Unrecorded, TypeOK, Statuses
<1>4. /\ \A n \in Nodes : n \in ns <=> sweep.result[n] \notin {"none", record[n]}
      /\ status = runStatus
  BY DEF Unrecorded
<1> HIDE DEF ns, written, status
<1>5. /\ lost \in Nat /\ lost' \in Nat /\ lost <= lost'
      /\ \A n \in Nodes : record'[n] = record[n] \/ (n \in ns /\ record'[n] = sweep.result[n])
  <2>1. /\ lost' \in 0 .. MaxLost /\ lost <= lost'
        /\ \A n \in Nodes : record'[n] = record[n] \/ (n \in ns /\ record'[n] = written[n])
    BY <1>0, <1>3, WriteDoes
  <2> QED BY <1>0, <1>3, <2>1, LifecycleAssumption DEF TypeOK
<1>6. \A n \in Nodes : n \in Unrecorded(record') <=> sweep.result[n] \notin {"none", record'[n]}
  BY DEF Unrecorded
<1>7. HeldIsRecorded'
  BY <1>2, <1>6 DEF HeldIsRecorded, Unmatched
<1>8. OpenIsNotOver'
  BY <1>1, <1>2, <1>4, <1>5, <1>6 DEF SparedInv, Plain, OpenIsNotOver
<1>9. Plain'
  <2>1. \A n \in Nodes : /\ record'[n] = "none" => record[n] = "none"
                         /\ record'[n] = "trying" => record[n] = "trying"
    <3> SUFFICES ASSUME NEW n \in Nodes, record'[n] = sweep.result[n], n \in ns
                 PROVE  record'[n] \notin {"none", "trying"}
      BY <1>5
    <3>1. sweep.result[n] \in Results
      BY <1>0
    <3> QED BY <1>4, <3>1 DEF Results, Answered
  <2> QED BY <1>0, <1>1, <1>2, <1>7, <1>8, <2>1, SweepsPlainly DEF SparedInv
<1>10. Almost' => Almost
  BY <1>0, <1>1, <1>5, AlmostBefore
<1>11. Sparing'
  <2>1. \A n \in Nodes : Open(n)' => Open(n)
    BY <1>1, <1>2 DEF Open
  <2> QED BY <1>1, <1>10, <2>1, SweepsSparingly DEF SparedInv
<1>12. Almost' => Traces'
  <2> SUFFICES ASSUME Almost' PROVE Traces'
    OBVIOUS
  <2>1. PICK failing \in SUBSET ns :
           /\ Loses(failing, status)
           /\ \A n \in Nodes : record'[n] = IF n \in ns \ failing /\ ~Unrelated(n) THEN written[n]
                                            ELSE record[n]
           /\ created' = created \union ns
    BY <1>0, <1>3, WriteLoses DEF Almost
  <2>2. \A n \in ns : Deviates(n) /\ sweep.result[n] # "none"
    BY <1>1, <1>3, <1>4 DEF Deviates, Unmatched
  <2>3. \A n \in Nodes : Deviates(n)' => Deviates(n)
    BY <1>1, <1>2, <1>4, <1>5, <1>6, <2>2 DEF Deviates, Unmatched
  <2>4. \A n \in Nodes : record[n] \in OverSays => record'[n] \in OverSays
    <3> SUFFICES ASSUME NEW n \in Nodes, record[n] \in OverSays, n \in ns
                 PROVE  sweep.result[n] \in OverSays
      BY <1>5
    <3>1. ~overtaken
      BY <1>10 DEF Almost
    <3>2. sweep.result[n] \notin {"none", "waiting"}
      BY <1>1, <3>1 DEF SparedInv, Plain, OpenIsNotOver, Callable, BegunSays, OverSays
    <3>3. sweep.result[n] \in Results
      BY <1>0
    <3> QED BY <3>2, <3>3 DEF Results, Answered, OverSays
  <2>5. \A n \in Nodes :
          /\ n \notin ns \ failing \/ Unrelated(n) => record'[n] = record[n]
          /\ n \in ns \ failing /\ ~Unrelated(n) => record'[n] # "none"
    BY <1>3, <2>1
  <2>6. \A n \in Nodes : sweep.result[n] # "none" => sweep'.result[n] # "none"
    BY <1>2
  <2>7. SweepsOn(ns, failing)
    BY <1>1, <1>2, <1>3, <1>4, <2>1, <2>2, <2>3, <2>4, <2>5, <2>6 DEF SweepsOn
  <2> QED BY <1>3, <2>1, <2>7, SweepsOnKeeps DEF SparedInv
<1> QED BY <1>9, <1>11, <1>12, NothingOwed DEF SparedInv

LEMMA FailUnheldSpared ==
    ASSUME IInv, RecordInv, SparedInv, FailUnheld
    PROVE  SparedInv'
<1> USE SweepParts
<1>0. TypeOK
  BY DEF IInv
<1>1. /\ UNCHANGED <<dag, overtaken, recovery, todo, calls, attempts, granted, crashes, tasks, sweep>>
      /\ pc = "failing" /\ pc' = "sweeping" /\ InSweep /\ InSweep'
  BY DEF FailUnheld, InSweep, starts, asked, history
<1>2. \A n \in Nodes : sweep.task[n] = "none"
  BY <1>1, ThroughCallsNothing
<1> DEFINE ns == {n \in Nodes : sweep.result[n] = "failed" /\ record[n] # "failed"}
           v == "failed"
           written == Of(ns, v)
           status == runStatus
<1>3. /\ ns \in SUBSET Nodes /\ written \in [ns -> Statuses] /\ status \in RunStatuses
      /\ Write(written, status) /\ \A n \in ns : written[n] = v
  <2>1. ns \in SUBSET Nodes /\ v \in Statuses /\ status \in RunStatuses /\ Write(written, status)
    BY <1>0 DEF FailUnheld, TypeOK, Statuses, Results, Answered
  <2> HIDE DEF ns, v
  <2> QED BY <2>1, OfTypes
<1>4. /\ \A n \in Nodes : n \in ns <=> sweep.result[n] = "failed" /\ record[n] # "failed"
      /\ status = runStatus /\ v = "failed"
  OBVIOUS
<1> HIDE DEF ns, v, written, status
<1>5. /\ lost \in Nat /\ lost' \in Nat /\ lost <= lost'
      /\ \A n \in Nodes : record'[n] = record[n] \/ (n \in ns /\ record'[n] = "failed")
  <2>1. /\ lost' \in 0 .. MaxLost /\ lost <= lost'
        /\ \A n \in Nodes : record'[n] = record[n] \/ (n \in ns /\ record'[n] = written[n])
    BY <1>0, <1>3, WriteDoes
  <2> QED BY <1>0, <1>3, <1>4, <2>1, LifecycleAssumption DEF TypeOK
<1>6. HeldIsRecorded'
  BY <1>1 DEF HeldIsRecorded
<1>7. OpenIsNotOver'
  BY <1>1, <1>4, <1>5 DEF SparedInv, Plain, OpenIsNotOver
<1>8. Plain'
  BY <1>0, <1>1, <1>5, <1>6, <1>7, SweepsPlainly DEF SparedInv
<1>9. Almost' => Almost
  BY <1>0, <1>1, <1>5, AlmostBefore
<1>10. Sparing'
  BY <1>1, <1>9, SweepsSparingly DEF SparedInv, Open
<1>11. Almost' => Traces'
  <2> SUFFICES ASSUME Almost' PROVE Traces'
    OBVIOUS
  <2>1. PICK failing \in SUBSET ns :
           /\ Loses(failing, status)
           /\ \A n \in Nodes : record'[n] = IF n \in ns \ failing /\ ~Unrelated(n) THEN written[n]
                                            ELSE record[n]
           /\ created' = created \union ns
    BY <1>0, <1>3, WriteLoses DEF Almost
  <2>2. \A n \in ns : sweep.result[n] # "none" /\ (record[n] = "none" => Deviates(n))
    BY <1>1, <1>3, <1>4 DEF Deviates, Unmatched
  <2>3. \A n \in Nodes :
          /\ n \notin ns \ failing \/ Unrelated(n) => record'[n] = record[n]
          /\ n \in ns \ failing /\ ~Unrelated(n) => record'[n] = "failed"
    BY <1>3, <1>4, <2>1
  <2>4. ASSUME NEW n \in Nodes, Deviates(n)' PROVE Deviates(n) \/ n \in failing
    <3>1. sweep.result[n] # "none" /\ record'[n] # sweep.result[n]
      BY <1>1, <1>2, <2>4 DEF Deviates, Unmatched
    <3>2. CASE n \in ns \ failing
      BY <1>4, <2>2, <2>3, <3>1, <3>2 DEF Unrelated
    <3>3. CASE n \notin ns
      BY <1>1, <1>4, <2>3, <3>1, <3>3 DEF Deviates, Unmatched
    <3> QED BY <3>2, <3>3
  <2>5. \A n \in Nodes : record[n] \in OverSays => record'[n] \in OverSays
    BY <1>5 DEF OverSays
  <2>6. SweepsOn(ns, failing)
    BY <1>1, <1>3, <1>4, <2>1, <2>2, <2>3, <2>4, <2>5 DEF SweepsOn
  <2> QED BY <1>3, <2>1, <2>6, SweepsOnKeeps DEF SparedInv
<1> QED BY <1>8, <1>10, <1>11, NothingOwed DEF SparedInv
-----------------------------------------------------------------------------

\* A step after which no sweep has the turn.
LEMMA RestsPlainly ==
    ASSUME TypeOK, Plain, IInv', AtRest', UNCHANGED <<dag, calls, attempts, crashes>>,
           granted' = granted \/ granted' = granted + 1,
           \A n \in Nodes : /\ sweep.task[n] # "calling"
                            /\ record'[n] = "trying" => record[n] = "trying",
           TasksMissNothing', ListedIsBegun', RecoveredWaits'
    PROVE  Plain'
<1>1. dag.retried \subseteq Nodes /\ dag.output \in Nodes
  BY LifecycleAssumption DEF TypeOK, Drawing
<1>2. \A n \in Nodes : sweep'.task[n] = "none"
  BY DEF IInv, RestIsIdle
<1>3. \A n \in Nodes : calls[n] \in Nat /\ attempts[n] \in Nat /\ granted \in Nat /\ crashes \in Nat
  BY DEF TypeOK
<1>4. AttemptsTell'
  <2> SUFFICES ASSUME NEW n \in dag.retried
               PROVE  calls[n] <= attempts[n] + granted' + crashes
    BY <1>1, <1>2, <1>3 DEF AttemptsTell
  <2>1. calls[n] <= attempts[n] + granted + crashes
    BY <1>1, <1>3 DEF Plain, AttemptsTell
  <2> QED BY <1>1, <1>3, <2>1
<1>5. OutputIsNotCalled' /\ TriesAreRetried'
  BY <1>1, <1>2 DEF Plain, OutputIsNotCalled, TriesAreRetried
<1>6. HeldIsRecorded' /\ OpenIsNotOver'
  BY DEF HeldIsRecorded, OpenIsNotOver, InSweep, AtRest
<1> QED BY <1>4, <1>5, <1>6 DEF Plain

\* A sweep that ends in a wait has a record with nothing missing: what it did not reach is
\* behind what is under way.
LEMMA HeldMissesNothing ==
    ASSUME IInv, RecordInv, SparedInv, ~overtaken, pc = "holding", ~sweep.halted
    PROVE  /\ Missing(record) = {}
           /\ \A n \in Nodes : record[n] \in Callable => sweep.result[n] = "none" /\ sweep.task[n] = "none"
<1> USE SweepParts
<1>0. TypeOK /\ InSweep /\ \A n \in Nodes : sweep.task[n] = "none"
  BY ThroughCallsNothing DEF IInv
<1>1. \A n \in Nodes : sweep.result[n] = "none" => \E m \in Into(n) : ~Settled(m)
  <2>1. Calling = {} /\ Ready = {}
    BY DEF RecordInv, HeldIsThrough
  <2> QED BY <2>1 DEF Calling, Ready, Pending
<1>2. \A m \in Nodes : ~Settled(m) => record[m] = "waiting" \/ sweep.result[m] = "none"
  BY DEF Settled, SparedInv, Plain, HeldIsRecorded, Unmatched
<1>3. \A n \in Nodes : sweep.result[n] = "none" => record[n] \in Callable
  BY <1>0 DEF SparedInv, Plain, OpenIsNotOver
<1>4. \A n \in Nodes : record[n] \in Callable => sweep.result[n] = "none"
  <2> SUFFICES ASSUME NEW n \in Nodes, record[n] \in Callable, sweep.result[n] # "none" PROVE FALSE
    OBVIOUS
  <2>1. record[n] = sweep.result[n] \/ record[n] = "waiting"
    BY DEF SparedInv, Plain, HeldIsRecorded, Unmatched
  <2>2. sweep.result[n] \in Results
    BY <1>0
  <2> QED BY <2>1, <2>2 DEF Callable, BegunSays, Results, Answered
<1>5. Missing(record) = {}
  <2> SUFFICES ASSUME Missing(record) # {} PROVE FALSE
    OBVIOUS
  <2> DEFINE ns == Missing(record)
             behind == Downstream(UnderWay(record))
  <2>1. ns \in (SUBSET Nodes) \ {{}} /\ Acyclic(dag.wires)
    BY <1>0, LifecycleAssumption DEF Missing, TypeOK
  <2>2. PICK n \in ns : \A w \in dag.wires : w[2] = n => w[1] \notin ns
    BY <2>1 DEF Acyclic
  <2>3. n \in Nodes /\ record[n] = "none" /\ n \notin behind
    BY <2>1, <2>2 DEF Missing
  <2>4. PICK m \in Into(n) : ~Settled(m)
    BY <1>1, <1>4, <2>3 DEF Callable
  <2>5. m \in Nodes /\ <<m, n>> \in dag.wires /\ m \notin ns
    <3>1. m \in Nodes /\ <<m, n>> \in dag.wires
      BY <2>4 DEF Into
    <3>2. <<m, n>>[1] = m /\ <<m, n>>[2] = n
      OBVIOUS
    <3> QED BY <2>2, <3>1, <3>2
  <2>6. CASE record[m] # "none"
    <3>1. m \in UnderWay(record)
      BY <1>2, <1>3, <2>4, <2>5, <2>6 DEF UnderWay, Callable, BegunSays
    <3>2. \A c \in SUBSET Nodes :
             (\A w \in dag.wires : w[1] \in UnderWay(record) \union c => w[2] \in c) => n \in c
      BY <2>5, <3>1
    <3> QED BY <2>3, <3>2 DEF Downstream
  <2>7. CASE record[m] = "none"
    <3>1. m \in behind
      BY <2>5, <2>7 DEF Missing
    <3>2. \A c \in SUBSET Nodes :
             (\A w \in dag.wires : w[1] \in UnderWay(record) \union c => w[2] \in c) => m \in c
      BY <3>1 DEF Downstream
    <3>3. \A c \in SUBSET Nodes :
             (\A w \in dag.wires : w[1] \in UnderWay(record) \union c => w[2] \in c) => n \in c
      BY <2>5, <3>2
    <3> QED BY <2>3, <3>3 DEF Downstream
  <2> QED BY <2>6, <2>7
<1> QED BY <1>0, <1>4, <1>5

\* A record that reads the same misses the same.
LEMMA SameMissing ==
    ASSUME dag' = dag, \A n \in Nodes : record'[n] = record[n]
    PROVE  /\ Missing(record)' = Missing(record)
           /\ StaysCaught' = StaysCaught
           /\ NoneWaits' = NoneWaits
<1>1. UnderWay(record)' = UnderWay(record)
  BY DEF UnderWay
<1>2. Downstream(UnderWay(record))' = Downstream(UnderWay(record))
  BY <1>1 DEF Downstream
<1>3. Missing(record)' = Missing(record) /\ Caught(record)' = Caught(record)
  BY <1>1, <1>2 DEF Missing, Caught
<1> QED BY <1>3 DEF StaysCaught, NoneWaits

\* What a write of the run's status alone does.
LEMMA StatusWrite ==
    ASSUME TypeOK, NEW status \in RunStatuses, Write(Of({}, "none"), status), overtaken' = overtaken
    PROVE  /\ \A n \in Nodes : record'[n] = record[n]
           /\ created' = created
           /\ runStatus' \in {runStatus, status}
           /\ Almost' => Almost
           /\ Almost' => Loses({}, status)
<1> DEFINE written == Of({}, "none")
<1>1. written \in [{} -> Statuses] /\ {} \in SUBSET Nodes /\ Write(written, status)
  BY DEF Of
<1> HIDE DEF written
<1>2. /\ runStatus' \in {runStatus, status} /\ lost' \in 0 .. MaxLost /\ lost <= lost'
      /\ \A n \in Nodes : record'[n] = record[n] \/ (n \in {} /\ record'[n] = written[n])
  BY <1>1, WriteDoes
<1>3. created' = created
  BY <1>1 DEF Write, Of, written
<1>4. lost \in Nat /\ lost' \in Nat
  BY <1>2, LifecycleAssumption DEF TypeOK
<1>5. Almost' => Almost
  BY <1>2, <1>4, AlmostBefore
<1>6. Almost' => Loses({}, status)
  <2> SUFFICES ASSUME Almost' PROVE Loses({}, status)
    OBVIOUS
  <2>1. PICK failing \in SUBSET {} : Loses(failing, status)
    BY <1>1, WriteLoses DEF Almost
  <2> QED BY <2>1
<1> QED BY <1>2, <1>3, <1>5, <1>6

LEMMA HeldSpared ==
    ASSUME IInv, RecordInv, SparedInv, IInv', HoldEnds, ~sweep.halted
    PROVE  SparedInv'
<1>0. TypeOK /\ InSweep /\ \A n \in Nodes : sweep.task[n] = "none"
  BY ThroughCallsNothing DEF IInv, HoldEnds
<1>1. /\ UNCHANGED <<dag, overtaken, recovery, todo, calls, attempts, granted, crashes, tasks>>
      /\ pc = "holding" /\ pc' = "free" /\ "waiting" \in RunStatuses
      /\ Write(Of({}, "none"), "waiting")
  BY DEF HoldEnds, starts, history, RunStatuses
<1>2. AtRest' /\ ~InSweep'
  BY <1>1 DEF AtRest, InSweep
<1>3. /\ \A n \in Nodes : record'[n] = record[n]
      /\ created' = created /\ runStatus' \in {runStatus, "waiting"}
      /\ Almost' => Almost
      /\ Almost' => Loses({}, "waiting")
  BY <1>0, <1>1, StatusWrite
<1>4. Plain'
  <2>1. TasksMissNothing'
    BY <1>1 DEF SparedInv, Plain, TasksMissNothing, Missing, Downstream
  <2>2. ListedIsBegun'
    <3>1. \A w \in todo : w.node \in Nodes
      BY <1>0 DEF TypeOK, Listed
    <3> QED BY <1>1, <1>3, <3>1 DEF SparedInv, Plain, ListedIsBegun
  <2>3. RecoveredWaits'
    BY <1>1 DEF RecoveredWaits
  <2> QED BY <1>0, <1>1, <1>2, <1>3, <2>1, <2>2, <2>3, RestsPlainly DEF SparedInv
<1> SUFFICES ASSUME Almost' PROVE Traces' /\ Sparing'
  BY <1>4, NothingOwed DEF SparedInv
<1>5. Almost /\ ~overtaken /\ Loses({}, "waiting")
  BY <1>3 DEF Almost
<1>6. /\ Missing(record) = {}
      /\ \A n \in Nodes : record[n] \in Callable => sweep.result[n] = "none" /\ sweep.task[n] = "none"
  BY <1>1, <1>5, HeldMissesNothing
<1>7. RecordedInOrder'
  <2> SUFFICES ASSUME Clean' PROVE RecordedInOrder'
    BY DEF RecordedInOrder
  <2>1. Clean
    BY <1>1, <1>5 DEF Clean, Loses
  <2>2. runStatus # "cancelled"
    BY <1>1, <2>1 DEF IInv, EndedAtRest, Ended
  <2> QED BY <1>1, <1>3, <2>1, <2>2 DEF SparedInv, Traces, RecordedInOrder, Into
<1>8. TracelessAreMissed'
  <2> SUFFICES ASSUME NEW n \in Nodes, Traceless(n)' PROVE FALSE
    BY DEF TracelessAreMissed
  <2>1. Traceless(n)
    BY <1>1, <1>3 DEF Traceless, Unrelated
  <2>2. Deviates(n) /\ record[n] = "none"
    BY <1>0, <1>5, <2>1, TracelessInSweep DEF SparedInv, Unrelated
  <2>3. Unmatched(n)
    BY <1>0, <2>2 DEF Deviates
  <2> QED BY <1>1, <2>3 DEF SparedInv, Plain, HeldIsRecorded, Unmatched
<1>9. OneDeviates' /\ ListedOneLost'
  BY <1>1, <1>2, <1>3, <1>6, SameMissing DEF OneDeviates, ListedOneLost
<1>10. \A n : Allowed(n)' = Allowed(n)
  BY <1>1 DEF Allowed, Credited
<1>11. CallsWithin'
  BY <1>1, <1>5, <1>10 DEF SparedInv, Sparing, CallsWithin
<1>12. \A n \in Nodes : record'[n] \in Callable => MayBeCalled(n)'
  BY <1>0, <1>1, <1>3, <1>5, <1>6, <1>10 DEF SparedInv, Sparing, OpenMayBeCalled, MayBeCalled
<1>13. RestMayBeCalled' /\ TaskMayCall' /\ OpenMayBeCalled'
  <2>1. RestMayBeCalled'
    BY <1>12 DEF RestMayBeCalled, SpentAtRest, Callable, BegunSays
  <2>2. TaskMayCall'
    BY <1>12 DEF TaskMayCall, Callable, BegunSays
  <2> QED BY <1>2, <2>1, <2>2 DEF OpenMayBeCalled
<1> QED BY <1>7, <1>8, <1>9, <1>11, <1>13 DEF Traces, Sparing
-----------------------------------------------------------------------------

\* What is not missed by the lists a recovery has yet to look at.
LEMMA ListedStaysBegun ==
    ASSUME TypeOK, ListedIsBegun, todo' \subseteq todo, \A n \in Nodes : record'[n] = "none" => record[n] = "none"
    PROVE  ListedIsBegun'
<1>1. \A w \in todo : w.node \in Nodes
  BY DEF TypeOK, Listed
<1> QED BY <1>1 DEF ListedIsBegun

\* Tasks hold records that miss nothing, whatever became of the record since.
LEMMA TasksStillMissNothing ==
    ASSUME TasksMissNothing, dag' = dag, \A t \in tasks' : t.kind = "sweep" => t \in tasks
    PROVE  TasksMissNothing'
BY DEF TasksMissNothing, Missing, Downstream

\* The end of a sweep settles all but one node at most, and that one it settles only where the
\* run's end is recorded.
LEMMA CloseSpared ==
    ASSUME IInv, RecordInv, SparedInv, IInv', Close
    PROVE  SparedInv'
<1> USE SweepParts
<1> DEFINE ns == {n \in Nodes : ~Settled(n)}
           v == IF sweep.stopped THEN "cancelled" ELSE "skipped"
           status == IF sweep.stopped THEN "cancelled" ELSE IF sweep.halted THEN "failed" ELSE "succeeded"
           written == Of(ns, v)
<1>0. TypeOK
  BY DEF IInv
<1>1. /\ UNCHANGED <<dag, overtaken, recovery, todo, calls, attempts, granted, crashes, tasks>>
      /\ pc = "sweeping" /\ pc' = "free" /\ InSweep /\ AtRest' /\ ~InSweep'
      /\ \A n \in Nodes : sweep.task[n] = "none"
  BY DEF Close, Through, Calling, starts, history, InSweep, AtRest
<1>2. /\ v \in Statuses /\ v \in OverSays /\ Finished(status) /\ \A n : n \in ns <=> n \in Nodes /\ ~Settled(n)
      /\ ns \in SUBSET Nodes /\ status \in RunStatuses /\ Write(written, status)
  BY DEF Close, Statuses, Results, Answered, OverSays, Finished, RunStatuses
<1>3. written \in [ns -> Statuses] /\ \A n \in ns : written[n] = v
  <2> HIDE DEF ns, v
  <2> QED BY <1>2, OfTypes
<1> HIDE DEF ns, v, status, written
<1>4. /\ lost \in Nat /\ lost' \in Nat /\ lost <= lost'
      /\ \A n \in Nodes : record'[n] = record[n] \/ record'[n] = v
  <2>1. /\ lost' \in 0 .. MaxLost /\ lost <= lost'
        /\ \A n \in Nodes : record'[n] = record[n] \/ (n \in ns /\ record'[n] = written[n])
    BY <1>0, <1>2, <1>3, WriteDoes
  <2> QED BY <1>0, <1>2, <1>3, <2>1, LifecycleAssumption DEF TypeOK
<1>5. Plain'
  <2>1. \A n \in Nodes : /\ record'[n] = "none" => record[n] = "none"
                         /\ record'[n] = "trying" => record[n] = "trying"
    BY <1>2, <1>4 DEF OverSays
  <2>2. TasksMissNothing' /\ ListedIsBegun'
    BY <1>0, <1>1, <2>1, ListedStaysBegun, TasksStillMissNothing DEF SparedInv, Plain
  <2>3. RecoveredWaits'
    BY <1>1 DEF RecoveredWaits
  <2> QED BY <1>0, <1>1, <2>1, <2>2, <2>3, RestsPlainly DEF SparedInv
<1> SUFFICES ASSUME Almost' PROVE Traces' /\ Sparing'
  BY <1>5, NothingOwed DEF SparedInv
<1>6. Almost /\ ~overtaken
  BY <1>0, <1>1, <1>4, AlmostBefore DEF Almost
<1>7. PICK failing \in SUBSET ns :
           /\ Loses(failing, status)
           /\ \A n \in Nodes : record'[n] = IF n \in ns \ failing /\ ~Unrelated(n) THEN written[n]
                                            ELSE record[n]
           /\ created' = created \union ns
  BY <1>0, <1>2, <1>3, WriteLoses DEF Almost
<1> DEFINE Odd(n) == Deviates(n) \/ n \in failing
<1>8. \A n \in Nodes : record'[n] \in OverSays \/ Odd(n)
  <2> SUFFICES ASSUME NEW n \in Nodes, ~Deviates(n), n \notin failing PROVE record'[n] \in OverSays
    OBVIOUS
  <2>1. CASE n \in ns
    <3>1. ~Unrelated(n)
      BY <1>1, <1>6, TracelessInSweep DEF SparedInv, Traceless
    <3> QED BY <1>2, <1>3, <1>7, <2>1, <3>1
  <2>2. CASE n \notin ns
    <3>1. record'[n] = record[n] /\ Settled(n)
      BY <1>2, <1>7, <2>2
    <3> QED BY <1>0, <1>1, <3>1, SettledIsOver
  <2> QED BY <2>1, <2>2
<1>9. /\ \A m, n \in Nodes : Odd(m) /\ Odd(n) => m = n
      /\ \A n \in Nodes : Odd(n) => lost' = 1 /\ runStatus' = status
  <2>1. /\ lost \in {0, 1} /\ lost' \in {0, 1} /\ lost <= lost'
        /\ \A m, n \in failing : m = n
        /\ lost' = lost => failing = {} /\ runStatus' = status
        /\ runStatus' # status => failing = {}
    BY <1>7 DEF Loses
  <2>2. /\ \A m, n \in Nodes : Deviates(m) /\ Deviates(n) => m = n
        /\ lost = 0 => \A n \in Nodes : ~Deviates(n)
    BY <1>1, <1>6 DEF SparedInv, Traces, OneDeviates
  <2>3. lost = 1 => lost' = lost
    BY <2>1
  <2>4. lost # lost' => lost' = 1
    BY <2>1
  <2> QED BY <2>1, <2>2, <2>3, <2>4
<1> HIDE DEF Odd
<1>10. runStatus' = status \/ \A n \in Nodes : record'[n] \in OverSays
  BY <1>8, <1>9
<1>11. \A n \in Nodes : Into(n)' = Into(n) /\ Into(n) \subseteq Nodes
  BY <1>1 DEF Into
<1>12. Finished(runStatus') \/ \A n \in Nodes : record'[n] \in OverSays
  BY <1>2, <1>10
<1>13. RecordedInOrder'
  <2>1. lost' = 0 => \A n \in Nodes : record'[n] \in OverSays
    BY <1>8, <1>9
  <2> QED BY <1>11, <2>1 DEF RecordedInOrder, Clean
<1>14. TracelessAreMissed'
  <2> SUFFICES ASSUME NEW n \in Nodes, Traceless(n)' PROVE TracelessIsMissed(n)'
    BY DEF TracelessAreMissed
  <2>1. Odd(n)
    BY <1>8 DEF Traceless, Unrelated, OverSays
  <2>2. lost' = 1 /\ runStatus' = status
    BY <1>9, <2>1
  <2>3. \A m \in Nodes : m = n \/ record'[m] \in OverSays
    BY <1>8, <1>9, <2>1
  <2>4. MissedIn(n)'
    BY <1>11, <2>3 DEF MissedIn
  <2> QED BY <1>1, <1>2, <2>2, <2>4 DEF TracelessIsMissed
<1>15. OneDeviates' /\ ListedOneLost'
  <2>1. NoneWaits' \/ Finished(runStatus')
    BY <1>12 DEF NoneWaits, OverSays
  <2> QED BY <1>1, <2>1 DEF OneDeviates, ListedOneLost
<1>16. \A n : Allowed(n)' = Allowed(n)
  BY <1>1 DEF Allowed, Credited
<1>17. CallsWithin'
  BY <1>1, <1>6, <1>16 DEF SparedInv, Sparing, CallsWithin
<1>18. RestMayBeCalled'
  <2> SUFFICES ASSUME NEW n \in Nodes, record'[n] \in Callable PROVE Finished(runStatus') /\ NoneWaits'
    BY DEF RestMayBeCalled, SpentAtRest, Callable, BegunSays
  <2>1. record'[n] \notin OverSays
    BY DEF Callable, BegunSays, OverSays
  <2>2. Odd(n)
    BY <1>8, <2>1
  <2>3. \A m \in Nodes : m = n \/ record'[m] \in OverSays
    BY <1>8, <1>9, <2>2
  <2>4. NoneWaits'
    BY <2>3 DEF NoneWaits, Callable, BegunSays, OverSays
  <2> QED BY <1>12, <2>1, <2>4
<1>19. TaskMayCall' /\ OpenMayBeCalled'
  <2>1. ~Finished(runStatus') => \A n \in Nodes : record'[n] \notin Callable
    BY <1>12 DEF Callable, BegunSays, OverSays
  <2>2. ~Finished(runStatus)' => \A n \in Nodes : record'[n] \notin Callable'
    BY <2>1 DEF Finished, Callable, BegunSays
  <2> QED BY <1>1, <2>2 DEF TaskMayCall, OpenMayBeCalled
<1> QED BY <1>13, <1>14, <1>15, <1>17, <1>18, <1>19 DEF Traces, Sparing

LEMMA SweepStepSpared ==
    ASSUME IInv, RecordInv, SparedInv, IInv', SweepStep
    PROVE  SparedInv'
BY SeeStopSpared, LookSpared, WriteRecordAgainSpared, UnheldSpared, HeldSpared, FailUnheldSpared,
   CloseSpared, TakeSpared, PlaceSpared, HoldSpared DEF SweepStep
-----------------------------------------------------------------------------

\* A node without a trace keeps the record from being gone on from.
LEMMA TracelessIsMissing ==
    ASSUME TypeOK, NEW n \in Nodes, record[n] = "none", MissedIn(n)
    PROVE  n \in Missing(record)
<1> DEFINE c == {m \in Nodes : record[m] = "none" /\ m # n}
<1>1. c \in SUBSET Nodes /\ n \notin c /\ \A m \in Nodes : m \in c <=> record[m] = "none" /\ m # n
  OBVIOUS
<1> HIDE DEF c
<1>2. dag.wires \in SUBSET (Nodes \X Nodes)
  BY LifecycleAssumption DEF TypeOK, Drawing
<1>3. ASSUME NEW w \in dag.wires, w[1] \in UnderWay(record) \union c
      PROVE  w[2] \in c
  <2>1. w[1] \in Nodes /\ w[2] \in Nodes /\ w = <<w[1], w[2]>>
    BY <1>2
  <2>2. record[w[1]] \notin OverSays /\ w[1] # n
    BY <1>1, <1>3, <2>1 DEF UnderWay, OverSays
  <2>3. w[1] \in Into(w[2])
    BY <2>1 DEF Into
  <2>4. ~(w[2] = n \/ record[w[2]] # "none")
    BY <2>1, <2>2, <2>3 DEF MissedIn
  <2> QED BY <1>1, <2>1, <2>4
<1>4. n \notin Downstream(UnderWay(record))
  BY <1>1, <1>3 DEF Downstream
<1> QED BY <1>4 DEF Missing

\* So a record that misses nothing has a trace of each node that was called.
LEMMA NothingIsTraceless ==
    ASSUME TypeOK, Traces, Almost, ~Dead, Missing(record) = {}
    PROVE  \A n \in Nodes : ~Traceless(n)
<1> SUFFICES ASSUME NEW n \in Nodes, Traceless(n) PROVE FALSE
  OBVIOUS
<1>1. MissedIn(n)
  BY DEF Traces, TracelessAreMissed, TracelessIsMissed
<1>2. record[n] = "none"
  BY DEF Traceless, Unrelated
<1> QED BY <1>1, <1>2, TracelessIsMissing

\* What may be gone on from may be called.
LEMMA GoneOnMayCall ==
    ASSUME IInv, SparedInv, Almost, AtRest, ~CannotGoOn(record, FALSE), ~(Finished(runStatus) /\ NoneWaits)
    PROVE  /\ \A n \in Nodes : ~Traceless(n)
           /\ \A n \in Nodes : record[n] \in Callable => MayBeCalled(n)
<1>0. TypeOK
  BY DEF IInv
<1>1. Missing(record) = {} /\ ~StaysCaught
  BY DEF CannotGoOn, StaysCaught
<1>2. ~Dead
  BY DEF Dead, Finished
<1>3. \A n \in Nodes : ~Traceless(n)
  BY <1>0, <1>1, <1>2, NothingIsTraceless DEF SparedInv
<1>4. ASSUME NEW n \in Nodes, record[n] \in Callable PROVE MayBeCalled(n)
  <2>1. CASE n \in Credited
    BY <1>1, <1>4, <2>1 DEF SparedInv, Sparing, RestMayBeCalled, SpentAtRest
  <2>2. CASE n \notin Credited
    <3>1. calls[n] = 0
      <4>1. CASE record[n] = "none"
        <5>1. ~(calls[n] >= 1)
          BY <1>3, <2>2, <4>1 DEF Traceless, Credited
        <5> QED BY <1>0, <5>1 DEF TypeOK
      <4>2. CASE record[n] = "trying"
        BY <2>2, <4>2 DEF SparedInv, Plain, TriesAreRetried, Credited
      <4>3. CASE record[n] \in {"running", "interrupted"}
        <5>1. n = dag.output
          BY <1>1, <2>2, <4>3 DEF StaysCaught, Caught, Credited
        <5> QED BY <5>1 DEF SparedInv, Plain, OutputIsNotCalled
      <4> QED BY <1>4, <4>1, <4>2, <4>3 DEF Callable, BegunSays
    <3>2. Allowed(n) = 1 + granted + 0 /\ granted \in Nat
      BY <1>0, <2>2 DEF Allowed, Credited, TypeOK
    <3> QED BY <3>1, <3>2 DEF MayBeCalled
  <2> QED BY <2>1, <2>2
<1> QED BY <1>3, <1>4

\* A sweep that starts from the record calls nothing yet.
LEMMA StartsPlainly ==
    ASSUME TypeOK, Plain, IInv, AtRest, pc' = "sweeping",
           UNCHANGED <<dag, calls, attempts, granted, crashes>>, todo' \subseteq todo,
           \A t \in tasks' : t.kind = "sweep" => t \in tasks,
           \A n \in Nodes : /\ sweep'.task[n] = "none"
                            /\ record'[n] = "none" => record[n] = "none"
                            /\ record'[n] = "trying" => record[n] = "trying",
           OpenIsNotOver'
    PROVE  Plain'
<1>1. dag.retried \subseteq Nodes /\ dag.output \in Nodes
  BY LifecycleAssumption DEF TypeOK, Drawing
<1>2. \A n \in Nodes : sweep.task[n] = "none"
  BY DEF IInv, RestIsIdle
<1>3. AttemptsTell'
  BY <1>1, <1>2 DEF Plain, AttemptsTell
<1>4. OutputIsNotCalled' /\ TriesAreRetried'
  BY <1>1, <1>2 DEF Plain, OutputIsNotCalled, TriesAreRetried
<1>5. TasksMissNothing' /\ ListedIsBegun'
  BY ListedStaysBegun, TasksStillMissNothing DEF Plain
<1>6. HeldIsRecorded' /\ RecoveredWaits'
  BY DEF HeldIsRecorded, RecoveredWaits
<1> QED BY <1>3, <1>4, <1>5, <1>6 DEF Plain

LEMMA BackgroundSpared ==
    ASSUME IInv, RecordInv, SparedInv, NEW t, CarryOnInTheBackground(t)
    PROVE  SparedInv'
<1>0. TypeOK /\ AllRelated /\ record \in [Nodes -> Statuses]
  BY DEF IInv, RecordInv, TypeOK
<1>1. /\ pc = "free" /\ pc' = "sweeping" /\ t.kind = "sweep" /\ tasks' = tasks \ {t} /\ t \in tasks
      /\ UNCHANGED <<dag, record, runStatus, created, lost, recovery, todo, granted, calls, crashes, attempts>>
      /\ t.rec = record => sweep'.result = ProgressFrom(record)
      /\ \A n \in Nodes : sweep'.task[n] = "none"
  BY <1>0, BackgroundDoes DEF writes, starts, CarryOnInTheBackground, TakesTurn
<1>2. overtaken' = (overtaken \/ t.rec # record \/ t.status # runStatus)
  BY DEF CarryOnInTheBackground
<1>3. AtRest /\ InSweep' /\ ~AtRest'
  BY <1>1 DEF AtRest, InSweep
<1>4. ~overtaken' => /\ ~overtaken /\ t.rec = record /\ ~Finished(runStatus)
                     /\ sweep'.result = ProgressFrom(record)
  BY <1>1, <1>2 DEF IInv, TasksGoOn
<1>5. ~overtaken' => \A n \in Nodes : /\ sweep'.result[n] = "none" => record'[n] \in Callable
                                      /\ sweep'.result[n] # "none" => record'[n] = sweep'.result[n]
  BY <1>0, <1>1, <1>4, ProgressSays DEF Callable
<1>6. OpenIsNotOver'
  BY <1>5 DEF OpenIsNotOver, Callable, BegunSays
<1>7. Plain'
  BY <1>0, <1>1, <1>3, <1>6, StartsPlainly DEF SparedInv
<1> SUFFICES ASSUME Almost' PROVE Traces' /\ Sparing'
  BY <1>7, NothingOwed DEF SparedInv
<1>8. Almost /\ ~overtaken'
  BY <1>1, <1>4 DEF Almost
<1>9. \A n \in Nodes : ~Traceless(n)
  <2>1. Missing(record) = {}
    BY <1>1, <1>4, <1>8 DEF SparedInv, Plain, TasksMissNothing
  <2>2. ~Dead
    BY <1>4, <1>8 DEF Dead, Finished
  <2> QED BY <1>0, <1>8, <2>1, <2>2, NothingIsTraceless DEF SparedInv
<1>10. TracelessAreMissed'
  BY <1>1, <1>9 DEF TracelessAreMissed, Traceless, Unrelated
<1>11. OneDeviates' /\ ListedOneLost'
  BY <1>1, <1>3, <1>5, <1>8 DEF OneDeviates, ListedOneLost, Deviates, Unmatched
<1>12. RecordedInOrder'
  BY <1>1, <1>8 DEF SparedInv, Traces, RecordedInOrder, Clean, Almost, Into
<1>13. \A n : Allowed(n)' = Allowed(n)
  BY <1>1 DEF Allowed, Credited
<1>14. CallsWithin'
  BY <1>1, <1>8, <1>13 DEF SparedInv, Sparing, CallsWithin
<1>15. \A n \in Nodes : record[n] \in Callable => MayBeCalled(n)
  BY <1>1, <1>3, <1>4, <1>8 DEF SparedInv, Sparing, TaskMayCall
<1>16. OpenMayBeCalled'
  BY <1>1, <1>5, <1>8, <1>13, <1>15 DEF OpenMayBeCalled, MayBeCalled, Callable, BegunSays
<1> QED BY <1>3, <1>10, <1>11, <1>12, <1>14, <1>16 DEF Traces, Sparing, RestMayBeCalled, TaskMayCall
-----------------------------------------------------------------------------

\* What leaves the record, the sweep and the counts, and gives no sweep the turn.
LEMMA StillSpared ==
    ASSUME TypeOK, SparedInv,
           UNCHANGED <<dag, record, runStatus, created, lost, sweep, calls, attempts, granted, crashes>>,
           UNCHANGED <<pc, overtaken>> \/ (AtRest /\ AtRest' /\ (overtaken => overtaken')),
           recovery' = "unfinished" => \/ recovery = "unfinished" /\ todo' = todo
                                       \/ \A w \in todo' : record[w.node] \in {"running", "trying"},
           ListedIsBegun', RecoveredWaits', TasksMissNothing', TaskMayCall'
    PROVE  SparedInv'
<1>1. /\ Almost' => Almost
      /\ ~overtaken' => ~overtaken
      /\ InSweep' = InSweep /\ AtRest' = AtRest
      /\ AtRest \/ pc' = pc
  BY DEF Almost, InSweep, AtRest, TypeOK
<1>2. \A n : /\ Allowed(n)' = Allowed(n) /\ MayBeCalled(n)' = MayBeCalled(n)
             /\ Traceless(n)' = Traceless(n)
             /\ MissedIn(n)' = MissedIn(n)
  BY DEF Allowed, Credited, MayBeCalled, Traceless, Unrelated, MissedIn, Into
<1>3. NoneWaits' = NoneWaits /\ StaysCaught' = StaysCaught /\ Missing(record)' = Missing(record)
  BY SameMissing
<1>4. InSweep => \A n : Deviates(n)' = Deviates(n) /\ Unmatched(n)' = Unmatched(n)
  BY <1>1 DEF Deviates, Unmatched, InSweep, AtRest
<1>5. AttemptsTell' /\ OutputIsNotCalled' /\ TriesAreRetried'
  BY DEF SparedInv, Plain, AttemptsTell, OutputIsNotCalled, TriesAreRetried
<1>6. HeldIsRecorded' /\ OpenIsNotOver'
  <2>1. pc' = "holding" => InSweep /\ pc = "holding"
    BY <1>1 DEF InSweep, AtRest
  <2>2. HeldIsRecorded'
    BY <1>4, <2>1 DEF SparedInv, Plain, HeldIsRecorded
  <2> QED BY <1>1, <2>2 DEF SparedInv, Plain, OpenIsNotOver
<1>7. Plain'
  BY <1>5, <1>6 DEF Plain
<1> SUFFICES ASSUME Almost' PROVE Traces' /\ Sparing'
  BY <1>7, NothingOwed DEF SparedInv
<1>8. Almost
  BY <1>1
<1>9. RecordedInOrder'
  BY <1>1 DEF SparedInv, Traces, RecordedInOrder, Clean, Into
<1>10. OneDeviates'
  BY <1>1, <1>4, <1>8 DEF SparedInv, Traces, OneDeviates
<1>11. TracelessAreMissed'
  <2> SUFFICES ASSUME NEW n \in Nodes, Traceless(n)' PROVE TracelessIsMissed(n)'
    BY DEF TracelessAreMissed
  <2>1. TracelessIsMissed(n)
    BY <1>2, <1>8 DEF SparedInv, Traces, TracelessAreMissed
  <2> QED BY <1>1, <1>2, <1>3, <2>1 DEF TracelessIsMissed, Dead
<1>12. ListedOneLost'
  BY <1>1, <1>3 DEF SparedInv, Traces, ListedOneLost
<1>13. CallsWithin' /\ OpenMayBeCalled'
  BY <1>1, <1>2, <1>8 DEF SparedInv, Sparing, CallsWithin, OpenMayBeCalled
<1>14. RestMayBeCalled'
  BY <1>1, <1>2, <1>3, <1>8 DEF SparedInv, Sparing, RestMayBeCalled, SpentAtRest, Credited
<1> QED BY <1>9, <1>10, <1>11, <1>12, <1>13, <1>14 DEF Traces, Sparing

\* What leaves no sweep to a task, either.
LEMMA QuietSpared ==
    ASSUME TypeOK, SparedInv,
           UNCHANGED <<dag, record, runStatus, created, lost, sweep, calls, attempts, granted, crashes>>,
           UNCHANGED <<pc, overtaken, placing>>
              \/ (AtRest /\ AtRest' /\ (overtaken => overtaken') /\ RecoveredWaits'),
           \A t \in tasks' : t.kind = "sweep" => t \in tasks,
           ListedIsBegun',
           recovery' = "unfinished" => \/ recovery = "unfinished" /\ todo' = todo
                                       \/ \A w \in todo' : record[w.node] \in {"running", "trying"}
    PROVE  SparedInv'
<1>1. TasksMissNothing'
  BY TasksStillMissNothing DEF SparedInv, Plain
<1>2. RecoveredWaits'
  BY DEF SparedInv, Plain, RecoveredWaits, Almost
<1>3. TaskMayCall'
  <2>1. /\ Almost' => Almost
        /\ AtRest' = AtRest
        /\ \A n : MayBeCalled(n)' = MayBeCalled(n)
    BY DEF Almost, AtRest, TypeOK, MayBeCalled, Allowed, Credited
  <2> QED BY <2>1 DEF SparedInv, Sparing, TaskMayCall
<1> QED BY <1>1, <1>2, <1>3, StillSpared

\* The recovery's list is as it was.
LEMMA SameListed ==
    ASSUME TypeOK, ListedIsBegun, UNCHANGED <<record, todo>>
    PROVE  ListedIsBegun'
BY DEF ListedIsBegun

LEMMA AnswerStepSpared ==
    ASSUME TypeOK, SparedInv, NEW n \in Nodes, AnswerStep(n)
    PROVE  SparedInv'
<1>1. /\ UNCHANGED <<dag, record, runStatus, created, lost, pc, sweep, placing, overtaken, calls, attempts,
                     granted, crashes>>
      /\ UNCHANGED <<recovery, todo>>
      /\ \A t \in tasks' : t \in tasks \/ t = ResumeTask(n)
  BY DEF AnswerStep, LookUp, KeepEarly, LookUpAgain, LookUpAgainIf, writes, vigils, starts, asked, history
<1>2. \A t \in tasks' : t.kind = "sweep" => t \in tasks
  BY <1>1 DEF ResumeTask
<1> QED BY <1>1, <1>2, QuietSpared, SameListed DEF SparedInv, Plain

LEMMA ListWaitsSpared ==
    ASSUME TypeOK, SparedInv, ListWaits \/ \E w \in todo : SkipWait(w)
    PROVE  SparedInv'
<1>1. /\ UNCHANGED <<dag, record, runStatus, created, lost, pc, sweep, placing, overtaken, calls, attempts,
                     granted, crashes>>
      /\ recovery' = "waits" /\ tasks' = tasks
  BY DEF ListWaits, SkipWait, writes, vigils, asked, history
<1>2. ListedIsBegun'
  <2>1. ASSUME NEW w \in todo' PROVE w \in todo \/ record[w.node] = "waiting"
    <3>1. CASE ListWaits
      <4>1. \E n \in {m \in Nodes : record[m] = "waiting"} : w.node = n
        BY <2>1, <3>1 DEF ListWaits
      <4> QED BY <4>1
    <3>2. CASE ~ListWaits
      BY <2>1, <3>2 DEF SkipWait
    <3> QED BY <3>1, <3>2
  <2> QED BY <1>1, <2>1 DEF SparedInv, Plain, ListedIsBegun
<1> QED BY <1>1, <1>2, QuietSpared

\* An answer to a run that cannot go on fails it.
LEMMA FailsRunSpared ==
    ASSUME IInv, RecordInv, SparedInv, IInv', NEW k \in Nodes, Resume(k), record[k] = "waiting",
           CannotGoOn(record, FALSE)
    PROVE  SparedInv'
<1>0. TypeOK /\ AllRelated
  BY DEF IInv, RecordInv
<1>1. /\ pc = "free" /\ pc' = "free" /\ tasks' = tasks \ {ResumeTask(k)} /\ sweep' = sweep
      /\ UNCHANGED <<dag, overtaken, recovery, todo, granted, calls, crashes, attempts>>
      /\ Write(Of({}, "none"), "failed") /\ "failed" \in RunStatuses
  BY DEF Resume, TakesTurn, starts, asked, RunStatuses
<1>2. /\ AtRest /\ AtRest' /\ ~InSweep /\ ~InSweep'
      /\ \A n \in Nodes : sweep.task[n] = "none"
  BY <1>1 DEF AtRest, InSweep, IInv, RestIsIdle
<1>3. /\ \A n \in Nodes : record'[n] = record[n]
      /\ created' = created /\ runStatus' \in {runStatus, "failed"}
      /\ Almost' => Almost
      /\ Almost' => Loses({}, "failed")
  BY <1>0, <1>1, StatusWrite
<1>4. Missing(record)' = Missing(record) /\ StaysCaught' = StaysCaught /\ NoneWaits' = NoneWaits /\ ~NoneWaits
  BY <1>1, <1>3, SameMissing DEF NoneWaits
<1>5. \A t \in tasks' : t \in tasks
  BY <1>1
<1>6. Plain'
  <2>1. TasksMissNothing' /\ ListedIsBegun'
    BY <1>0, <1>1, <1>3, <1>5, ListedStaysBegun, TasksStillMissNothing DEF SparedInv, Plain
  <2>2. RecoveredWaits'
    BY <1>1 DEF RecoveredWaits
  <2> QED BY <1>0, <1>1, <1>2, <1>3, <2>1, <2>2, RestsPlainly DEF SparedInv
<1> SUFFICES ASSUME Almost' PROVE Traces' /\ Sparing'
  BY <1>6, NothingOwed DEF SparedInv
<1>7. /\ Almost /\ ~overtaken /\ lost \in {0, 1} /\ lost' \in {0, 1} /\ lost <= lost'
      /\ lost' = lost => runStatus' = "failed"
  BY <1>3 DEF Almost, Loses
<1>8. Finished("failed") /\ ~Dead
  BY <1>4 DEF Finished, Dead
<1>9. Clean => ~Ended
  BY <1>4 DEF IInv, EndedAtRest, NoneWaits
<1>10. RecordedInOrder'
  <2>1. Clean' => Clean
    BY <1>1, <1>7 DEF Clean
  <2> QED BY <1>1, <1>3, <1>9, <2>1 DEF SparedInv, Traces, RecordedInOrder, Into, Ended
<1>11. TracelessAreMissed'
  <2> SUFFICES ASSUME NEW n \in Nodes, Traceless(n)' PROVE TracelessIsMissed(n)'
    BY DEF TracelessAreMissed
  <2>1. Traceless(n)
    BY <1>1, <1>3 DEF Traceless, Unrelated
  <2>2. lost = 1 /\ MissedIn(n)
    BY <1>7, <1>8, <2>1 DEF SparedInv, Traces, TracelessAreMissed, TracelessIsMissed
  <2>3. MissedIn(n)'
    BY <1>1, <1>3, <2>2 DEF MissedIn, Into
  <2>4. lost' = 1 /\ Finished(runStatus')
    BY <1>7, <1>8, <2>2
  <2> QED BY <1>2, <2>3, <2>4 DEF TracelessIsMissed
<1>12. ListedOneLost'
  <2> SUFFICES ASSUME lost' = 1, recovery = "unfinished", NEW w \in todo,
                      ~Finished(runStatus'), record'[w.node] \notin {"running", "trying"}
               PROVE  FALSE
    BY <1>1 DEF ListedOneLost
  <2>1. lost = 0 /\ ~Finished(runStatus)
    BY <1>3, <1>7, <1>8
  <2>2. w.node \in Nodes
    BY <1>0 DEF TypeOK, Listed
  <2>3. Clean
    BY <1>7, <2>1 DEF Clean
  <2> QED BY <1>2, <1>3, <1>9, <2>1, <2>2, <2>3 DEF RecordInv, ListedIsUnderWay
<1>13. \A n : Allowed(n)' = Allowed(n)
  BY <1>1 DEF Allowed, Credited
<1>14. CallsWithin' /\ OneDeviates' /\ OpenMayBeCalled'
  BY <1>1, <1>2, <1>7, <1>13 DEF SparedInv, Sparing, CallsWithin, OneDeviates, OpenMayBeCalled
<1>15. RestMayBeCalled'
  <2> SUFFICES ASSUME NEW n \in Credited \intersect Nodes, ~MayBeCalled(n)' PROVE SpentAtRest(n)'
    BY <1>1 DEF RestMayBeCalled, Credited
  <2>1. SpentAtRest(n)
    BY <1>1, <1>2, <1>7, <1>13 DEF SparedInv, Sparing, RestMayBeCalled, MayBeCalled
  <2> QED BY <1>3, <1>4, <1>7, <2>1 DEF SpentAtRest, Callable, BegunSays
<1>16. TaskMayCall'
  <2> SUFFICES ASSUME ~Finished(runStatus'), \E t \in tasks' : t.kind = "sweep",
                      NEW n \in Nodes, record'[n] \in Callable
               PROVE  MayBeCalled(n)'
    BY DEF TaskMayCall, Finished, Callable, BegunSays
  <2>1. ~Finished(runStatus) /\ record[n] \in Callable
    BY <1>3, <1>8
  <2> QED BY <1>1, <1>2, <1>5, <1>7, <1>13, <2>1 DEF SparedInv, Sparing, TaskMayCall, MayBeCalled
<1> QED BY <1>10, <1>11, <1>12, <1>14, <1>15, <1>16 DEF Traces, Sparing
-----------------------------------------------------------------------------

\* An answer to a run that can go on takes it up.
LEMMA TakesRunUpSpared ==
    ASSUME IInv, RecordInv, SparedInv, NEW k \in Nodes, Resume(k), record[k] = "waiting",
           ~CannotGoOn(record, FALSE)
    PROVE  SparedInv'
<1> DEFINE ns == {k}
           v == "succeeded"
           status == "running"
           written == Of(ns, v)
           res == [ProgressFrom(record) EXCEPT ![k] = "succeeded"]
           hold == {m \in Nodes \ {k} : record[m] = "waiting"}
<1>0. TypeOK /\ record \in [Nodes -> Statuses]
  BY DEF IInv, TypeOK
<1>1. /\ pc = "free" /\ pc' = "sweeping" /\ tasks' = tasks \ {ResumeTask(k)}
      /\ UNCHANGED <<dag, overtaken, recovery, todo, granted, calls, crashes, attempts>>
      /\ Write(written, status) /\ sweep' = SweepFrom(res, hold)
  BY DEF Resume, TakesTurn, starts, asked
<1>2. AtRest /\ InSweep' /\ ~AtRest'
  BY <1>1 DEF AtRest, InSweep
<1>3. /\ res \in [Nodes -> Results]
      /\ \A n \in Nodes : res[n] = IF n = k THEN "succeeded" ELSE ProgressFrom(record)[n]
  BY <1>0, ProgressTypes DEF Results, Answered
<1>4. /\ ns \in SUBSET Nodes /\ v \in Statuses /\ status \in RunStatuses /\ hold \in SUBSET Nodes
      /\ \A n : n \in ns <=> n = k
  BY DEF Statuses, Results, Answered, RunStatuses
<1>5. written \in [ns -> Statuses] /\ \A n \in ns : written[n] = v
  <2> HIDE DEF ns, v
  <2> QED BY <1>4, OfTypes
<1> HIDE DEF res, hold, ns, written, status
<1>6. /\ \A n \in Nodes : /\ sweep'.result[n] = IF n = k THEN "succeeded" ELSE ProgressFrom(record)[n]
                          /\ sweep'.task[n] = "none"
  BY <1>1, <1>3, <1>4, SweepFromParts
<1>7. /\ lost \in Nat /\ lost' \in Nat /\ lost <= lost'
      /\ \A n \in Nodes : record'[n] = record[n] \/ (n = k /\ record'[n] = "succeeded")
  <2>1. /\ lost' \in 0 .. MaxLost /\ lost <= lost'
        /\ \A n \in Nodes : record'[n] = record[n] \/ (n \in ns /\ record'[n] = written[n])
    BY <1>0, <1>1, <1>4, <1>5, WriteDoes
  <2> QED BY <1>0, <1>4, <1>5, <2>1, LifecycleAssumption DEF TypeOK
<1>8. \A n \in Nodes :
         /\ sweep'.result[n] = "none" => n # k /\ record[n] \in Callable
         /\ sweep'.result[n] # "none" /\ n # k => record[n] = sweep'.result[n]
  BY <1>0, <1>6, ProgressSays DEF Callable
<1>9. OpenIsNotOver'
  BY <1>7, <1>6, <1>8 DEF OpenIsNotOver, Callable, BegunSays
<1>10. Plain'
  <2>1. \A t \in tasks' : t \in tasks
    BY <1>1
  <2> QED BY <1>0, <1>1, <1>2, <1>6, <1>7, <1>9, <2>1, StartsPlainly DEF SparedInv
<1> SUFFICES ASSUME Almost' PROVE Traces' /\ Sparing'
  BY <1>10, NothingOwed DEF SparedInv
<1>11. Almost /\ ~overtaken
  BY <1>0, <1>1, <1>7, AlmostBefore DEF Almost
<1>12. PICK failing \in SUBSET ns :
           /\ Loses(failing, status)
           /\ \A n \in Nodes : record'[n] = IF n \in ns \ failing /\ ~Unrelated(n) THEN written[n]
                                            ELSE record[n]
           /\ created' = created \union ns
  BY <1>0, <1>1, <1>4, <1>5, WriteLoses DEF Almost
<1>13. ~NoneWaits
  BY DEF NoneWaits
<1>14. /\ \A n \in Nodes : ~Traceless(n)
       /\ \A n \in Nodes : record[n] \in Callable => MayBeCalled(n)
  BY <1>2, <1>11, <1>13, GoneOnMayCall
<1>15. TracelessAreMissed'
  <2> SUFFICES ASSUME NEW n \in Nodes, Traceless(n)' PROVE FALSE
    BY DEF TracelessAreMissed
  <2>1. record'[n] = "none"
    BY DEF Traceless, Unrelated
  <2>2. record[n] = "none" /\ n # k
    BY <1>7, <2>1
  <2>3. Traceless(n)
    BY <1>1, <1>4, <1>12, <2>1, <2>2 DEF Traceless, Unrelated
  <2> QED BY <1>14, <2>3
<1>16. OneDeviates'
  <2>1. \A n \in Nodes : n # k => ~Deviates(n)'
    BY <1>6, <1>7, <1>8 DEF Deviates, Unmatched
  <2>2. lost' = 0 => ~Deviates(k)'
    <3> SUFFICES ASSUME lost' = 0 PROVE ~Deviates(k)'
      OBVIOUS
    <3>1. failing = {}
      BY <1>12 DEF Loses
    <3>2. record'[k] = "succeeded"
      BY <1>4, <1>5, <1>12, <3>1 DEF Unrelated
    <3> QED BY <1>6, <3>2 DEF Deviates, Unmatched
  <2> QED BY <2>1, <2>2 DEF OneDeviates
<1>17. RecordedInOrder'
  <2> SUFFICES ASSUME Clean', NEW n \in Nodes, record'[n] # "none", NEW m \in Into(n)
               PROVE  record'[m] \in OverSays
    BY <1>1 DEF RecordedInOrder, Into
  <2>1. Clean
    BY <1>1, <1>7, <1>12 DEF Clean, Loses
  <2>2. runStatus # "cancelled"
    BY <1>13, <2>1 DEF IInv, EndedAtRest, Ended, NoneWaits
  <2>3. record[n] # "none" /\ m \in Nodes
    BY <1>7, <2>1 DEF Into
  <2>4. record[m] \in OverSays
    BY <2>1, <2>2, <2>3 DEF SparedInv, Traces, RecordedInOrder
  <2> QED BY <1>7, <2>3, <2>4 DEF OverSays
<1>18. ListedOneLost'
  BY <1>2 DEF ListedOneLost
<1>19. \A n : Allowed(n)' = Allowed(n)
  BY <1>1 DEF Allowed, Credited
<1>20. CallsWithin'
  BY <1>1, <1>11, <1>19 DEF SparedInv, Sparing, CallsWithin
<1>21. OpenMayBeCalled'
  BY <1>1, <1>8, <1>14, <1>19 DEF OpenMayBeCalled, MayBeCalled
<1> QED BY <1>2, <1>15, <1>16, <1>17, <1>18, <1>20, <1>21 DEF Traces, Sparing, RestMayBeCalled, TaskMayCall

LEMMA ResumeSpared ==
    ASSUME IInv, RecordInv, SparedInv, IInv', NEW k \in Nodes, Resume(k)
    PROVE  SparedInv'
<1>0. TypeOK
  BY DEF IInv
<1>1. CASE record[k] # "waiting"
  <2>1. /\ UNCHANGED <<dag, record, runStatus, created, lost, pc, sweep, placing, overtaken, calls, attempts,
                       granted, crashes>>
        /\ UNCHANGED <<recovery, todo>> /\ tasks' = tasks \ {ResumeTask(k)}
    BY <1>1 DEF Resume, writes, vigils, starts, asked
  <2>2. ListedIsBegun'
    BY <1>0, <2>1, SameListed DEF SparedInv, Plain
  <2> QED BY <1>0, <2>1, <2>2, QuietSpared
<1>2. CASE record[k] = "waiting"
  BY <1>2, FailsRunSpared, TakesRunUpSpared
<1> QED BY <1>1, <1>2
-----------------------------------------------------------------------------

\* A stop that ends the run cancels all that is not over, save the one node whose write is lost.
LEMMA StopEndsSpared ==
    ASSUME IInv, RecordInv, SparedInv, IInv', EndStopped, ~Finished(runStatus)
    PROVE  SparedInv'
<1> DEFINE ns == {n \in Nodes : ~Finished(record[n])}
           v == "cancelled"
           status == "cancelled"
           written == Of(ns, v)
<1>0. TypeOK /\ record \in [Nodes -> Statuses]
  BY DEF IInv, TypeOK
<1>1. /\ pc = "free" /\ pc' = "free" /\ tasks' = tasks \ {StopTask} /\ sweep' = sweep
      /\ UNCHANGED <<dag, overtaken, recovery, todo, granted, calls, crashes, attempts>>
      /\ Write(written, status)
  BY DEF EndStopped, TakesTurn, starts, history
<1>2. /\ AtRest /\ AtRest' /\ ~InSweep /\ ~InSweep' /\ (\A n \in Nodes : sweep.task[n] = "none")
      /\ \A t \in tasks' : t \in tasks
  BY <1>1 DEF AtRest, InSweep, IInv, RestIsIdle
<1>3. /\ ns \in SUBSET Nodes /\ v \in Statuses /\ status \in RunStatuses
      /\ \A n \in Nodes : n \in ns <=> ~Finished(record[n])
  BY DEF Statuses, Results, Answered, RunStatuses
<1>4. written \in [ns -> Statuses] /\ \A n \in ns : written[n] = "cancelled"
  <2> HIDE DEF ns, v
  <2>1. written \in [ns -> Statuses] /\ \A n \in ns : written[n] = v
    BY <1>3, OfTypes
  <2> QED BY <2>1 DEF v
<1>5. status = "cancelled" /\ Finished("cancelled")
  BY DEF Finished
<1> HIDE DEF ns, v, status, written
<1>6. /\ lost \in Nat /\ lost' \in Nat /\ lost <= lost'
      /\ \A n \in Nodes : record'[n] = record[n] \/ record'[n] = "cancelled"
      /\ runStatus' \in {runStatus, "cancelled"}
  <2>1. /\ lost' \in 0 .. MaxLost /\ lost <= lost' /\ runStatus' \in {runStatus, status}
        /\ \A n \in Nodes : record'[n] = record[n] \/ (n \in ns /\ record'[n] = written[n])
    BY <1>0, <1>1, <1>3, <1>4, WriteDoes
  <2> QED BY <1>0, <1>4, <1>5, <2>1, LifecycleAssumption DEF TypeOK
<1>7. Plain'
  <2>1. \A n \in Nodes : /\ record'[n] = "none" => record[n] = "none"
                         /\ record'[n] = "trying" => record[n] = "trying"
    BY <1>6
  <2>2. TasksMissNothing' /\ ListedIsBegun'
    BY <1>0, <1>1, <1>2, <2>1, ListedStaysBegun, TasksStillMissNothing DEF SparedInv, Plain
  <2>3. RecoveredWaits'
    BY <1>1 DEF RecoveredWaits
  <2> QED BY <1>0, <1>1, <1>2, <2>1, <2>2, <2>3, RestsPlainly DEF SparedInv
<1> SUFFICES ASSUME Almost' PROVE Traces' /\ Sparing'
  BY <1>7, NothingOwed DEF SparedInv
<1>8. Almost
  BY <1>0, <1>1, <1>6, AlmostBefore
<1>9. PICK failing \in SUBSET ns :
           /\ Loses(failing, status)
           /\ \A n \in Nodes : record'[n] = IF n \in ns \ failing /\ ~Unrelated(n) THEN written[n]
                                            ELSE record[n]
           /\ created' = created \union ns
  BY <1>0, <1>1, <1>3, <1>4, WriteLoses DEF Almost
<1>10. \A n \in Nodes : ~Unrelated(n)
  <2> SUFFICES ASSUME NEW n \in Nodes, Unrelated(n) PROVE FALSE
    OBVIOUS
  <2>1. TracelessIsMissed(n)
    BY <1>8 DEF SparedInv, Traces, TracelessAreMissed, Traceless
  <2>2. ~Dead
    BY <1>5 DEF Dead
  <2> QED BY <1>2, <2>1, <2>2 DEF TracelessIsMissed, Unrelated
<1>11. \A n \in Nodes : record'[n] \in {"none", "running", "trying", "waiting"} => n \in failing
  <2> SUFFICES ASSUME NEW n \in Nodes, record'[n] \in {"none", "running", "trying", "waiting"}, n \notin failing
               PROVE  FALSE
    OBVIOUS
  <2>1. record[n] = record'[n]
    BY <1>6
  <2>2. n \in ns
    BY <1>3, <2>1 DEF Finished
  <2> QED BY <1>4, <1>9, <1>10, <2>2
<1>12. /\ lost \in {0, 1} /\ lost' \in {0, 1} /\ lost <= lost'
       /\ \A m, n \in failing : m = n
       /\ lost' = lost => failing = {} /\ runStatus' = "cancelled"
       /\ runStatus' # "cancelled" => failing = {}
  BY <1>5, <1>9 DEF Loses
<1>13. lost = 1 => lost' = lost
  BY <1>12
<1>14. RecordedInOrder' /\ OneDeviates' /\ OpenMayBeCalled'
  <2>1. Clean' => lost' = lost
    BY <1>12 DEF Clean
  <2> QED BY <1>2, <1>12, <2>1 DEF RecordedInOrder, OneDeviates, OpenMayBeCalled
<1>15. TracelessAreMissed'
  <2> SUFFICES ASSUME NEW n \in Nodes, Traceless(n)' PROVE Dead'
    BY DEF TracelessAreMissed, TracelessIsMissed
  <2>1. record'[n] = "none"
    BY DEF Traceless, Unrelated
  <2>2. n \in failing /\ runStatus' = "cancelled"
    BY <1>11, <1>12, <2>1
  <2>3. \A m \in Nodes : record'[m] # "waiting"
    BY <1>11, <1>12, <2>1, <2>2
  <2> QED BY <1>2, <2>2, <2>3 DEF Dead, NoneWaits
<1>16. failing = {} => NoneWaits'
  BY <1>11 DEF NoneWaits
<1>17. ListedOneLost'
  BY <1>5, <1>12, <1>16 DEF ListedOneLost
<1>18. \A n : Allowed(n)' = Allowed(n)
  BY <1>1 DEF Allowed, Credited
<1>19. CallsWithin'
  BY <1>1, <1>8, <1>18 DEF SparedInv, Sparing, CallsWithin
<1>20. RestMayBeCalled'
  <2> SUFFICES ASSUME NEW n \in Credited \intersect Nodes, ~MayBeCalled(n)' PROVE SpentAtRest(n)'
    BY <1>1 DEF RestMayBeCalled, Credited
  <2>1. record[n] \notin Callable \/ (lost = 1 /\ StaysCaught)
    BY <1>1, <1>2, <1>8, <1>18 DEF SparedInv, Sparing, RestMayBeCalled, MayBeCalled, SpentAtRest
  <2>2. CASE record[n] \notin Callable
    BY <1>6, <2>2 DEF SpentAtRest, Callable, BegunSays
  <2>3. CASE lost = 1
    <3>1. runStatus' = "cancelled" /\ NoneWaits'
      BY <1>12, <1>13, <1>16, <2>3
    <3> QED BY <1>5, <3>1 DEF SpentAtRest
  <2> QED BY <2>1, <2>2, <2>3
<1>21. TaskMayCall'
  <2> SUFFICES ASSUME \E t \in tasks' : t.kind = "sweep", NEW n \in Nodes, record'[n] \in Callable
               PROVE  MayBeCalled(n)'
    BY DEF TaskMayCall, Callable, BegunSays
  <2>1. record[n] \in Callable
    BY <1>6 DEF Callable, BegunSays
  <2> QED BY <1>1, <1>2, <1>8, <1>18, <2>1 DEF SparedInv, Sparing, TaskMayCall, MayBeCalled
<1> QED BY <1>14, <1>15, <1>17, <1>19, <1>20, <1>21 DEF Traces, Sparing

LEMMA EndStoppedSpared ==
    ASSUME IInv, RecordInv, SparedInv, IInv', EndStopped
    PROVE  SparedInv'
<1>0. TypeOK
  BY DEF IInv
<1>1. CASE Finished(runStatus)
  <2>1. /\ UNCHANGED <<dag, record, runStatus, created, lost, pc, sweep, placing, overtaken, calls, attempts,
                       granted, crashes>>
        /\ UNCHANGED <<recovery, todo>> /\ tasks' = tasks \ {StopTask}
    BY <1>1 DEF EndStopped, writes, vigils, starts, history
  <2>2. ListedIsBegun'
    BY <1>0, <2>1, SameListed DEF SparedInv, Plain
  <2> QED BY <1>0, <2>1, <2>2, QuietSpared
<1> QED BY <1>1, StopEndsSpared

LEMMA TakeUpSpared ==
    ASSUME IInv, RecordInv, SparedInv, IInv', NEW t \in tasks, TakeUp(t)
    PROVE  SparedInv'
BY ResumeSpared, BackgroundSpared, EndStoppedSpared DEF TakeUp

\* A recovered wait that fails its node and the run.
LEMMA RecoveredFailsSpared ==
    ASSUME IInv, RecordInv, SparedInv, IInv', NEW k \in Nodes, Write(Of({k}, "failed"), "failed"),
           AtRest, pc' = "free", overtaken => overtaken', Almost' /\ Almost => record[k] = "waiting",
           UNCHANGED <<dag, recovery, granted, calls, crashes, attempts, tasks, sweep>>, todo' \subseteq todo,
           Clean => recovery # "unfinished"
    PROVE  SparedInv'
<1> DEFINE ns == {k}
           v == "failed"
           status == "failed"
           written == Of(ns, v)
<1>0. TypeOK /\ overtaken' \in BOOLEAN
  BY DEF IInv, TypeOK
<1>1. /\ AtRest' /\ ~InSweep /\ ~InSweep' /\ \A n \in Nodes : sweep.task[n] = "none"
  BY DEF AtRest, InSweep, IInv, RestIsIdle
<1>2. /\ ns \in SUBSET Nodes /\ v \in Statuses /\ status \in RunStatuses
      /\ \A n : n \in ns <=> n = k
      /\ Write(written, status)
  BY DEF Statuses, Results, Answered, RunStatuses
<1>3. written \in [ns -> Statuses] /\ \A n \in ns : written[n] = "failed"
  <2> HIDE DEF ns, v
  <2>1. written \in [ns -> Statuses] /\ \A n \in ns : written[n] = v
    BY <1>2, OfTypes
  <2> QED BY <2>1 DEF v
<1>4. status = "failed" /\ Finished("failed")
  BY DEF Finished
<1> HIDE DEF ns, v, status, written
<1>5. /\ lost \in Nat /\ lost' \in Nat /\ lost <= lost'
      /\ \A n \in Nodes : record'[n] = record[n] \/ (n = k /\ record'[n] = "failed")
      /\ runStatus' \in {runStatus, "failed"}
  <2>1. /\ lost' \in 0 .. MaxLost /\ lost <= lost' /\ runStatus' \in {runStatus, status}
        /\ \A n \in Nodes : record'[n] = record[n] \/ (n \in ns /\ record'[n] = written[n])
    BY <1>0, <1>2, <1>3, WriteDoes
  <2> QED BY <1>0, <1>2, <1>3, <1>4, <2>1, LifecycleAssumption DEF TypeOK
<1>6. Plain'
  <2>1. \A n \in Nodes : /\ record'[n] = "none" => record[n] = "none"
                         /\ record'[n] = "trying" => record[n] = "trying"
    BY <1>5
  <2>2. TasksMissNothing' /\ ListedIsBegun'
    BY <1>0, <2>1, ListedStaysBegun, TasksStillMissNothing DEF SparedInv, Plain
  <2>3. RecoveredWaits'
    BY DEF RecoveredWaits
  <2> QED BY <1>0, <1>1, <2>1, <2>2, <2>3, RestsPlainly DEF SparedInv
<1> SUFFICES ASSUME Almost' PROVE Traces' /\ Sparing'
  BY <1>6, NothingOwed DEF SparedInv
<1>7. Almost /\ overtaken' = overtaken /\ record[k] = "waiting"
  BY <1>0, <1>5, AlmostBefore DEF Almost, TypeOK
<1>8. PICK failing \in SUBSET ns :
           /\ Loses(failing, status)
           /\ created' = created \union ns
  BY <1>0, <1>2, <1>3, WriteLoses DEF Almost
<1>9. /\ lost \in {0, 1} /\ lost' \in {0, 1} /\ lost <= lost'
      /\ lost' = lost => runStatus' = "failed"
  BY <1>4, <1>8 DEF Loses
<1>10. lost = 1 => lost' = 1 /\ Finished(runStatus')
  BY <1>4, <1>9
<1>11. ~NoneWaits /\ ~Dead
  BY <1>7 DEF NoneWaits, Dead
<1>12. \A n \in Nodes : Into(n)' = Into(n) /\ Into(n) \subseteq Nodes
  BY DEF Into
<1>13. \A n \in Nodes : /\ record[n] \in OverSays => record'[n] \in OverSays
                        /\ record'[n] # "none" => record[n] # "none"
                        /\ record'[n] \in Callable => record[n] \in Callable
  BY <1>5, <1>7 DEF OverSays, Callable, BegunSays
<1>14. RecordedInOrder'
  <2>1. Clean' => Clean
    BY <1>7, <1>9 DEF Clean
  <2>2. Clean => runStatus # "cancelled"
    BY <1>11 DEF IInv, EndedAtRest, Ended, NoneWaits
  <2> QED BY <1>12, <1>13, <2>1, <2>2 DEF SparedInv, Traces, RecordedInOrder
<1>15. TracelessAreMissed'
  <2> SUFFICES ASSUME NEW n \in Nodes, Traceless(n)' PROVE TracelessIsMissed(n)'
    BY DEF TracelessAreMissed
  <2>1. record'[n] = "none" /\ record[n] = "none" /\ n # k
    BY <1>5, <1>7 DEF Traceless, Unrelated
  <2>2. Traceless(n)
    BY <1>2, <1>8, <2>1 DEF Traceless, Unrelated
  <2>3. lost = 1 /\ MissedIn(n)
    BY <1>7, <1>11, <2>2 DEF SparedInv, Traces, TracelessAreMissed, TracelessIsMissed
  <2>4. MissedIn(n)'
    BY <1>12, <1>13, <2>3 DEF MissedIn
  <2> QED BY <1>1, <1>10, <2>3, <2>4 DEF TracelessIsMissed
<1>16. ListedOneLost' /\ OneDeviates' /\ OpenMayBeCalled'
  <2>1. lost' = 1 /\ recovery' = "unfinished" => lost = 1
    BY <1>7, <1>9 DEF Clean, Almost
  <2> QED BY <1>1, <1>10, <2>1 DEF ListedOneLost, OneDeviates, OpenMayBeCalled
<1>17. \A n : Allowed(n)' = Allowed(n)
  BY DEF Allowed, Credited
<1>18. CallsWithin'
  BY <1>7, <1>17 DEF SparedInv, Sparing, CallsWithin
<1>19. RestMayBeCalled'
  <2> SUFFICES ASSUME NEW n \in Credited \intersect Nodes, ~MayBeCalled(n)' PROVE SpentAtRest(n)'
    BY DEF RestMayBeCalled, Credited
  <2>1. record[n] \notin Callable \/ (lost = 1 /\ StaysCaught)
    BY <1>7, <1>11, <1>17 DEF SparedInv, Sparing, RestMayBeCalled, MayBeCalled, SpentAtRest
  <2>2. CASE record[n] \notin Callable
    BY <1>13, <2>2 DEF SpentAtRest, Callable, BegunSays
  <2>3. StaysCaught => StaysCaught'
    BY <1>5, <1>7 DEF StaysCaught, Caught
  <2> QED BY <1>10, <2>1, <2>2, <2>3 DEF SpentAtRest
<1>20. TaskMayCall'
  <2> SUFFICES ASSUME ~Finished(runStatus'), \E t \in tasks' : t.kind = "sweep",
                      NEW n \in Nodes, record'[n] \in Callable
               PROVE  MayBeCalled(n)'
    BY DEF TaskMayCall, Finished, Callable, BegunSays
  <2>1. ~Finished(runStatus) /\ record[n] \in Callable
    BY <1>4, <1>5, <1>13
  <2> QED BY <1>7, <1>17, <2>1 DEF SparedInv, Sparing, TaskMayCall, MayBeCalled
<1> QED BY <1>14, <1>15, <1>16, <1>18, <1>19, <1>20 DEF Traces, Sparing
-----------------------------------------------------------------------------

LEMMA RecoverWaitSpared ==
    ASSUME IInv, RecordInv, SparedInv, IInv', NEW w \in todo, RecoverWait(w)
    PROVE  SparedInv'
<1>0. TypeOK /\ w.node \in Nodes
  BY DEF IInv, TypeOK, Listed
<1>1. /\ pc = "free" /\ todo' = todo \ {w} /\ recovery = "waits"
      /\ UNCHANGED <<dag, sweep, tasks, recovery, granted, calls, crashes, attempts>>
      /\ overtaken' = (overtaken \/ record[w.node] # "waiting" \/ (w.node \in awaited) # w.awaited)
  BY DEF RecoverWait, asked
<1>2. AtRest /\ (overtaken => overtaken') /\ (Almost' => record[w.node] = "waiting")
  BY <1>1 DEF AtRest, Almost
<1>3. CASE PlaceVigil(w.node) /\ pc' = "recovering" /\ UNCHANGED writes
  <2>1. /\ placing' = {w.node} /\ AtRest'
        /\ UNCHANGED <<record, runStatus, created, lost>>
    BY <1>3 DEF PlaceVigil, AtRest, writes
  <2>2. RecoveredWaits'
    BY <1>2, <2>1 DEF RecoveredWaits
  <2>3. ListedIsBegun'
    BY <1>0, <1>1, <2>1, ListedStaysBegun DEF SparedInv, Plain
  <2> QED BY <1>0, <1>1, <1>2, <2>1, <2>2, <2>3, QuietSpared
<1>4. CASE Write(Of({w.node}, "failed"), "failed") /\ UNCHANGED pc
  BY <1>0, <1>1, <1>2, <1>4, RecoveredFailsSpared
<1> QED BY <1>3, <1>4 DEF RecoverWait

LEMMA RecoverWaitEndsSpared ==
    ASSUME IInv, RecordInv, SparedInv, IInv', NEW k \in Nodes, RecoverWaitEnds(k)
    PROVE  SparedInv'
<1>0. TypeOK
  BY DEF IInv
<1>1. /\ pc = "recovering" /\ pc' = "free" /\ k \in placing
      /\ UNCHANGED <<dag, sweep, recovery, todo, overtaken, granted, calls, crashes, attempts>>
  BY DEF RecoverWaitEnds, starts, asked, history
<1>2. /\ AtRest /\ AtRest'
      /\ Almost => record[k] = "waiting"
      /\ Clean => recovery # "unfinished"
  BY <1>1 DEF AtRest, SparedInv, Plain, RecoveredWaits, RecordInv, ListedIsUnderWay
<1>3. CASE RelateVigil(k) /\ UNCHANGED writes
  <2>1. UNCHANGED <<record, runStatus, created, lost>>
    BY <1>3 DEF writes
  <2>2. \A t \in tasks' : t.kind = "sweep" => t \in tasks
    BY <1>3 DEF RelateVigil, ResumeTask
  <2>3. ListedIsBegun' /\ RecoveredWaits'
    BY <1>0, <1>1, <2>1, SameListed DEF SparedInv, Plain, RecoveredWaits
  <2> QED BY <1>0, <1>1, <1>2, <2>1, <2>2, <2>3, QuietSpared
<1>4. CASE Write(Of({k}, "failed"), "failed") /\ UNCHANGED tasks
  BY <1>1, <1>2, <1>4, RecoveredFailsSpared
<1> QED BY <1>3, <1>4 DEF RecoverWaitEnds

LEMMA ListUnfinishedSpared ==
    ASSUME TypeOK, SparedInv, ListUnfinished
    PROVE  SparedInv'
<1>1. /\ UNCHANGED <<dag, record, runStatus, created, lost, pc, sweep, placing, overtaken, calls, attempts,
                     granted, crashes>>
      /\ tasks' = tasks
  BY DEF ListUnfinished, ListUnfinishedIn, writes, vigils, asked, history
<1>2. \/ recovery' = "done" /\ todo' = todo
      \/ \A w \in todo' : record[w.node] \in {"running", "trying"}
  <2> DEFINE listed == {n \in Nodes : record[n] \in {"running", "trying"}}
  <2>1. \/ recovery' = "done" /\ todo' = todo
        \/ \E n \in listed : todo' = {[node |-> n, awaited |-> FALSE, held |-> FALSE]}
    BY DEF ListUnfinished, ListUnfinishedIn
  <2>2. ASSUME NEW n \in listed, todo' = {[node |-> n, awaited |-> FALSE, held |-> FALSE]}
        PROVE  \A w \in todo' : record[w.node] \in {"running", "trying"}
    BY <2>2
  <2> QED BY <2>1, <2>2
<1>3. ListedIsBegun'
  BY <1>1, <1>2 DEF SparedInv, Plain, ListedIsBegun
<1> QED BY <1>1, <1>2, <1>3, QuietSpared

\* A run that a recovery fails keeps its caught node, or no answer is to come for it.
LEMMA InterruptedSpared ==
    ASSUME IInv, RecordInv, SparedInv, IInv', RecoverUnfinished, ~Finished(runStatus),
           CannotGoOn(record, FALSE)
    PROVE  SparedInv'
<1>0. TypeOK
  BY DEF IInv
<1>1. PICK w \in todo : Write(Of({w.node}, "interrupted"), "failed")
  BY DEF RecoverUnfinished, RecoverUnfinishedUnless
<1> DEFINE k == w.node
           ns == {k}
           v == "interrupted"
           status == "failed"
           written == Of(ns, v)
<1>2. /\ pc = "free" /\ pc' = "free" /\ recovery = "unfinished" /\ recovery' = "done" /\ todo' = {}
      /\ UNCHANGED <<dag, sweep, overtaken, tasks, granted, calls, crashes, attempts>>
  BY DEF RecoverUnfinished, RecoverUnfinishedUnless, asked, history
<1>3. /\ AtRest /\ AtRest' /\ ~InSweep /\ ~InSweep' /\ \A n \in Nodes : sweep.task[n] = "none"
  BY <1>2 DEF AtRest, InSweep, IInv, RestIsIdle
<1>4. /\ k \in Nodes /\ record[k] # "none"
      /\ ns \in SUBSET Nodes /\ v \in Statuses /\ status \in RunStatuses
      /\ \A n : n \in ns <=> n = k
      /\ Write(written, status)
  BY <1>0, <1>1 DEF TypeOK, Listed, Statuses, RunStatuses, SparedInv, Plain, ListedIsBegun
<1>5. /\ lost = 0 /\ ~overtaken => record[k] \in {"running", "trying"}
      /\ lost = 1 /\ ~overtaken => \/ record[k] \in {"running", "trying"}
                                   \/ NoneWaits \/ StaysCaught
  <2>1. ~Ended /\ k = w.node
    BY DEF Ended, Finished
  <2>2. Missing(record) = {} => StaysCaught
    BY DEF CannotGoOn, StaysCaught
  <2> HIDE DEF k
  <2>3. lost = 0 /\ ~overtaken => record[k] \in {"running", "trying"}
    BY <1>2, <1>3, <2>1 DEF RecordInv, ListedIsUnderWay, Clean
  <2> QED BY <1>2, <1>3, <2>1, <2>2, <2>3 DEF SparedInv, Traces, ListedOneLost
<1>6. written \in [ns -> Statuses] /\ \A n \in ns : written[n] = "interrupted"
  <2> HIDE DEF ns, v
  <2>1. written \in [ns -> Statuses] /\ \A n \in ns : written[n] = v
    BY <1>4, OfTypes
  <2> QED BY <2>1 DEF v
<1>7. status = "failed" /\ Finished("failed")
  BY DEF Finished
<1>9. Almost /\ ~Dead => \A n \in Nodes : Traceless(n) =>
         lost = 1 /\ MissedIn(n) /\ record[k] \in {"running", "trying"}
  <2> SUFFICES ASSUME Almost, ~Dead, NEW n \in Nodes, Traceless(n)
               PROVE  lost = 1 /\ MissedIn(n) /\ record[k] \in {"running", "trying"}
    OBVIOUS
  <2>1. TracelessIsMissed(n)
    BY DEF SparedInv, Traces, TracelessAreMissed
  <2> QED BY <1>1, <1>2, <1>3, <2>1 DEF TracelessIsMissed
<1> HIDE DEF k, ns, v, status, written
<1>10. /\ lost \in Nat /\ lost' \in Nat /\ lost <= lost'
       /\ \A n \in Nodes : record'[n] = record[n] \/ (n = k /\ record'[n] = "interrupted")
       /\ runStatus' \in {runStatus, "failed"}
  <2>1. /\ lost' \in 0 .. MaxLost /\ lost <= lost' /\ runStatus' \in {runStatus, status}
        /\ \A n \in Nodes : record'[n] = record[n] \/ (n \in ns /\ record'[n] = written[n])
    BY <1>0, <1>4, <1>6, WriteDoes
  <2> QED BY <1>0, <1>4, <1>6, <1>7, <2>1, LifecycleAssumption DEF TypeOK
<1>11. Plain'
  <2>1. \A n \in Nodes : /\ record'[n] = "none" => record[n] = "none"
                         /\ record'[n] = "trying" => record[n] = "trying"
    BY <1>10
  <2>2. \A t \in tasks' : t \in tasks
    BY <1>2
  <2>3. TasksMissNothing' /\ ListedIsBegun'
    BY <1>2, <2>2, TasksStillMissNothing DEF SparedInv, Plain, ListedIsBegun
  <2>4. RecoveredWaits'
    BY <1>2 DEF RecoveredWaits
  <2> QED BY <1>0, <1>2, <1>3, <2>1, <2>3, <2>4, RestsPlainly DEF SparedInv
<1> SUFFICES ASSUME Almost' PROVE Traces' /\ Sparing'
  BY <1>11, NothingOwed DEF SparedInv
<1>12. Almost /\ ~overtaken
  BY <1>0, <1>2, <1>10, AlmostBefore DEF Almost
<1>13. PICK failing \in SUBSET ns :
           /\ Loses(failing, status)
           /\ created' = created \union ns
  BY <1>0, <1>4, <1>6, WriteLoses DEF Almost
<1>14. /\ lost \in {0, 1} /\ lost' \in {0, 1} /\ lost <= lost'
       /\ lost' = lost => runStatus' = "failed"
  BY <1>7, <1>13 DEF Loses
<1>15. lost = 1 => lost' = 1 /\ Finished(runStatus')
  BY <1>7, <1>14
<1>16. ~Dead /\ runStatus # "cancelled"
  BY DEF Dead, Finished
<1>17. \A n \in Nodes : Into(n)' = Into(n) /\ Into(n) \subseteq Nodes
  BY <1>2 DEF Into
<1>18. /\ \A n \in Nodes : record'[n] # "none" => record[n] # "none"
       /\ record[k] \in {"running", "trying"} =>
             \A n \in Nodes : record[n] \in OverSays => record'[n] \in OverSays
  BY <1>4, <1>10 DEF OverSays
<1>19. RecordedInOrder'
  <2>1. Clean' => Clean /\ record[k] \in {"running", "trying"}
    BY <1>2, <1>5, <1>14 DEF Clean
  <2> QED BY <1>16, <1>17, <1>18, <2>1 DEF SparedInv, Traces, RecordedInOrder
<1>20. TracelessAreMissed'
  <2> SUFFICES ASSUME NEW n \in Nodes, Traceless(n)' PROVE TracelessIsMissed(n)'
    BY DEF TracelessAreMissed
  <2>1. record'[n] = "none" /\ record[n] = "none" /\ n # k
    BY <1>4, <1>10 DEF Traceless, Unrelated
  <2>2. Traceless(n)
    BY <1>2, <1>4, <1>13, <2>1 DEF Traceless, Unrelated
  <2>3. lost = 1 /\ MissedIn(n) /\ record[k] \in {"running", "trying"}
    BY <1>9, <1>12, <1>16, <2>2
  <2>4. MissedIn(n)'
    BY <1>17, <1>18, <2>3 DEF MissedIn
  <2> QED BY <1>3, <1>15, <2>3, <2>4 DEF TracelessIsMissed
<1>21. ListedOneLost' /\ OneDeviates' /\ OpenMayBeCalled'
  BY <1>2, <1>3 DEF ListedOneLost, OneDeviates, OpenMayBeCalled
<1>22. \A n : Allowed(n)' = Allowed(n)
  BY <1>2 DEF Allowed, Credited
<1>23. CallsWithin'
  BY <1>2, <1>12, <1>22 DEF SparedInv, Sparing, CallsWithin
<1>24. RestMayBeCalled'
  <2> SUFFICES ASSUME NEW n \in Credited \intersect Nodes, ~MayBeCalled(n)' PROVE SpentAtRest(n)'
    BY <1>2 DEF RestMayBeCalled, Credited
  <2>1. record[n] \notin Callable \/ (lost = 1 /\ StaysCaught)
    BY <1>2, <1>3, <1>12, <1>22 DEF SparedInv, Sparing, RestMayBeCalled, MayBeCalled, SpentAtRest
  <2>2. StaysCaught => StaysCaught'
    BY <1>2, <1>10 DEF StaysCaught, Caught
  <2>3. NoneWaits => NoneWaits'
    BY <1>10 DEF NoneWaits
  <2>4. CASE record[n] \notin Callable /\ n # k
    BY <1>10, <2>4 DEF SpentAtRest, Callable, BegunSays
  <2>5. CASE record[n] \notin Callable /\ n = k
    <3>1. record[k] \notin {"running", "trying"}
      BY <2>5 DEF Callable, BegunSays
    <3>2. lost = 1 /\ (NoneWaits \/ StaysCaught)
      BY <1>5, <1>12, <1>14, <3>1
    <3> QED BY <1>15, <2>2, <2>3, <3>2 DEF SpentAtRest
  <2>6. CASE lost = 1 /\ StaysCaught
    BY <1>15, <2>2, <2>6 DEF SpentAtRest
  <2> QED BY <2>1, <2>4, <2>5, <2>6
<1>25. TaskMayCall'
  <2> SUFFICES ASSUME ~Finished(runStatus'), \E t \in tasks' : t.kind = "sweep",
                      NEW n \in Nodes, record'[n] \in Callable
               PROVE  MayBeCalled(n)'
    BY DEF TaskMayCall, Finished, Callable, BegunSays
  <2>1. lost = 0
    BY <1>14, <1>15
  <2>2. record[k] \in Callable
    BY <1>5, <1>12, <2>1 DEF Callable, BegunSays
  <2>3. record[n] \in Callable
    BY <1>10, <2>2
  <2> QED BY <1>2, <1>3, <1>12, <1>22, <2>3 DEF SparedInv, Sparing, TaskMayCall, MayBeCalled
<1> QED BY <1>19, <1>20, <1>21, <1>23, <1>24, <1>25 DEF Traces, Sparing

LEMMA RecoverUnfinishedSpared ==
    ASSUME IInv, RecordInv, SparedInv, IInv', RecoverUnfinished
    PROVE  SparedInv'
<1>0. TypeOK
  BY DEF IInv
<1>1. /\ pc = "free" /\ recovery' = "done" /\ todo' = {}
      /\ UNCHANGED <<dag, pc, sweep, placing, overtaken, granted, calls, crashes, attempts>>
  BY DEF RecoverUnfinished, RecoverUnfinishedUnless, vigils, asked, history
<1>2. AtRest /\ ListedIsBegun'
  BY <1>1 DEF AtRest, ListedIsBegun
<1>3. CASE Finished(runStatus)
  <2>1. UNCHANGED <<record, runStatus, created, lost, tasks>>
    BY <1>3 DEF RecoverUnfinished, RecoverUnfinishedUnless, writes
  <2> QED BY <1>0, <1>1, <1>2, <2>1, QuietSpared
<1>4. CASE ~Finished(runStatus) /\ ~CannotGoOn(record, FALSE)
  <2>1. /\ UNCHANGED <<record, runStatus, created, lost>>
        /\ tasks' = tasks \union {SweepTask(record, runStatus)}
    BY <1>4 DEF RecoverUnfinished, RecoverUnfinishedUnless, writes
  <2>2. Missing(record) = {} /\ SweepTask(record, runStatus).rec = record
    BY <1>4 DEF CannotGoOn, SweepTask
  <2>3. TasksMissNothing'
    BY <1>1, <2>1, <2>2 DEF SparedInv, Plain, TasksMissNothing, Missing, Downstream
  <2>4. RecoveredWaits'
    BY <1>1 DEF RecoveredWaits
  <2>5. TaskMayCall'
    <3>1. \A n : MayBeCalled(n)' = MayBeCalled(n)
      BY <1>1 DEF MayBeCalled, Allowed, Credited
    <3>2. Almost' => Almost
      BY <1>1, <2>1 DEF Almost
    <3>3. Almost => \A n \in Nodes : record[n] \in Callable => MayBeCalled(n)
      BY <1>2, <1>4, GoneOnMayCall
    <3> QED BY <2>1, <3>1, <3>2, <3>3 DEF TaskMayCall, Callable, BegunSays
  <2> QED BY <1>0, <1>1, <1>2, <2>1, <2>3, <2>4, <2>5, StillSpared
<1> QED BY <1>3, <1>4, InterruptedSpared

LEMMA RecoveryStepSpared ==
    ASSUME IInv, RecordInv, SparedInv, IInv', RecoveryStep
    PROVE  SparedInv'
BY ListWaitsSpared, RecoverWaitSpared, RecoverWaitEndsSpared, ListUnfinishedSpared,
   RecoverUnfinishedSpared DEF RecoveryStep, IInv
-----------------------------------------------------------------------------

\* A person's word gives every node a call more.
LEMMA CarryOnSpared ==
    ASSUME IInv, RecordInv, SparedInv, IInv', CarryOn
    PROVE  SparedInv'
<1>0. TypeOK
  BY DEF IInv
<1>1. /\ pc = "free" /\ runStatus = "failed" /\ runStatus' = "running" /\ granted' = granted + 1
      /\ UNCHANGED <<dag, record, created, lost, attempts, pc, sweep, placing, recovery, todo, calls,
                     overtaken, crashes>>
      /\ tasks' = tasks \union {SweepTask(record, "running")}
      /\ Missing(record) = {}
  BY DEF CarryOn, CarryOnUnless, StoppedByARestart, CannotGoOn, vigils, starts, history
<1>2. /\ AtRest /\ AtRest' /\ ~InSweep' /\ Almost' = Almost /\ ~Dead
      /\ \A n \in Nodes : sweep.task[n] = "none"
  BY <1>1 DEF AtRest, InSweep, Almost, Dead, IInv, RestIsIdle
<1>3. Plain'
  <2>1. SweepTask(record, "running").rec = record
    BY DEF SweepTask
  <2>2. TasksMissNothing'
    BY <1>1, <2>1 DEF SparedInv, Plain, TasksMissNothing, Missing, Downstream
  <2>3. ListedIsBegun' /\ RecoveredWaits'
    BY <1>0, <1>1, SameListed DEF SparedInv, Plain, RecoveredWaits
  <2> QED BY <1>0, <1>1, <1>2, <2>2, <2>3, RestsPlainly DEF SparedInv
<1> SUFFICES ASSUME Almost' PROVE Traces' /\ Sparing'
  BY <1>3, NothingOwed DEF SparedInv
<1>4. Almost
  BY <1>2
<1>5. RecordedInOrder'
  BY <1>1 DEF SparedInv, Traces, RecordedInOrder, Clean, Into
<1>6. \A n \in Nodes : ~Traceless(n)
  BY <1>0, <1>1, <1>2, <1>4, NothingIsTraceless DEF SparedInv
<1>7. TracelessAreMissed'
  BY <1>1, <1>6 DEF TracelessAreMissed, Traceless, Unrelated
<1>8. Missing(record)' = {}
  BY <1>1, SameMissing
<1>9. OneDeviates' /\ ListedOneLost' /\ OpenMayBeCalled'
  BY <1>2, <1>8 DEF OneDeviates, ListedOneLost, OpenMayBeCalled
<1>10. \A n \in Nodes : calls[n] <= Allowed(n) /\ calls[n] \in Nat /\ Allowed(n) \in Nat
  BY <1>0, <1>4, AllowedIsNat DEF SparedInv, Sparing, CallsWithin
<1>11. \A n \in Nodes : Allowed(n)' = Allowed(n) + 1
  <2> SUFFICES ASSUME NEW n \in Nodes PROVE Allowed(n)' = Allowed(n) + 1
    OBVIOUS
  <2>1. MaxAttempts \in Nat /\ granted \in Nat /\ crashes \in Nat
    BY <1>0, LifecycleAssumption DEF TypeOK
  <2> QED BY <1>1, <2>1 DEF Allowed, Credited
<1>12. \A n \in Nodes : calls'[n] < Allowed(n)' /\ calls'[n] <= Allowed(n)'
  BY <1>1, <1>10, <1>11
<1>13. CallsWithin' /\ RestMayBeCalled' /\ TaskMayCall'
  BY <1>12 DEF CallsWithin, RestMayBeCalled, TaskMayCall, MayBeCalled
<1> QED BY <1>5, <1>7, <1>9, <1>13 DEF Traces, Sparing

\* A crash gives a call back to what may be called again or is retried.
LEMMA CrashSpared ==
    ASSUME IInv, RecordInv, SparedInv, IInv', Crash
    PROVE  SparedInv'
<1>0. TypeOK
  BY DEF IInv
<1>1. /\ pc' = "free" /\ placing' = {} /\ tasks' = {} /\ created' = {} /\ recovery' = "starting"
      /\ todo' = {} /\ crashes' = crashes + 1
      /\ UNCHANGED <<dag, record, runStatus, lost, attempts, granted, calls, overtaken>>
  BY DEF Crash
<1>2. /\ AtRest' /\ ~InSweep' /\ Almost' = Almost
      /\ \A n \in Nodes : sweep'.task[n] = "none"
  BY <1>1 DEF AtRest, InSweep, Almost, IInv, RestIsIdle
<1>3. dag.retried \subseteq Nodes /\ dag.output \in Nodes
  BY <1>0, LifecycleAssumption DEF TypeOK, Drawing
<1>4. \A n \in Nodes : /\ calls[n] \in Nat /\ attempts[n] \in Nat /\ granted \in Nat /\ crashes \in Nat
                       /\ Allowed(n) \in Nat
  BY <1>0, AllowedIsNat DEF TypeOK
<1>5. Plain'
  <2>1. AttemptsTell'
    <3> SUFFICES ASSUME NEW n \in dag.retried PROVE calls[n] <= attempts[n] + granted + (crashes + 1)
      BY <1>1, <1>2, <1>3, <1>4 DEF AttemptsTell
    <3>1. calls[n] <= attempts[n] + granted + crashes + (IF sweep.task[n] = "calling" THEN 1 ELSE 0)
      BY DEF SparedInv, Plain, AttemptsTell
    <3> QED BY <1>3, <1>4, <3>1
  <2>2. OutputIsNotCalled' /\ TriesAreRetried'
    BY <1>1, <1>2, <1>3 DEF SparedInv, Plain, OutputIsNotCalled, TriesAreRetried
  <2>3. /\ ListedIsBegun' /\ TasksMissNothing' /\ RecoveredWaits' /\ HeldIsRecorded' /\ OpenIsNotOver'
    BY <1>1, <1>2 DEF ListedIsBegun, TasksMissNothing, RecoveredWaits, HeldIsRecorded, OpenIsNotOver
  <2> QED BY <2>1, <2>2, <2>3 DEF Plain
<1> SUFFICES ASSUME Almost' PROVE Traces' /\ Sparing'
  BY <1>5, NothingOwed DEF SparedInv
<1>6. Almost
  BY <1>2
<1>7. RecordedInOrder'
  BY <1>1 DEF SparedInv, Traces, RecordedInOrder, Clean, Into
<1>8. TracelessAreMissed'
  <2> SUFFICES ASSUME NEW n \in Nodes, Traceless(n)' PROVE TracelessIsMissed(n)'
    BY DEF TracelessAreMissed
  <2>1. Traceless(n)
    BY <1>1 DEF Traceless, Unrelated
  <2>2. Dead \/ (lost = 1 /\ MissedIn(n))
    BY <1>6, <2>1 DEF SparedInv, Traces, TracelessAreMissed, TracelessIsMissed
  <2>3. Dead => Dead'
    BY <1>1, <1>2 DEF Dead, NoneWaits
  <2>4. MissedIn(n)' = MissedIn(n)
    BY <1>1 DEF MissedIn, Into
  <2> QED BY <1>1, <1>2, <2>2, <2>3, <2>4 DEF TracelessIsMissed
<1>9. OneDeviates' /\ ListedOneLost' /\ OpenMayBeCalled' /\ TaskMayCall'
  BY <1>1, <1>2 DEF OneDeviates, ListedOneLost, OpenMayBeCalled, TaskMayCall
<1>10. /\ \A n \in Nodes : calls[n] <= Allowed(n)
       /\ \A n \in Nodes : Allowed(n)' = IF n \in Credited THEN Allowed(n) + 1 ELSE Allowed(n)
  <2>1. MaxAttempts \in Nat
    BY LifecycleAssumption
  <2> QED BY <1>1, <1>4, <1>6, <2>1 DEF SparedInv, Sparing, CallsWithin, Allowed, Credited
<1>11. CallsWithin'
  BY <1>1, <1>4, <1>10 DEF CallsWithin
<1>12. RestMayBeCalled'
  <2>1. \A n \in Nodes : n \in Credited => calls'[n] < Allowed(n)'
    BY <1>1, <1>4, <1>10
  <2> QED BY <1>1, <2>1 DEF RestMayBeCalled, MayBeCalled, Credited
<1> QED BY <1>7, <1>8, <1>9, <1>11, <1>12 DEF Traces, Sparing

LEMMA OthersSpared ==
    ASSUME IInv, RecordInv, SparedInv, IInv', Others
    PROVE  SparedInv'
<1>0. TypeOK
  BY DEF IInv
<1>1. CASE AskStop \/ StartAgain \/ \E n \in Nodes : VigilIsAnswered(n)
  <2>1. /\ UNCHANGED <<dag, record, runStatus, created, lost, pc, sweep, placing, overtaken, calls, attempts,
                       granted, crashes>>
        /\ UNCHANGED <<recovery, todo>>
        /\ \A t \in tasks' : t \in tasks \/ t = StopTask
    <3>1. CASE AskStop
      BY <3>1 DEF AskStop, writes, vigils, starts, history
    <3>2. CASE StartAgain
      BY <3>2 DEF StartAgain, writes, vigils, starts, history
    <3>3. CASE \E n \in Nodes : VigilIsAnswered(n)
      BY <3>3 DEF VigilIsAnswered, writes, vigils, starts, asked, history
    <3> QED BY <1>1, <3>1, <3>2, <3>3
  <2>2. \A t \in tasks' : t.kind = "sweep" => t \in tasks
    BY <2>1 DEF StopTask
  <2> QED BY <1>0, <2>1, <2>2, QuietSpared, SameListed DEF SparedInv, Plain
<1> QED BY <1>1, CarryOnSpared, CrashSpared DEF Others

LEMMA NextSpared == IInv /\ RecordInv /\ SparedInv /\ IInv' /\ [Next]_vars => SparedInv'
<1> SUFFICES ASSUME IInv, RecordInv, SparedInv, IInv', [Next]_vars PROVE SparedInv'
  OBVIOUS
<1>0. TypeOK
  BY DEF IInv
<1>1. CASE UNCHANGED vars
  <2>1. /\ UNCHANGED <<dag, record, runStatus, created, lost, pc, sweep, placing, overtaken, calls, attempts,
                       granted, crashes>>
        /\ UNCHANGED <<recovery, todo, tasks>>
    BY <1>1 DEF vars, writes, vigils, starts, asked, history
  <2> QED BY <1>0, <2>1, QuietSpared, SameListed DEF SparedInv, Plain
<1>2. CASE Next
  BY <1>0, <1>2, SweepStepSpared, NodeStepSpared, AnswerStepSpared, TakeUpSpared, RecoveryStepSpared,
     OthersSpared DEF Next, Process
<1> QED BY <1>1, <1>2

LEMMA InitSpared == Init => SparedInv
<1> SUFFICES ASSUME Init PROVE SparedInv
  OBVIOUS
<1>0. TypeOK
  BY InitTypeOK
<1>1. sweep = SweepFrom([n \in Nodes |-> "none"], {})
  BY DEF Init, NoSweep, Of
<1>2. [n \in Nodes |-> "none"] \in [Nodes -> Results]
  BY DEF Results
<1>3. \A n \in Nodes : sweep.task[n] = "none" /\ sweep.result[n] = "none"
  BY <1>1, <1>2, SweepFromParts
<1>4. \A n \in Nodes : record[n] = "none" /\ attempts[n] = 0 /\ calls[n] = 0
  BY DEF Init, Of
<1>5. /\ pc = "sweeping" /\ created = {} /\ tasks = {} /\ todo = {} /\ recovery = "starting" /\ lost = 0
      /\ granted = 0 /\ crashes = 0 /\ InSweep /\ ~AtRest
  BY DEF Init, InSweep, AtRest
<1>6. dag.retried \subseteq Nodes /\ dag.output \in Nodes
  BY <1>0, LifecycleAssumption DEF TypeOK, Drawing
<1>7. Plain
  <2>1. AttemptsTell
    <3> SUFFICES ASSUME NEW n \in dag.retried PROVE 0 <= 0 + 0 + 0 + 0
      BY <1>3, <1>4, <1>5, <1>6 DEF AttemptsTell
    <3> QED OBVIOUS
  <2>2. OutputIsNotCalled /\ TriesAreRetried
    BY <1>3, <1>4, <1>6 DEF OutputIsNotCalled, TriesAreRetried
  <2>3. ListedIsBegun /\ TasksMissNothing /\ RecoveredWaits /\ HeldIsRecorded /\ OpenIsNotOver
    BY <1>3, <1>4, <1>5 DEF ListedIsBegun, TasksMissNothing, RecoveredWaits, HeldIsRecorded, OpenIsNotOver,
                            Callable
  <2> QED BY <2>1, <2>2, <2>3 DEF Plain
<1>8. \A n \in Nodes : ~Traceless(n) /\ ~Deviates(n)
  BY <1>3, <1>4, <1>5 DEF Traceless, Unrelated, Deviates, Unmatched
<1>9. Traces
  BY <1>4, <1>5, <1>8 DEF Traces, RecordedInOrder, OneDeviates, TracelessAreMissed, ListedOneLost
<1>10. \A n \in Nodes : calls[n] < Allowed(n) /\ calls[n] <= Allowed(n)
  <2> SUFFICES ASSUME NEW n \in Nodes PROVE calls[n] < Allowed(n) /\ calls[n] <= Allowed(n)
    OBVIOUS
  <2>1. MaxAttempts \in Nat \ {0}
    BY LifecycleAssumption
  <2>2. Allowed(n) \in Nat /\ 0 < Allowed(n)
    BY <1>0, <1>5, <2>1, AllowedIsNat DEF Allowed
  <2> QED BY <1>4, <2>2
<1>11. Sparing
  BY <1>5, <1>10 DEF Sparing, CallsWithin, OpenMayBeCalled, RestMayBeCalled, TaskMayCall, MayBeCalled
<1> QED BY <1>7, <1>9, <1>11 DEF SparedInv

\* A restart calls nothing again that may not be: with one write lost at most, and nobody
\* overtaken, a service is called once, or as often as its policy has it, once more for each
\* crash where it may be called again or is retried, and once more for each time a person said
\* so: for every drawing, and over any number of crashes, answers, stops and recoveries.
THEOREM CallsStaySpared == Spec => []CallsAreSpared
<1>1. SparedInv => CallsAreSpared
  BY DEF SparedInv, Sparing, CallsWithin, CallsAreSpared, Almost, Allowed, Credited
<1> QED BY <1>1, InitSpared, NextSpared, AlwaysIInv, AlwaysRecordInv, PTL DEF Spec
-----------------------------------------------------------------------------
(***************************************************************************)
(* The turns themselves, for any runs, any finite set of tasks and any     *)
(* gates.  The inductive invariant adds to the properties what ties a      *)
(* gate to its run: gates of two runs differ, the gate in an entry has its *)
(* one permit or the one task that holds it, and nobody is queued at a     *)
(* gate with a permit left.                                                *)
(***************************************************************************)

IdleIsClear ==
    \A t \in Tasks : IF stage[t] = "idle" THEN run[t] = NoRun /\ gate[t] = NoGate
                                       ELSE run[t] \in Runs

GatesApart ==
    \A r, s \in Runs : gateOf[r] # NoGate /\ gateOf[r] = gateOf[s] => r = s

HolderAt(g) == \E u \in Tasks : stage[u] = "holding" /\ gate[u] = g

PermitOrHolder ==
    \A r \in Runs : gateOf[r] # NoGate =>
        /\ permits[gateOf[r]] \in {0, 1}
        /\ permits[gateOf[r]] = 0 <=> HolderAt(gateOf[r])

SoleHolder ==
    \A t, u \in Tasks :
        stage[t] = "holding" /\ stage[u] = "holding" /\ gate[t] = gate[u] => t = u

QueuedAtShutGate == \A t \in Tasks : stage[t] = "queued" => permits[gate[t]] = 0

TurnsIInv == /\ TurnsTypeOK
             /\ IdleIsClear
             /\ OneGatePerRun
             /\ EntryWhileTaken
             /\ GatesApart
             /\ PermitOrHolder
             /\ SoleHolder
             /\ QueuedAtShutGate
-----------------------------------------------------------------------------
\* The takers of a run are finitely many, so their count is a number that tells when none is left.
LEMMA TakersCounted ==
    ASSUME NEW r \in Runs
    PROVE  /\ IsFiniteSet(TakersOf(r))
           /\ Cardinality(TakersOf(r)) \in Nat
           /\ Cardinality(TakersOf(r)) = 0 <=> TakersOf(r) = {}
<1>1. IsFiniteSet(TakersOf(r))
  <2>1. TakersOf(r) \subseteq Tasks
    BY DEF TakersOf
  <2> QED BY <2>1, FS_Subset, RunTurnsAssumption
<1> QED BY <1>1, FS_CardinalityType, FS_EmptySet

LEMMA TurnsInitIInv == TurnsInit => TurnsIInv
<1> SUFFICES ASSUME TurnsInit PROVE TurnsIInv
  OBVIOUS
<1>1. \A r \in Runs : TakersOf(r) = {}
  BY DEF TurnsInit, TakersOf
<1>2. EntryWhileTaken
  BY <1>1, FS_EmptySet DEF EntryWhileTaken, TurnsInit
<1> QED
  BY <1>2 DEF TurnsInit, TurnsIInv, TurnsTypeOK, Stages, IdleIsClear, OneGatePerRun, GatesApart,
              PermitOrHolder, SoleHolder, QueuedAtShutGate

\* A step that leaves every task's stage at idle or not, its run, the entries and the counts
\* alone leaves the takers alone.
LEMMA SameTakers ==
    ASSUME EntryWhileTaken, UNCHANGED <<gateOf, takers, run>>,
           \A t \in Tasks : stage[t] = "idle" <=> stage'[t] = "idle"
    PROVE  EntryWhileTaken'
<1>1. \A r \in Runs : TakersOf(r)' = TakersOf(r)
  BY DEF TakersOf
<1> QED BY <1>1 DEF EntryWhileTaken

LEMMA EnterKeepsIInv ==
    ASSUME TurnsIInv, NEW t \in Tasks, NEW r \in Runs, Enter(t, r)
    PROVE  TurnsIInv'
<1> USE DEF Enter, EnterWith
<1>1. PICK g \in Gates :
         /\ \/ gateOf[r] = g /\ UNCHANGED permits
            \/ /\ gateOf[r] = NoGate
               /\ Unreferenced(g)
               /\ permits' = [permits EXCEPT ![g] = 1]
         /\ gateOf' = [gateOf EXCEPT ![r] = g]
         /\ gate' = [gate EXCEPT ![t] = g]
  OBVIOUS
<1>2. /\ stage[t] = "idle"
      /\ takers' = [takers EXCEPT ![r] = @ + 1]
      /\ run' = [run EXCEPT ![t] = r]
      /\ stage' = [stage EXCEPT ![t] = "asking"]
  OBVIOUS
<1> HIDE DEF Enter, EnterWith
<1> USE RunTurnsAssumption
<1>3. TurnsTypeOK'
  BY <1>1, <1>2 DEF TurnsIInv, TurnsTypeOK, Stages
<1>4. IdleIsClear'
  BY <1>1, <1>2 DEF TurnsIInv, TurnsTypeOK, IdleIsClear
<1>5. OneGatePerRun'
  BY <1>1, <1>2 DEF TurnsIInv, TurnsTypeOK, OneGatePerRun, IdleIsClear, EntryWhileTaken, TakersOf
<1>6. EntryWhileTaken'
  <2>1. TakersOf(r)' = TakersOf(r) \union {t} /\ t \notin TakersOf(r)
    BY <1>2 DEF TakersOf, TurnsIInv, TurnsTypeOK
  <2>2. \A s \in Runs : s # r => TakersOf(s)' = TakersOf(s)
    BY <1>2 DEF TakersOf, TurnsIInv, TurnsTypeOK, IdleIsClear
  <2>3. Cardinality(TakersOf(r)') = Cardinality(TakersOf(r)) + 1
    BY <2>1, TakersCounted, FS_AddElement
  <2>4. takers'[r] = Cardinality(TakersOf(r)')
    BY <1>2, <2>3 DEF TurnsIInv, TurnsTypeOK, EntryWhileTaken
  <2>5. gateOf'[r] # NoGate
    BY <1>1 DEF TurnsIInv, TurnsTypeOK
  <2>6. \A s \in Runs : s # r => takers'[s] = takers[s] /\ gateOf'[s] = gateOf[s]
    BY <1>1, <1>2 DEF TurnsIInv, TurnsTypeOK
  <2> QED BY <2>1, <2>2, <2>4, <2>5, <2>6 DEF EntryWhileTaken, TurnsIInv
<1>7. GatesApart'
  BY <1>1, <1>2 DEF TurnsIInv, TurnsTypeOK, GatesApart, Unreferenced
<1>8. PermitOrHolder'
  <2>1. \A u \in Tasks : /\ stage'[u] = "holding" <=> stage[u] = "holding" /\ u # t
                        /\ u # t => gate'[u] = gate[u]
    BY <1>1, <1>2 DEF TurnsIInv, TurnsTypeOK
  <2>2. ASSUME NEW s \in Runs, gateOf'[s] # NoGate, NEW h, h = gateOf'[s]
        PROVE  /\ permits'[h] \in {0, 1}
               /\ permits'[h] = 0 <=> \E u \in Tasks : stage'[u] = "holding" /\ gate'[u] = h
    <3>1. (\E u \in Tasks : stage'[u] = "holding" /\ gate'[u] = h) <=> HolderAt(h)
      BY <2>1, <1>2 DEF HolderAt
    <3>2. CASE gateOf[s] = h
      <4>1. permits'[h] = permits[h]
        BY <3>2, <2>2, <1>1 DEF TurnsIInv, TurnsTypeOK, Unreferenced
      <4> QED BY <4>1, <3>1, <3>2, <2>2 DEF TurnsIInv, PermitOrHolder
    <3>3. CASE gateOf[s] # h
      <4>1. s = r /\ h = g /\ Unreferenced(g) /\ permits' = [permits EXCEPT ![g] = 1]
        BY <3>3, <2>2, <1>1 DEF TurnsIInv, TurnsTypeOK
      <4>2. permits'[h] = 1
        BY <4>1 DEF TurnsIInv, TurnsTypeOK
      <4>3. ~HolderAt(h)
        BY <4>1 DEF HolderAt, Unreferenced
      <4> QED BY <4>2, <4>3, <3>1
    <3> QED BY <3>2, <3>3
  <2> QED BY <2>2 DEF PermitOrHolder, HolderAt
<1>9. SoleHolder'
  BY <1>1, <1>2 DEF TurnsIInv, TurnsTypeOK, SoleHolder
<1>10. QueuedAtShutGate'
  <2>1. ASSUME NEW u \in Tasks, stage'[u] = "queued" PROVE permits'[gate'[u]] = 0
    <3>1. u # t /\ stage[u] = "queued" /\ gate'[u] = gate[u] /\ gate[u] \in Gates
      BY <2>1, <1>1, <1>2 DEF TurnsIInv, TurnsTypeOK, OneGatePerRun
    <3>2. permits'[gate[u]] = permits[gate[u]]
      BY <3>1, <1>1 DEF TurnsIInv, TurnsTypeOK, Unreferenced
    <3> QED BY <3>1, <3>2 DEF TurnsIInv, QueuedAtShutGate
  <2> QED BY <2>1 DEF QueuedAtShutGate
<1> QED BY <1>3, <1>4, <1>5, <1>6, <1>7, <1>8, <1>9, <1>10 DEF TurnsIInv

LEMMA AcquireKeepsIInv ==
    ASSUME TurnsIInv, NEW t \in Tasks, Acquire(t)
    PROVE  TurnsIInv'
<1>1. /\ gate[t] \in Gates
      /\ run[t] \in Runs
      /\ gate[t] = gateOf[run[t]]
      /\ permits[gate[t]] = 1
      /\ ~HolderAt(gate[t])
  BY RunTurnsAssumption DEF Acquire, TurnsIInv, TurnsTypeOK, IdleIsClear, OneGatePerRun, PermitOrHolder
<1>2. /\ permits' = [permits EXCEPT ![gate[t]] = 0]
      /\ stage' = [stage EXCEPT ![t] = "holding"]
      /\ stage[t] = "asking"
      /\ UNCHANGED <<gateOf, takers, run, gate>>
  BY <1>1 DEF Acquire, TurnsIInv, TurnsTypeOK
<1>3. TurnsTypeOK'
  BY <1>1, <1>2 DEF TurnsIInv, TurnsTypeOK, Stages
<1>4. IdleIsClear' /\ OneGatePerRun' /\ GatesApart'
  BY <1>1, <1>2 DEF TurnsIInv, TurnsTypeOK, IdleIsClear, OneGatePerRun, GatesApart
<1>5. EntryWhileTaken'
  BY <1>2, SameTakers DEF TurnsIInv, TurnsTypeOK
<1>6. PermitOrHolder'
  <2>1. ASSUME NEW s \in Runs, gateOf[s] # NoGate
        PROVE  /\ permits'[gateOf[s]] \in {0, 1}
               /\ permits'[gateOf[s]] = 0
                     <=> \E u \in Tasks : stage'[u] = "holding" /\ gate[u] = gateOf[s]
    <3>1. CASE s = run[t]
      BY <3>1, <1>1, <1>2 DEF TurnsIInv, TurnsTypeOK
    <3>2. CASE s # run[t]
      <4>1. gateOf[s] # gate[t] /\ permits'[gateOf[s]] = permits[gateOf[s]]
        BY <3>2, <2>1, <1>1, <1>2 DEF TurnsIInv, TurnsTypeOK, GatesApart
      <4>2. (\E u \in Tasks : stage'[u] = "holding" /\ gate[u] = gateOf[s]) <=> HolderAt(gateOf[s])
        BY <4>1, <1>2 DEF HolderAt, TurnsIInv, TurnsTypeOK
      <4> QED BY <4>1, <4>2, <2>1 DEF TurnsIInv, PermitOrHolder
    <3> QED BY <3>1, <3>2
  <2> QED BY <2>1, <1>2 DEF PermitOrHolder, HolderAt
<1>7. SoleHolder'
  BY <1>1, <1>2 DEF TurnsIInv, TurnsTypeOK, SoleHolder, HolderAt
<1>8. QueuedAtShutGate'
  BY <1>1, <1>2 DEF TurnsIInv, TurnsTypeOK, QueuedAtShutGate
<1> QED BY <1>3, <1>4, <1>5, <1>6, <1>7, <1>8 DEF TurnsIInv

LEMMA QueueKeepsIInv ==
    ASSUME TurnsIInv, NEW t \in Tasks, Queue(t)
    PROVE  TurnsIInv'
<1>1. /\ stage[t] = "asking"
      /\ permits[gate[t]] = 0
      /\ stage' = [stage EXCEPT ![t] = "queued"]
      /\ UNCHANGED <<gateOf, takers, permits, run, gate>>
  BY DEF Queue
<1>2. TurnsTypeOK' /\ IdleIsClear' /\ OneGatePerRun' /\ GatesApart'
  BY <1>1 DEF TurnsIInv, TurnsTypeOK, Stages, IdleIsClear, OneGatePerRun, GatesApart
<1>3. EntryWhileTaken'
  BY <1>1, SameTakers DEF TurnsIInv, TurnsTypeOK
<1>4. \A u \in Tasks : stage'[u] = "holding" <=> stage[u] = "holding"
  BY <1>1 DEF TurnsIInv, TurnsTypeOK
<1>5. PermitOrHolder'
  BY <1>1, <1>4 DEF TurnsIInv, PermitOrHolder, HolderAt
<1>6. SoleHolder'
  BY <1>1, <1>4 DEF TurnsIInv, SoleHolder
<1>7. QueuedAtShutGate'
  BY <1>1 DEF TurnsIInv, TurnsTypeOK, QueuedAtShutGate
<1> QED BY <1>2, <1>3, <1>5, <1>6, <1>7 DEF TurnsIInv

LEMMA AbandonKeepsIInv ==
    ASSUME TurnsIInv, NEW t \in Tasks, Abandon(t)
    PROVE  TurnsIInv'
<1>1. /\ stage[t] \in {"asking", "queued"}
      /\ stage' = [stage EXCEPT ![t] = "leaving"]
      /\ UNCHANGED <<gateOf, takers, permits, run, gate>>
  BY DEF Abandon
<1>2. TurnsTypeOK' /\ IdleIsClear' /\ OneGatePerRun' /\ GatesApart'
  BY <1>1 DEF TurnsIInv, TurnsTypeOK, Stages, IdleIsClear, OneGatePerRun, GatesApart
<1>3. EntryWhileTaken'
  BY <1>1, SameTakers DEF TurnsIInv, TurnsTypeOK
<1>4. \A u \in Tasks : stage'[u] = "holding" <=> stage[u] = "holding"
  BY <1>1 DEF TurnsIInv, TurnsTypeOK
<1>5. PermitOrHolder' /\ SoleHolder'
  BY <1>1, <1>4 DEF TurnsIInv, PermitOrHolder, HolderAt, SoleHolder
<1>6. QueuedAtShutGate'
  BY <1>1 DEF TurnsIInv, TurnsTypeOK, QueuedAtShutGate
<1> QED BY <1>2, <1>3, <1>5, <1>6 DEF TurnsIInv

LEMMA ReleaseKeepsIInv ==
    ASSUME TurnsIInv, NEW t \in Tasks, Release(t)
    PROVE  TurnsIInv'
<1>1. /\ gate[t] \in Gates
      /\ run[t] \in Runs
      /\ gate[t] = gateOf[run[t]]
      /\ permits[gate[t]] = 0
  BY RunTurnsAssumption
     DEF Release, TurnsIInv, TurnsTypeOK, IdleIsClear, OneGatePerRun, PermitOrHolder, HolderAt
<1>2. /\ permits' = [permits EXCEPT ![gate[t]] = 1]
      /\ stage' = [stage EXCEPT ![t] = "leaving"]
      /\ stage[t] = "holding"
      /\ \A u \in Tasks : ~(stage[u] = "queued" /\ gate[u] = gate[t])
      /\ UNCHANGED <<gateOf, takers, run, gate>>
  BY <1>1 DEF Release, TurnsIInv, TurnsTypeOK
<1>3. TurnsTypeOK' /\ IdleIsClear' /\ OneGatePerRun' /\ GatesApart'
  BY <1>1, <1>2 DEF TurnsIInv, TurnsTypeOK, Stages, IdleIsClear, OneGatePerRun, GatesApart
<1>4. EntryWhileTaken'
  BY <1>2, SameTakers DEF TurnsIInv, TurnsTypeOK
<1>5. \A u \in Tasks : stage'[u] = "holding" <=> stage[u] = "holding" /\ u # t
  BY <1>2 DEF TurnsIInv, TurnsTypeOK
<1>6. PermitOrHolder'
  <2>1. ASSUME NEW s \in Runs, gateOf[s] # NoGate
        PROVE  /\ permits'[gateOf[s]] \in {0, 1}
               /\ permits'[gateOf[s]] = 0
                     <=> \E u \in Tasks : stage'[u] = "holding" /\ gate[u] = gateOf[s]
    <3>1. CASE s = run[t]
      BY <3>1, <1>1, <1>2, <1>5 DEF TurnsIInv, TurnsTypeOK, SoleHolder
    <3>2. CASE s # run[t]
      <4>1. gateOf[s] # gate[t] /\ permits'[gateOf[s]] = permits[gateOf[s]]
        BY <3>2, <2>1, <1>1, <1>2 DEF TurnsIInv, TurnsTypeOK, GatesApart
      <4>2. (\E u \in Tasks : stage'[u] = "holding" /\ gate[u] = gateOf[s]) <=> HolderAt(gateOf[s])
        BY <4>1, <1>5 DEF HolderAt
      <4> QED BY <4>1, <4>2, <2>1 DEF TurnsIInv, PermitOrHolder
    <3> QED BY <3>1, <3>2
  <2> QED BY <2>1, <1>2 DEF PermitOrHolder, HolderAt
<1>7. SoleHolder'
  BY <1>2, <1>5 DEF TurnsIInv, SoleHolder
<1>8. QueuedAtShutGate'
  <2>1. ASSUME NEW u \in Tasks, stage'[u] = "queued" PROVE permits'[gate[u]] = 0
    <3>1. stage[u] = "queued" /\ gate[u] # gate[t] /\ gate[u] \in Gates
      BY <2>1, <1>2 DEF TurnsIInv, TurnsTypeOK, OneGatePerRun
    <3> QED BY <3>1, <1>2 DEF TurnsIInv, TurnsTypeOK, QueuedAtShutGate
  <2> QED BY <2>1, <1>2 DEF QueuedAtShutGate
<1> QED BY <1>3, <1>4, <1>6, <1>7, <1>8 DEF TurnsIInv

LEMMA HandOverKeepsIInv ==
    ASSUME TurnsIInv, NEW t \in Tasks, NEW u \in Tasks, HandOver(t, u)
    PROVE  TurnsIInv'
<1>1. /\ stage[t] = "holding"
      /\ stage[u] = "queued"
      /\ gate[u] = gate[t]
      /\ stage' = [stage EXCEPT ![t] = "leaving", ![u] = "holding"]
      /\ UNCHANGED <<gateOf, takers, permits, run, gate>>
  BY DEF HandOver
<1>2. TurnsTypeOK' /\ IdleIsClear' /\ OneGatePerRun' /\ GatesApart'
  BY <1>1 DEF TurnsIInv, TurnsTypeOK, Stages, IdleIsClear, OneGatePerRun, GatesApart
<1>3. EntryWhileTaken'
  BY <1>1, SameTakers DEF TurnsIInv, TurnsTypeOK
<1>4. \A v \in Tasks : stage'[v] = "holding" <=> v = u \/ (stage[v] = "holding" /\ v # t)
  BY <1>1 DEF TurnsIInv, TurnsTypeOK
<1>5. \A g : (\E v \in Tasks : stage'[v] = "holding" /\ gate[v] = g) <=> HolderAt(g)
  BY <1>1, <1>4 DEF HolderAt
<1>6. PermitOrHolder'
  <2>1. ASSUME NEW s \in Runs, gateOf[s] # NoGate
        PROVE  /\ permits[gateOf[s]] \in {0, 1}
               /\ permits[gateOf[s]] = 0
                     <=> \E v \in Tasks : stage'[v] = "holding" /\ gate[v] = gateOf[s]
    BY <2>1, <1>5 DEF TurnsIInv, PermitOrHolder
  <2> QED BY <2>1, <1>1 DEF PermitOrHolder, HolderAt
<1>7. SoleHolder'
  BY <1>1, <1>4 DEF TurnsIInv, SoleHolder
<1>8. QueuedAtShutGate'
  BY <1>1 DEF TurnsIInv, TurnsTypeOK, QueuedAtShutGate
<1> QED BY <1>2, <1>3, <1>6, <1>7, <1>8 DEF TurnsIInv

LEMMA LeaveKeepsIInv ==
    ASSUME TurnsIInv, NEW t \in Tasks, Leave(t)
    PROVE  TurnsIInv'
<1>1. PICK r \in Runs : r = run[t] /\ t \in TakersOf(r) /\ gateOf[r] \in Gates
  BY RunTurnsAssumption DEF Leave, LeaveDroppingIf, TurnsIInv, TurnsTypeOK, IdleIsClear, OneGatePerRun, TakersOf
<1>2. /\ stage[t] = "leaving"
      /\ gateOf' = [gateOf EXCEPT ![r] = IF takers[r] = 1 THEN NoGate ELSE @]
      /\ takers' = [takers EXCEPT ![r] = @ - 1]
      /\ stage' = [stage EXCEPT ![t] = "idle"]
      /\ run' = [run EXCEPT ![t] = NoRun]
      /\ gate' = [gate EXCEPT ![t] = NoGate]
      /\ permits' = permits
  BY <1>1 DEF Leave, LeaveDroppingIf
<1>3. /\ TakersOf(r)' = TakersOf(r) \ {t}
      /\ Cardinality(TakersOf(r)') = takers[r] - 1
      /\ takers[r] \in Nat \ {0}
  <2>1. TakersOf(r)' = TakersOf(r) \ {t}
    BY <1>1, <1>2, RunTurnsAssumption DEF TakersOf, TurnsIInv, TurnsTypeOK
  <2>2. IsFiniteSet(TakersOf(r)) /\ Cardinality(TakersOf(r)) \in Nat \ {0}
    BY <1>1, TakersCounted
  <2>3. takers[r] = Cardinality(TakersOf(r))
    BY <1>1 DEF TurnsIInv, EntryWhileTaken
  <2> QED BY <2>1, <2>2, <2>3, <1>1, FS_RemoveElement
<1>4. takers[r] = 1 <=> TakersOf(r) = {t}
  <2>1. IsFiniteSet(TakersOf(r)')
    BY <1>3, <1>1, TakersCounted, FS_RemoveElement
  <2>2. Cardinality(TakersOf(r)') = 0 <=> TakersOf(r)' = {}
    BY <2>1, FS_EmptySet
  <2> QED BY <2>2, <1>1, <1>3
<1>5. TurnsTypeOK'
  BY <1>1, <1>2, <1>3 DEF TurnsIInv, TurnsTypeOK, Stages
<1>6. IdleIsClear'
  BY <1>2 DEF TurnsIInv, TurnsTypeOK, IdleIsClear
<1>7. OneGatePerRun'
  <2>1. ASSUME NEW u \in Tasks, stage'[u] # "idle"
        PROVE  gate[u] = gateOf'[run[u]] /\ gate[u] # NoGate /\ u # t
    <3>1. u # t /\ u \in TakersOf(run[u]) /\ run[u] \in Runs
      BY <2>1, <1>2 DEF TurnsIInv, TurnsTypeOK, IdleIsClear, TakersOf
    <3>2. gateOf'[run[u]] = gateOf[run[u]]
      BY <3>1, <1>2, <1>4 DEF TurnsIInv, TurnsTypeOK
    <3> QED BY <3>1, <3>2, <2>1, <1>2 DEF TurnsIInv, OneGatePerRun, TurnsTypeOK
  <2> QED BY <2>1, <1>2 DEF OneGatePerRun, TurnsIInv, TurnsTypeOK
<1>8. EntryWhileTaken'
  <2>1. \A s \in Runs : s # r => TakersOf(s)' = TakersOf(s)
    BY <1>1, <1>2, RunTurnsAssumption DEF TakersOf, TurnsIInv, TurnsTypeOK
  <2>2. \A s \in Runs : s # r => takers'[s] = takers[s] /\ gateOf'[s] = gateOf[s]
    BY <1>1, <1>2 DEF TurnsIInv, TurnsTypeOK
  <2>3. takers'[r] = takers[r] - 1 /\ gateOf'[r] = IF takers[r] = 1 THEN NoGate ELSE gateOf[r]
    BY <1>1, <1>2 DEF TurnsIInv, TurnsTypeOK
  <2>4. gateOf'[r] = NoGate <=> TakersOf(r)' = {}
    BY <2>3, <1>1, <1>3, <1>4, RunTurnsAssumption
  <2> QED BY <2>1, <2>2, <2>3, <2>4, <1>3 DEF EntryWhileTaken, TurnsIInv
<1>9. GatesApart'
  BY <1>2 DEF TurnsIInv, TurnsTypeOK, GatesApart
<1>10. PermitOrHolder'
  <2>1. ASSUME NEW s \in Runs, gateOf'[s] # NoGate
        PROVE  /\ gateOf'[s] = gateOf[s]
               /\ (\E u \in Tasks : stage'[u] = "holding" /\ gate'[u] = gateOf[s]) <=> HolderAt(gateOf[s])
    BY <2>1, <1>2 DEF TurnsIInv, TurnsTypeOK, HolderAt
  <2> QED BY <2>1, <1>2 DEF TurnsIInv, PermitOrHolder, HolderAt
<1>11. SoleHolder' /\ QueuedAtShutGate'
  BY <1>2 DEF TurnsIInv, TurnsTypeOK, SoleHolder, QueuedAtShutGate
<1> QED BY <1>5, <1>6, <1>7, <1>8, <1>9, <1>10, <1>11 DEF TurnsIInv

\* The strengthening is inductive: every operation of a task keeps it.
THEOREM NextKeepsTurnsIInv == TurnsIInv /\ [TurnsNext]_turnVars => TurnsIInv'
<1> SUFFICES ASSUME TurnsIInv, [TurnsNext]_turnVars PROVE TurnsIInv'
  OBVIOUS
<1>1. ASSUME NEW t \in Tasks, NEW r \in Runs, Enter(t, r) PROVE TurnsIInv'
  BY <1>1, EnterKeepsIInv
<1>2. ASSUME NEW t \in Tasks, Acquire(t) PROVE TurnsIInv'
  BY <1>2, AcquireKeepsIInv
<1>3. ASSUME NEW t \in Tasks, Queue(t) PROVE TurnsIInv'
  BY <1>3, QueueKeepsIInv
<1>4. ASSUME NEW t \in Tasks, Abandon(t) PROVE TurnsIInv'
  BY <1>4, AbandonKeepsIInv
<1>5. ASSUME NEW t \in Tasks, Release(t) PROVE TurnsIInv'
  BY <1>5, ReleaseKeepsIInv
<1>6. ASSUME NEW t \in Tasks, NEW u \in Tasks, HandOver(t, u) PROVE TurnsIInv'
  BY <1>6, HandOverKeepsIInv
<1>7. ASSUME NEW t \in Tasks, Leave(t) PROVE TurnsIInv'
  BY <1>7, LeaveKeepsIInv
<1>8. CASE UNCHANGED turnVars
  <2>1. EntryWhileTaken'
    BY <1>8, SameTakers DEF turnVars, TurnsIInv
  <2> QED
    BY <1>8, <2>1 DEF turnVars, TurnsIInv, TurnsTypeOK, IdleIsClear, OneGatePerRun, GatesApart,
       PermitOrHolder, HolderAt, SoleHolder, QueuedAtShutGate
<1> QED BY <1>1, <1>2, <1>3, <1>4, <1>5, <1>6, <1>7, <1>8 DEF TurnsNext

\* In every state of every execution the strengthening holds.
THEOREM TurnsInductiveInvariant == TurnsSpec => []TurnsIInv
BY TurnsInitIInv, NextKeepsTurnsIInv, PTL DEF TurnsSpec
-----------------------------------------------------------------------------
\* The variables keep their types; in particular no count of takers falls below nought,
\* however tasks enter, give up and leave (RunTurns.cs).
THEOREM TurnsTypeCorrect == TurnsSpec => []TurnsTypeOK
<1>1. TurnsIInv => TurnsTypeOK
  BY DEF TurnsIInv
<1> QED BY <1>1, TurnsInductiveInvariant, PTL

\* For any runs, tasks and gates: no two tasks hold the turn of one run (RunTurns.cs:3).
THEOREM TurnsExclude == TurnsSpec => []MutualExclusion
<1>1. TurnsIInv => MutualExclusion
  BY DEF TurnsIInv, MutualExclusion, Holds, SoleHolder, OneGatePerRun
<1> QED BY <1>1, TurnsInductiveInvariant, PTL

\* An entry lives exactly while somebody holds or waits for the turn, and all takers of a
\* run share its gate (RunTurns.cs:4).
THEOREM EntriesAreShared == TurnsSpec => [](OneGatePerRun /\ EntryWhileTaken)
<1>1. TurnsIInv => OneGatePerRun /\ EntryWhileTaken
  BY DEF TurnsIInv
<1> QED BY <1>1, TurnsInductiveInvariant, PTL

\* A queued task always has a holder before it, and no permit is given back twice.
THEOREM TurnsAreNotLost == TurnsSpec => []NoLostTurn
<1>1. ASSUME TurnsIInv PROVE NoLostTurn
  <2>1. \A t \in Tasks : stage[t] # "idle" =>
          /\ run[t] \in Runs
          /\ gateOf[run[t]] = gate[t]
          /\ gateOf[run[t]] # NoGate
    BY <1>1 DEF TurnsIInv, IdleIsClear, OneGatePerRun
  <2> QED
    BY <1>1, <2>1 DEF TurnsIInv, NoLostTurn, QueuedAtShutGate, PermitOrHolder, HolderAt
<1> QED BY <1>1, TurnsInductiveInvariant, PTL
-----------------------------------------------------------------------------
LEMMA TurnsInitImplements == TurnsInit => Promise!Init
BY DEF TurnsInit, Promise!Init, Asked, Holders, Holds

\* What TurnsIInv says of a task that works on a run, in the terms of the mapping.
LEMMA TurnOfATask ==
    ASSUME TurnsIInv, NEW t \in Tasks, stage[t] # "idle"
    PROVE  /\ run[t] \in Runs
           /\ \A u \in Tasks : run[u] = run[t] => gate[u] = gate[t]
           /\ stage[t] = "holding" => Holders[run[t]] = {t}
BY RunTurnsAssumption
   DEF TurnsIInv, TurnsTypeOK, IdleIsClear, OneGatePerRun, SoleHolder, Holders, Holds

\* Every step is a step of one turn per run, or invisible there.
LEMMA TurnsStepImplements ==
    ASSUME TurnsIInv, [TurnsNext]_turnVars
    PROVE  [Promise!Next]_Promise!vars
<1> USE DEF Promise!Next, Promise!vars
<1>1. ASSUME NEW t \in Tasks, NEW r \in Runs, Enter(t, r) PROVE Promise!Ask(t, r)
  <2>1. /\ stage[t] = "idle"
        /\ run' = [run EXCEPT ![t] = r]
        /\ stage' = [stage EXCEPT ![t] = "asking"]
    BY <1>1 DEF Enter, EnterWith
  <2>2. ~Promise!Busy(t)
    BY <2>1 DEF Promise!Busy, Asked, Holders, Holds
  <2>3. Asked' = [Asked EXCEPT ![r] = @ \union {t}]
    <3>1. \A s \in Runs : Asked'[s] = IF s = r THEN Asked[s] \union {t} ELSE Asked[s]
      BY <2>1, RunTurnsAssumption DEF Asked, TurnsIInv, TurnsTypeOK, IdleIsClear
    <3> QED BY <3>1 DEF Asked
  <2>4. Holders' = Holders
    BY <2>1 DEF Holders, Holds, TurnsIInv, TurnsTypeOK
  <2> QED BY <2>2, <2>3, <2>4 DEF Promise!Ask
<1>2. ASSUME NEW t \in Tasks, Acquire(t) PROVE \E r \in Runs : Promise!Take(t, r)
  <2>1. /\ stage[t] = "asking"
        /\ stage' = [stage EXCEPT ![t] = "holding"]
        /\ run' = run
        /\ permits[gate[t]] > 0
    BY <1>2 DEF Acquire
  <2>2. PICK r \in Runs : r = run[t]
    BY <2>1, TurnOfATask
  <2>3. t \in Asked[r]
    BY <2>1, <2>2 DEF Asked
  <2>4. Holders[r] = {}
    <3>1. ~HolderAt(gate[t])
      BY <2>1, <2>2 DEF TurnsIInv, TurnsTypeOK, OneGatePerRun, PermitOrHolder
    <3>2. \A u \in Tasks : run[u] = r => gate[u] = gate[t]
      BY <2>1, <2>2, TurnOfATask
    <3> QED BY <3>1, <3>2 DEF Holders, Holds, HolderAt
  <2>5. Asked' = [Asked EXCEPT ![r] = @ \ {t}]
    BY <2>1, <2>2 DEF Asked, TurnsIInv, TurnsTypeOK
  <2>6. Holders' = [Holders EXCEPT ![r] = {t}]
    <3>1. \A s \in Runs : Holders'[s] = IF s = r THEN Holders[s] \union {t} ELSE Holders[s]
      BY <2>1, <2>2 DEF Holders, Holds, TurnsIInv, TurnsTypeOK
    <3> QED BY <2>4, <3>1 DEF Holders
  <2> QED BY <2>3, <2>4, <2>5, <2>6 DEF Promise!Take
<1>3. ASSUME NEW t \in Tasks, Queue(t) \/ Leave(t) PROVE UNCHANGED Promise!vars
  BY <1>3, RunTurnsAssumption
     DEF Queue, Leave, LeaveDroppingIf, Asked, Holders, Holds, TurnsIInv, TurnsTypeOK
<1>4. ASSUME NEW t \in Tasks, Abandon(t) PROVE \E r \in Runs : Promise!GiveUp(t, r)
  <2>1. /\ stage[t] \in {"asking", "queued"}
        /\ stage' = [stage EXCEPT ![t] = "leaving"]
        /\ run' = run
    BY <1>4 DEF Abandon
  <2>2. PICK r \in Runs : r = run[t]
    BY <2>1, TurnOfATask
  <2>3. t \in Asked[r] /\ Asked' = [Asked EXCEPT ![r] = @ \ {t}]
    BY <2>1, <2>2 DEF Asked, TurnsIInv, TurnsTypeOK
  <2>4. Holders' = Holders
    BY <2>1 DEF Holders, Holds, TurnsIInv, TurnsTypeOK
  <2> QED BY <2>3, <2>4 DEF Promise!GiveUp
<1>5. ASSUME NEW t \in Tasks, Release(t) PROVE \E r \in Runs : Promise!Free(t, r)
  <2>1. /\ stage[t] = "holding"
        /\ stage' = [stage EXCEPT ![t] = "leaving"]
        /\ run' = run
    BY <1>5 DEF Release
  <2>2. PICK r \in Runs : r = run[t] /\ Holders[r] = {t}
    BY <2>1, TurnOfATask
  <2>3. Holders' = [Holders EXCEPT ![r] = {}]
    <3>1. \A s \in Runs : Holders'[s] = IF s = r THEN Holders[s] \ {t} ELSE Holders[s]
      BY <2>1, <2>2 DEF Holders, Holds, TurnsIInv, TurnsTypeOK
    <3> QED BY <2>2, <3>1 DEF Holders
  <2>4. Asked' = Asked
    BY <2>1 DEF Asked, TurnsIInv, TurnsTypeOK
  <2> QED BY <2>2, <2>3, <2>4 DEF Promise!Free
<1>6. ASSUME NEW t \in Tasks, NEW u \in Tasks, HandOver(t, u)
      PROVE  \E r \in Runs : Promise!HandOver(t, u, r)
  <2>1. /\ stage[t] = "holding"
        /\ stage[u] = "queued"
        /\ gate[u] = gate[t]
        /\ stage' = [stage EXCEPT ![t] = "leaving", ![u] = "holding"]
        /\ run' = run
    BY <1>6 DEF HandOver
  <2>2. PICK r \in Runs : r = run[t] /\ Holders[r] = {t}
    BY <2>1, TurnOfATask
  <2>3. run[u] = r
    BY <2>1, <2>2 DEF TurnsIInv, OneGatePerRun, GatesApart, IdleIsClear
  <2>4. u \in Asked[r] /\ Asked' = [Asked EXCEPT ![r] = @ \ {u}]
    BY <2>1, <2>2, <2>3 DEF Asked, TurnsIInv, TurnsTypeOK
  <2>5. Holders' = [Holders EXCEPT ![r] = {u}]
    <3>1. \A s \in Runs : Holders'[s] = IF s = r THEN (Holders[s] \ {t}) \union {u}
                                                ELSE Holders[s]
      BY <2>1, <2>2, <2>3 DEF Holders, Holds, TurnsIInv, TurnsTypeOK
    <3> QED BY <2>2, <3>1 DEF Holders
  <2> QED BY <2>2, <2>4, <2>5 DEF Promise!HandOver
<1>7. CASE UNCHANGED turnVars
  BY <1>7 DEF turnVars, Asked, Holders, Holds
<1> QED BY <1>1, <1>2, <1>3, <1>4, <1>5, <1>6, <1>7 DEF TurnsNext

\* The gates, entries and counts of RunTurns.cs give one turn per run, for any runs, tasks
\* and gates: what the modules of the executor rest on when they take a turn.
THEOREM TurnsImplement == TurnsSpec => ImplementsTurnPerRun
BY TurnsInitImplements, TurnsStepImplements, TurnsInductiveInvariant, PTL
   DEF TurnsSpec, ImplementsTurnPerRun, Promise!Spec
=============================================================================
