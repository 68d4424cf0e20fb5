----------------------------- MODULE RunLifecycle -----------------------------
(***************************************************************************)
(* The life of one run over crashes and restarts of its orchestrator:      *)
(* Execution/PipelineExecutor.cs of vos.Service.Phloem, from the moment    *)
(* the run is recorded.  What the process holds in memory (the sweep, the  *)
(* tasks that wait for the run's turn, the flag of a stop, the answers     *)
(* that came early) goes with a crash; what the broker keeps (node runs,   *)
(* vigils, the run) stays, and the next process takes the run up from it:  *)
(* RecoverWaitsAsync places missing vigils again, RecoverUnfinishedAsync   *)
(* carries on what was under way or fails the run, and a person may carry  *)
(* on or start again a run that a restart stopped.                         *)
(*                                                                         *)
(* The sweep is that of PipelineSweep with what a restart does not turn on *)
(* left out: wires carry a success and nothing else, no caller waits, the  *)
(* gate has a place for every node.  Whoever has the turn reads the record *)
(* and writes it in one step, save for a sweep and the placing of a vigil. *)
(* Reads do not fail, drawings stay as they are, attempts are recorded,    *)
(* and an early answer is claimed before it lapses.                        *)
(***************************************************************************)
EXTENDS Integers, FiniteSets

CONSTANTS Nodes,       \* node ids
          Drawings,    \* the pipelines a run may be of
          MaxAttempts, \* attempts of a node's retry policy
          MaxCrashes,  \* bound: crashes of the orchestrator
          MaxLost,     \* bound: best-effort steps that may fail
          MaxAsks      \* bound: what people ask of the run: to stop, to be carried on

VARIABLES dag,       \* the drawing the run is of
          record,    \* the broker: the status of each node run
          runStatus, \* the broker: the status of the run
          attempts,  \* the broker: the attempts a node run holds
          awaited,   \* the broker: the node runs related to the Thing they wait for
          vigil,     \* the platform: the vigil of each node run, placed, then held by it
          repeated,  \* the broker: the run was started again as another
          pc,        \* who has the run's turn: nobody, a sweep and where it stands, or recovery
          sweep,     \* the locals of the sweep
          placing,   \* the nodes whose vigil is placed and not yet related to them
          tasks,     \* what waits for the run's turn
          stopAsked, \* the run's entry in _stops has its request
          answering, \* where the answer to a node's vigil has come to
          early,     \* _earlyAnswers
          created,   \* the gateway's _createdNodeRuns
          recovery,  \* where the recovery at start has come to
          todo,      \* what it has listed and not yet looked at
          calls,     \* history: calls of each node's service begun
          granted,   \* history: how often a person said that calls may be made again
          overtaken, \* history: a task went by what another had changed since
          revived,   \* history: an answer took up a run that had failed
          lost,      \* best-effort steps that failed
          crashes,   \* crashes so far
          asks       \* asks so far

writes  == <<record, runStatus, created, lost>>
vigils  == <<awaited, vigil, placing>>
answers == <<answering, early>>
starts  == <<recovery, todo>>
asked   == <<stopAsked, asks, granted, repeated>>
history == <<calls, overtaken, revived, crashes>>
vars    == <<dag, writes, attempts, vigils, pc, sweep, tasks, answers, starts, asked, history>>

\* A drawing: its wires, its Output node, and what is marked on its nodes.
Drawing == [wires : SUBSET (Nodes \X Nodes), output : Nodes,
            waits : SUBSET Nodes,   \* wait for a state
            retried : SUBSET Nodes, \* carry a retry policy
            again : SUBSET Nodes]   \* MayBeCalledAgain

\* UnschedulableNodes of DagValidator finds none: there is no cycle, so among any nodes there
\* is one no wire from another of them enters.
Acyclic(wires) == \A ns \in (SUBSET Nodes) \ {{}} :
                      \E n \in ns : \A w \in wires : w[2] = n => w[1] \notin ns

ASSUME LifecycleAssumption == /\ \A d \in Drawings : d \in Drawing /\ Acyclic(d.wires)
                              /\ IsFiniteSet(Nodes)
                              /\ MaxAttempts \in Nat \ {0}
                              /\ MaxCrashes \in Nat /\ MaxLost \in Nat /\ MaxAsks \in Nat

Answered == {"succeeded", "failed", "waiting", "cancelled"}
Results  == Answered \union {"none", "notTaken", "skipped"}
Statuses == Results \union {"running", "trying", "interrupted"}
RunStatuses == {"running", "waiting", "succeeded", "failed", "cancelled"}

Listed == [node : Nodes, awaited : BOOLEAN, held : BOOLEAN]

ResumeTask(n) == [kind |-> "resume", node |-> n]
StopTask      == [kind |-> "stop"]

\* A sweep that goes by the record and the status its task read, whatever became of them.
SweepTask(rec, status) == [kind |-> "sweep", rec |-> rec, status |-> status]

Sweeps == [result : [Nodes -> Results], holding : SUBSET Nodes, halted : BOOLEAN, stopped : BOOLEAN,
           task : [Nodes -> Answered \union {"none", "queued", "between", "calling"}]]

TypeOK ==
    /\ dag \in Drawings
    /\ record \in [Nodes -> Statuses] /\ runStatus \in RunStatuses
    /\ attempts \in [Nodes -> Nat] /\ awaited \in SUBSET Nodes
    /\ vigil \in [Nodes -> {"none", "placed", "held", "gone"}] /\ repeated \in BOOLEAN
    /\ pc \in {"free", "sweeping", "holding", "failing", "recovering"}
    /\ sweep \in Sweeps /\ placing \in SUBSET Nodes
    /\ \A t \in tasks : \/ t = StopTask
                        \/ t.kind = "resume" /\ t.node \in Nodes
                        \/ t.kind = "sweep" /\ t.rec \in [Nodes -> Statuses] /\ t.status \in RunStatuses
    /\ stopAsked \in BOOLEAN
    /\ answering \in [Nodes -> {"no", "told", "unheld", "lookingAgain", "done"}]
    /\ early \in SUBSET Nodes /\ created \in SUBSET Nodes
    /\ recovery \in {"starting", "waits", "unfinished", "done"} /\ todo \in SUBSET Listed
    /\ calls \in [Nodes -> Nat] /\ granted \in 0 .. asks
    /\ overtaken \in BOOLEAN /\ revived \in BOOLEAN
    /\ lost \in 0 .. MaxLost /\ crashes \in 0 .. MaxCrashes /\ asks \in 0 .. MaxAsks
-----------------------------------------------------------------------------
Into(n) == {m \in Nodes : <<m, n>> \in dag.wires}

\* RunStatus.IsFinished.
Finished(status) == status \notin {"none", "running", "waiting", "trying"}

\* SetNodeRunStatusAsync relates a node run to its run only in the write that this process
\* takes for the first: where that one failed, the run does not have the node run.
Unrelated(n) == n \in created /\ record[n] = "none"

\* PersistStatusAsync of the nodes of written, then SetRunStatusAsync where the status changes:
\* each is tried once and may fail unheard.
Write(written, status) ==
    \E failing \in SUBSET DOMAIN written, refused \in {FALSE, status # runStatus} :
       /\ lost' = lost + Cardinality(failing) + (IF refused THEN 1 ELSE 0)
       /\ lost' <= MaxLost
       /\ record' = [n \in Nodes |-> IF n \in DOMAIN written \ failing /\ ~Unrelated(n)
                                     THEN written[n] ELSE record[n]]
       /\ created' = created \union DOMAIN written
       /\ runStatus' = IF refused THEN runStatus ELSE status

Of(ns, status) == [n \in ns |-> status]

\* A vigil that was not answered yet.
Live(n) == vigil[n] \in {"placed", "held"} /\ answering[n] = "no"

\* The nodes reached along wires from the nodes in ns.
Downstream(ns) ==
    LET closed == {c \in SUBSET Nodes : \A w \in dag.wires : w[1] \in ns \union c => w[2] \in c}
    IN  {n \in Nodes : \A c \in closed : n \in c}

\* ProgressFrom: why a record cannot be gone on from.  A node caught in the middle of a call
\* may be called again where its service says so, or a person does; a node without a record
\* is one the run had not reached, behind one under way.
UnderWay(rec) == {n \in Nodes : rec[n] \in {"running", "trying", "waiting", "interrupted"}}
Caught(rec)   == {n \in Nodes : rec[n] \in {"running", "interrupted"}} \ {dag.output}
Missing(rec)  == {n \in Nodes : rec[n] = "none"} \ Downstream(UnderWay(rec))

CannotGoOnUnmarked(rec, aPersonSaysSo) == Missing(rec) # {}

CannotGoOn(rec, aPersonSaysSo) == \/ Missing(rec) # {}
                                  \/ ~aPersonSaysSo /\ Caught(rec) \ dag.again # {}

\* ProgressFrom: what a record settles and leaves waiting; the rest is to be taken up again.
ProgressFrom(rec) == [n \in Nodes |-> IF rec[n] \in {"running", "trying", "interrupted"}
                                      THEN "none" ELSE rec[n]]

\* A sweep as it begins, the nodes in holding having vigils of earlier sweeps.
SweepFrom(result, holding) == [result |-> result, holding |-> holding, halted |-> FALSE,
                               stopped |-> FALSE, task |-> Of(Nodes, "none")]

NoSweep == SweepFrom(Of(Nodes, "none"), {})

\* The run was recorded in a process that has just started, and whose recovery is to come.
Init == /\ dag \in Drawings
        /\ record = Of(Nodes, "none") /\ runStatus = "running"
        /\ attempts = Of(Nodes, 0) /\ awaited = {} /\ vigil = Of(Nodes, "none")
        /\ repeated = FALSE
        /\ pc = "sweeping" /\ sweep = NoSweep
        /\ placing = {} /\ tasks = {} /\ stopAsked = FALSE
        /\ answering = Of(Nodes, "no") /\ early = {} /\ created = {}
        /\ recovery = "starting" /\ todo = {}
        /\ calls = Of(Nodes, 0) /\ granted = 0 /\ overtaken = FALSE /\ revived = FALSE
        /\ lost = 0 /\ crashes = 0 /\ asks = 0
-----------------------------------------------------------------------------
\* The sweep: SweepUntilSettledAsync and the tasks it starts.
Waiting    == {n \in Nodes : sweep.result[n] = "waiting"}
Settled(n) == sweep.result[n] \notin {"none", "waiting"}
Calling    == {n \in Nodes : sweep.task[n] # "none"}
Pending    == {n \in Nodes : sweep.result[n] = "none" /\ sweep.task[n] = "none"}
Ready      == {n \in Pending : \A m \in Into(n) : Settled(m)}
NotTaken   == {n \in Ready : Into(n) # {} /\ \A m \in Into(n) : sweep.result[m] # "succeeded"}

\* The Output node calls nothing, so a stop that finds only it to reach is not seen.
SeesStop == stopAsked /\ Pending \ {dag.output} # {}

SeeStop == /\ pc = "sweeping"
           /\ ~sweep.halted /\ ~sweep.stopped
           /\ SeesStop
           /\ sweep' = [sweep EXCEPT !.stopped = TRUE]
           /\ UNCHANGED <<dag, writes, attempts, vigils, pc, tasks, answers, starts, asked, history>>

Look == /\ pc = "sweeping"
        /\ ~sweep.halted /\ ~sweep.stopped /\ ~SeesStop
        /\ Ready # {}
        /\ sweep' = [sweep EXCEPT
                !.result = [n \in Nodes |-> IF n \in NotTaken THEN "notTaken" ELSE @[n]],
                !.task   = [n \in Nodes |-> IF n \in Ready \ NotTaken THEN "queued" ELSE @[n]]]
        /\ Write(Of(NotTaken, "notTaken"), runStatus)
        /\ UNCHANGED <<dag, attempts, vigils, pc, tasks, answers, starts, asked, history>>

\* RunNodeAsync: the node run is marked running before its service is called.
Begin(n) ==
    /\ sweep.task[n] = "queued"
    /\ Write(Of({n}, "running"), runStatus)
    /\ sweep' = [sweep EXCEPT !.task[n] = IF n = dag.output THEN "succeeded"
                                          ELSE IF n \in dag.retried THEN "between" ELSE "calling"]
    /\ calls' = IF sweep'.task[n] = "calling" THEN [calls EXCEPT ![n] = @ + 1] ELSE calls
    /\ UNCHANGED <<dag, attempts, vigils, pc, tasks, answers, starts, asked, overtaken,
                   revived, crashes>>

\* AttemptAsync between attempts, or read back so: a stop ends the node without another call.
StartAttempt(n) ==
    /\ sweep.task[n] = "between"
    /\ sweep' = [sweep EXCEPT !.task[n] = IF stopAsked THEN "cancelled" ELSE "calling"]
    /\ calls' = IF stopAsked THEN calls ELSE [calls EXCEPT ![n] = @ + 1]
    /\ UNCHANGED <<dag, writes, attempts, vigils, pc, tasks, answers, starts, asked, overtaken,
                   revived, crashes>>

AttemptMade(n) == attempts' = IF n \in dag.retried THEN [attempts EXCEPT ![n] = @ + 1] ELSE attempts

\* The service answers; a node that waits for a state then waits.
Answers(n) ==
    /\ sweep.task[n] = "calling"
    /\ \E answer \in {IF n \in dag.waits THEN "waiting" ELSE "succeeded", "failed"} :
          sweep' = [sweep EXCEPT !.task[n] = answer]
    /\ AttemptMade(n)
    /\ UNCHANGED <<dag, writes, vigils, pc, tasks, answers, starts, asked, history>>

\* The call never reached its service: another attempt, while there are attempts and time.
Unreached(n) ==
    /\ sweep.task[n] = "calling"
    /\ AttemptMade(n)
    /\ \/ /\ sweep' = [sweep EXCEPT !.task[n] = "failed"]
          /\ UNCHANGED writes
       \/ /\ n \in dag.retried
          /\ attempts'[n] < MaxAttempts
          /\ sweep' = [sweep EXCEPT !.task[n] = "between"]
          /\ Write(Of({n}, "trying"), runStatus)
    /\ UNCHANGED <<dag, vigils, pc, tasks, answers, starts, asked, history>>

\* TakeAsync: an answer is settled, or waits; a failure, which no wire carries on from, halts.
Take(n) ==
    /\ pc = "sweeping"
    /\ sweep.task[n] \in Answered
    /\ sweep' = [sweep EXCEPT !.task[n] = "none",
                              !.result[n] = sweep.task[n],
                              !.halted = (@ \/ sweep.task[n] = "failed"),
                              !.stopped = (@ \/ (sweep.task[n] = "cancelled" /\ stopAsked))]
    /\ Write(Of({n}, sweep.task[n]), runStatus)
    /\ UNCHANGED <<dag, attempts, vigils, pc, tasks, answers, starts, asked, history>>

\* Nothing is under way and nothing more is to be started.
Through == /\ pc = "sweeping"
           /\ Calling = {}
           /\ sweep.halted \/ sweep.stopped \/ (Ready = {} /\ ~SeesStop)

Unrecorded(rec) == {n \in Nodes : sweep.result[n] \notin {"none", rec[n]}}

\* HoldAsync, its first half: the record is made whole, and a node that still misses fails.
WriteRecordAgain ==
    /\ Through
    /\ ~sweep.halted /\ ~sweep.stopped
    /\ Waiting # {}
    /\ Write([n \in Unrecorded(record) |-> sweep.result[n]], runStatus)
    /\ LET missed == Unrecorded(record')
       IN  /\ sweep' = [sweep EXCEPT !.result = [n \in Nodes |-> IF n \in missed THEN "failed" ELSE @[n]],
                                     !.halted = (missed # {})]
           /\ pc' = IF missed = {} THEN "holding" ELSE "failing"
    /\ UNCHANGED <<dag, attempts, vigils, tasks, answers, starts, asked, history>>

\* PlaceAsync, up to the platform's answer: the node run is related to what it waits for, and
\* the vigil is there, though no node run holds it yet.
PlaceVigil(n) == /\ awaited' = awaited \union {n}
                 /\ vigil' = [vigil EXCEPT ![n] = "placed"]
                 /\ answering' = [answering EXCEPT ![n] = "no"]
                 /\ early' = early \ {n}
                 /\ placing' = {n}

\* PlaceAsync, its end: the vigil is related, and an answer that came early is claimed.
RelateVigil(n) ==
    /\ vigil' = [vigil EXCEPT ![n] = "held"]
    /\ placing' = {}
    /\ tasks' = IF n \in early THEN tasks \union {ResumeTask(n)} ELSE tasks
    /\ early' = early \ {n}

\* The platform refuses a vigil, or a step of placing it fails.
Refused(n) == /\ awaited' \in {awaited, awaited \union {n}}
              /\ placing' = {}

\* HoldAsync, its second half.
Place(n) ==
    /\ pc = "holding"
    /\ n \in Waiting \ sweep.holding
    /\ \/ /\ placing = {}
          /\ PlaceVigil(n)
          /\ UNCHANGED sweep
       \/ /\ placing \subseteq {n}
          /\ Refused(n)
          /\ sweep' = [sweep EXCEPT !.result[n] = "failed", !.halted = TRUE]
          /\ UNCHANGED <<vigil, answers>>
    /\ UNCHANGED <<dag, writes, attempts, pc, tasks, starts, asked, history>>

Hold(n) ==
    /\ pc = "holding"
    /\ n \in placing
    /\ RelateVigil(n)
    /\ sweep' = [sweep EXCEPT !.holding = @ \union {n}]
    /\ UNCHANGED <<dag, writes, attempts, awaited, pc, answering, starts, asked, history>>

HoldEnds ==
    /\ pc = "holding"
    /\ placing = {}
    /\ Waiting \subseteq sweep.holding
    /\ IF sweep.halted
       THEN /\ pc' = "failing"
            /\ UNCHANGED <<sweep, stopAsked, writes>>
       ELSE /\ pc' = "free"
            /\ sweep' = NoSweep
            /\ stopAsked' = FALSE
            /\ Write(Of({}, "none"), "waiting")
    /\ UNCHANGED <<dag, attempts, vigils, tasks, answers, starts, asks, granted, repeated, history>>

FailUnheld ==
    /\ pc = "failing"
    /\ Write(Of({n \in Nodes : sweep.result[n] = "failed" /\ record[n] # "failed"}, "failed"), runStatus)
    /\ pc' = "sweeping"
    /\ UNCHANGED <<dag, attempts, vigils, sweep, tasks, answers, starts, asked, history>>

\* The end of the sweep: what was not reached is recorded, and the run's status with it.
Close ==
    /\ Through
    /\ sweep.halted \/ sweep.stopped \/ Waiting = {}
    /\ Write(Of({n \in Nodes : ~Settled(n)}, IF sweep.stopped THEN "cancelled" ELSE "skipped"),
             IF sweep.stopped THEN "cancelled" ELSE IF sweep.halted THEN "failed" ELSE "succeeded")
    /\ pc' = "free"
    /\ sweep' = NoSweep
    /\ stopAsked' = FALSE
    /\ UNCHANGED <<dag, attempts, vigils, tasks, answers, starts, asks, granted, repeated, history>>
-----------------------------------------------------------------------------
\* What takes the run's turn reads the record, which nobody else writes meanwhile.
TakesTurn(t) == /\ pc = "free"
                /\ t \in tasks

\* The platform answers a vigil, once.
VigilIsAnswered(n) ==
    /\ Live(n)
    /\ answering' = [answering EXCEPT ![n] = "told"]
    /\ UNCHANGED <<dag, writes, attempts, vigils, pc, sweep, tasks, early, starts, asked, history>>

\* TakesAsAVigilAnswerAsync: the answer to a vigil that a node run holds resumes the run.
LookUp(n) ==
    /\ answering[n] = "told"
    /\ answering' = [answering EXCEPT ![n] = IF vigil[n] = "held" THEN "done" ELSE "unheld"]
    /\ tasks' = IF vigil[n] = "held" THEN tasks \union {ResumeTask(n)} ELSE tasks
    /\ UNCHANGED <<dag, writes, attempts, vigils, pc, sweep, early, starts, asked, history>>

\* Any other is kept for the placement to claim, and the vigil looked up again: the placement
\* may have related it, and found nothing to claim, after the first look.
KeepEarly(n) ==
    /\ answering[n] = "unheld"
    /\ answering' = [answering EXCEPT ![n] = "lookingAgain"]
    /\ early' = early \union {n}
    /\ UNCHANGED <<dag, writes, attempts, vigils, pc, sweep, tasks, starts, asked, history>>

LookUpAgainIf(n, claimed) ==
    /\ answering[n] = "lookingAgain"
    /\ answering' = [answering EXCEPT ![n] = "done"]
    /\ early' = IF claimed THEN early \ {n} ELSE early
    /\ tasks' = IF claimed THEN tasks \union {ResumeTask(n)} ELSE tasks
    /\ UNCHANGED <<dag, writes, attempts, vigils, pc, sweep, starts, asked, history>>

LookUpOnce(n) == LookUpAgainIf(n, FALSE)

LookUpAgain(n) == LookUpAgainIf(n, vigil[n] = "held" /\ n \in early)

\* ResumeAsync: the node that waited succeeds with what it answered before, and a sweep
\* carries on; a run that cannot go on fails.
Resume(n) ==
    /\ TakesTurn(ResumeTask(n))
    /\ tasks' = tasks \ {ResumeTask(n)}
    /\ IF record[n] # "waiting" THEN UNCHANGED <<writes, vigils, pc, sweep, revived>>
       ELSE IF CannotGoOn(record, FALSE)
       THEN /\ Write(Of({}, "none"), "failed")
            /\ UNCHANGED <<vigils, pc, sweep, revived>>
       ELSE /\ Write(Of({n}, "succeeded"), "running")
            /\ revived' = (revived \/ Finished(runStatus))
            /\ awaited' = awaited \ {n}
            /\ vigil' = [vigil EXCEPT ![n] = "gone"]
            /\ pc' = "sweeping"
            /\ sweep' = SweepFrom([ProgressFrom(record) EXCEPT ![n] = "succeeded"],
                                  {m \in Nodes \ {n} : record[m] = "waiting"})
            /\ UNCHANGED placing
    /\ UNCHANGED <<dag, attempts, answers, starts, asked, calls, overtaken, crashes>>

\* The sweep that RecoverUnfinishedAsync or CarryOnAsync left to a task of its own: it goes
\* by what they read, though another may have had the turn since.
CarryOnInTheBackground(t) ==
    /\ TakesTurn(t)
    /\ t.kind = "sweep"
    /\ tasks' = tasks \ {t}
    /\ overtaken' = (overtaken \/ t.rec # record \/ t.status # runStatus)
    /\ pc' = "sweeping"
    /\ sweep' = SweepFrom(ProgressFrom(t.rec), {n \in Nodes : t.rec[n] = "waiting"})
    /\ UNCHANGED <<dag, writes, attempts, vigils, answers, starts, asked, calls,
                   revived, crashes>>

\* StopAsync: the flag is set, and the ending half waits for the turn.
AskStop == /\ asks < MaxAsks
           /\ StopTask \notin tasks
           /\ asks' = asks + 1
           /\ stopAsked' = TRUE
           /\ tasks' = tasks \union {StopTask}
           /\ UNCHANGED <<dag, writes, attempts, vigils, pc, sweep, answers, starts, granted, repeated, history>>

\* EndUnlessItsSweepDoesAsync and EndStoppedRunAsync.
EndStopped ==
    /\ TakesTurn(StopTask)
    /\ tasks' = tasks \ {StopTask}
    /\ stopAsked' = FALSE
    /\ LET waits == {n \in Nodes : record[n] = "waiting"}
       IN  IF Finished(runStatus) THEN UNCHANGED <<writes, vigils>>
           ELSE /\ Write(Of({n \in Nodes : ~Finished(record[n])}, "cancelled"), "cancelled")
                /\ awaited' = awaited \ waits
                /\ vigil' = [n \in Nodes |-> IF n \in waits /\ vigil[n] = "held" THEN "gone" ELSE vigil[n]]
                /\ UNCHANGED placing
    /\ UNCHANGED <<dag, attempts, pc, sweep, answers, starts, asks, granted, repeated, history>>

\* A run that failed because a restart caught one of its nodes in the middle of a call.
StoppedByARestart == runStatus = "failed" /\ \E n \in Nodes : record[n] = "interrupted"

\* CarryOnAsync: a person's word stands in for the mark on the service.
CarryOnUnless(startedAgain) ==
    /\ asks < MaxAsks
    /\ pc = "free"
    /\ StoppedByARestart /\ ~startedAgain
    /\ ~CannotGoOn(record, TRUE)
    /\ asks' = asks + 1 /\ granted' = granted + 1
    /\ runStatus' = "running"
    /\ tasks' = tasks \union {SweepTask(record, "running")}
    /\ UNCHANGED <<dag, record, created, lost, attempts, vigils, pc, sweep, answers, starts,
                   stopAsked, repeated, history>>

CarryOnAnyhow == CarryOnUnless(FALSE)

CarryOn == CarryOnUnless(repeated)

\* StartAgainAsync: another run is recorded as repeating this one, and goes its own way.
StartAgain == /\ pc = "free"
              /\ StoppedByARestart /\ ~repeated
              /\ repeated' = TRUE
              /\ UNCHANGED <<dag, writes, attempts, vigils, pc, sweep, tasks, answers, starts,
                             stopAsked, asks, granted, history>>
-----------------------------------------------------------------------------
\* The process goes, and with it what it held.  A vigil answered while nobody was there, or
\* whose answer was still on its way here, is retired with nothing resumed, though a node run
\* may still be related to it.
Crash == /\ crashes < MaxCrashes
         /\ crashes' = crashes + 1
         /\ \E missed \in SUBSET {n \in Nodes : Live(n)} :
               LET retired == missed \union {n \in Nodes : vigil[n] \in {"placed", "held"} /\ ~Live(n)}
               IN  /\ vigil' = [n \in Nodes |-> IF n \in retired /\ vigil[n] = "placed" THEN "gone" ELSE vigil[n]]
                   /\ answering' = [n \in Nodes |-> IF n \in retired /\ vigil[n] = "held" THEN "done" ELSE "no"]
         /\ pc' = "free" /\ sweep' = NoSweep /\ placing' = {}
         /\ tasks' = {} /\ stopAsked' = FALSE /\ early' = {} /\ created' = {}
         /\ recovery' = "starting" /\ todo' = {}
         /\ UNCHANGED <<dag, record, runStatus, lost, attempts, awaited, asks, granted, repeated,
                        calls, overtaken, revived>>

\* RecoverWaitsAsync lists the waits of the runs the orchestrator holds, those unfinished.
ListWaits ==
    /\ recovery = "starting"
    /\ recovery' = "waits"
    /\ todo' = IF Finished(runStatus) THEN {}
               ELSE {[node |-> n, awaited |-> n \in awaited, held |-> vigil[n] = "held"] :
                        n \in {m \in Nodes : record[m] = "waiting"}}
    /\ UNCHANGED <<dag, writes, attempts, vigils, pc, sweep, tasks, answers, asked, history>>

SkipWait(w) == /\ recovery = "waits"
               /\ w \in todo
               /\ w.held /\ Live(w.node)
               /\ todo' = todo \ {w}
               /\ UNCHANGED <<dag, writes, attempts, vigils, pc, sweep, tasks, answers, recovery,
                              asked, history>>

\* A wait without a vigil gets one again; where what it waits for is not known, or the vigil
\* is refused, the node and the run fail.  Nobody asks whether the node still waits.  An
\* answer on its way here is looked up first.
RecoverWait(w) ==
    /\ recovery = "waits"
    /\ w \in todo
    /\ ~(w.held /\ Live(w.node))
    /\ pc = "free"
    /\ answering[w.node] \in {"no", "done"}
    /\ todo' = todo \ {w}
    /\ overtaken' = (overtaken \/ record[w.node] # "waiting" \/ (w.node \in awaited) # w.awaited)
    /\ \/ /\ w.awaited
          /\ PlaceVigil(w.node)
          /\ pc' = "recovering"
          /\ UNCHANGED writes
       \/ /\ IF w.awaited THEN Refused(w.node) ELSE UNCHANGED <<awaited, placing>>
          /\ Write(Of({w.node}, "failed"), "failed")
          /\ UNCHANGED <<vigil, answers, pc>>
    /\ UNCHANGED <<dag, attempts, sweep, tasks, recovery, asked, calls,
                   revived, crashes>>

RecoverWaitEnds(n) ==
    /\ pc = "recovering"
    /\ n \in placing
    /\ pc' = "free"
    /\ \/ /\ RelateVigil(n)
          /\ UNCHANGED <<awaited, writes>>
       \/ /\ Refused(n)
          /\ Write(Of({n}, "failed"), "failed")
          /\ UNCHANGED <<vigil, tasks, early>>
    /\ UNCHANGED <<dag, attempts, sweep, answering, starts, asked, history>>

\* RecoverUnfinishedAsync lists the node runs under way; the first of the run stands for it.
ListUnfinishedIn(statuses) ==
    LET listed == {n \in Nodes : record[n] \in statuses}
    IN  /\ recovery = "waits"
        /\ todo = {} /\ pc # "recovering"
        /\ IF Finished(runStatus) \/ listed = {}
           THEN recovery' = "done" /\ UNCHANGED todo
           ELSE /\ recovery' = "unfinished"
                /\ \E n \in listed : todo' = {[node |-> n, awaited |-> FALSE, held |-> FALSE]}
        /\ UNCHANGED <<dag, writes, attempts, vigils, pc, sweep, tasks, answers, asked, history>>

ListUnfinishedTrying == ListUnfinishedIn({"trying"})

ListUnfinished == ListUnfinishedIn({"running", "trying"})

RecoverUnfinishedUnless(finished) ==
    /\ recovery = "unfinished"
    /\ pc = "free"
    /\ recovery' = "done"
    /\ todo' = {}
    /\ IF finished THEN UNCHANGED <<writes, tasks>>
       ELSE IF CannotGoOn(record, FALSE)
       THEN /\ \E w \in todo : Write(Of({w.node}, "interrupted"), "failed")
            /\ UNCHANGED tasks
       ELSE /\ tasks' = tasks \union {SweepTask(record, runStatus)}
            /\ UNCHANGED writes
    /\ UNCHANGED <<dag, attempts, vigils, pc, sweep, answers, asked, history>>

RecoverUnfinishedAnyhow == RecoverUnfinishedUnless(FALSE)

RecoverUnfinished == RecoverUnfinishedUnless(Finished(runStatus))
-----------------------------------------------------------------------------
SweepStep == \/ SeeStop \/ Look \/ WriteRecordAgain \/ HoldEnds \/ FailUnheld \/ Close
             \/ \E n \in Nodes : Take(n) \/ Place(n) \/ Hold(n)

NodeStep(n) == Begin(n) \/ StartAttempt(n) \/ Answers(n) \/ Unreached(n)

AnswerStep(n) == LookUp(n) \/ KeepEarly(n) \/ LookUpAgain(n)

TakeUp(t) == \/ \E n \in Nodes : t = ResumeTask(n) /\ Resume(n)
             \/ CarryOnInTheBackground(t)
             \/ t = StopTask /\ EndStopped

RecoveryStep == \/ ListWaits \/ ListUnfinished \/ RecoverUnfinished
                \/ \E w \in todo : SkipWait(w) \/ RecoverWait(w)
                \/ \E n \in Nodes : RecoverWaitEnds(n)

Process == \/ SweepStep \/ RecoveryStep
           \/ \E n \in Nodes : NodeStep(n) \/ AnswerStep(n)
           \/ \E t \in tasks : TakeUp(t)

Others == \/ AskStop \/ CarryOn \/ StartAgain \/ Crash
          \/ \E n \in Nodes : VigilIsAnswered(n)

Next == Process \/ Others

Spec == Init /\ [][Next]_vars
-----------------------------------------------------------------------------
\* Everything this process had to do about the run is done.
Quiet == /\ pc = "free"
         /\ tasks = {}
         /\ recovery = "done"
         /\ \A n \in Nodes : answering[n] \in {"no", "done"}

\* A restart calls nothing again that may not be: a service is called once, or as often as
\* its policy has it, and once more for each crash where it may be called again or is
\* retried, or where a person said so (PipelineExecutor.cs:411-413).  Two writes that are lost
\* may leave a node that was called without a trace.
CallsAreSpared ==
    ~overtaken /\ lost < 2 => \A n \in Nodes :
        calls[n] <= (IF n \in dag.retried THEN MaxAttempts ELSE 1) + granted
                    + (IF n \in dag.retried \union dag.again THEN crashes ELSE 0)

\* Whatever crashed or crossed, a node that waits has a vigil that will resume it, unless its
\* run is over: no answer was lost between being told, looked up and claimed.  A run that a
\* person carries on, or another answer takes up, may wait for one that was answered while it
\* stood failed.
WaitsAreHeld ==
    Quiet /\ ~overtaken /\ lost = 0 /\ granted = 0 /\ ~revived /\ ~Finished(runStatus) =>
        \A n \in Nodes : record[n] = "waiting" => vigil[n] = "held" /\ answering[n] = "no"

\* No node of a run that is not over stays recorded in the middle of a call that nobody makes.
NothingLeftUnderWay ==
    Quiet /\ ~overtaken /\ lost = 0 /\ ~Finished(runStatus) =>
        \A n \in Nodes : record[n] \notin {"running", "trying"}

\* A node the restart caught that is not to be called again: what keeps its run from going on.
KeepsACaught == \E n \in Nodes \ (dag.again \union {dag.output}) : record[n] = "interrupted"

\* A run started again as another calls nothing any more, while it keeps such a node: no late
\* answer to another of its waits takes it up.  One whose caught nodes may all be called again
\* is taken up, beside the run that repeats it.
StartedAgainIsOver == [][(repeated /\ ~overtaken /\ KeepsACaught) => calls' = calls]_vars

\* A run that succeeded or was stopped stays so over crashes, late answers and recoveries.
EndStays ==
    [][(runStatus \in {"succeeded", "cancelled"} /\ ~overtaken' /\ lost = 0) => runStatus' = runStatus]_vars

\* A run recorded stopped calls nothing any more.
StoppedCallsNothing == [][(runStatus = "cancelled") => calls' = calls]_vars
=============================================================================
