---------------------------- MODULE PipelineSweep ----------------------------
(***************************************************************************)
(* The sweep of one run, Execution/PipelineExecutor.cs of                  *)
(* vos.Service.Phloem: SweepUntilSettledAsync starts each node once every  *)
(* wire into it has a settled source, calls the started nodes at the same  *)
(* time behind a gate of a few places, takes their answers one at a time,  *)
(* and leaves the run waiting for states, ended, or thrown out of.  A      *)
(* vigil's answer resumes a waiting run from its record (ResumeAsync), and *)
(* a stop that finds a run without a sweep ends it (EndStoppedRunAsync).   *)
(*                                                                         *)
(* The model holds one run under its turn (see RunTurns): a resume and the *)
(* ending half of a stop are enabled only while no sweep works.  A value a *)
(* wire carries is left out; what an answer names its wires to be taken on *)
(* stays.  Items of a once-per-item node meet before they go on: drawings  *)
(* have no wire along which ItemWires.Carries, and no retry policy on such *)
(* a node.  The variants of an action that stand before it carry a         *)
(* plausible bug each; no specification uses them.                         *)
(***************************************************************************)
EXTENDS Integers, FiniteSets

CONSTANTS Nodes,          \* node ids
          Drawings,       \* the pipelines a run may be of, as DagValidator lets them through
          Choices,        \* decision path ids
          MaxConcurrency, \* places at the gate: the executor's maxConcurrency
          MaxAttempts,    \* attempts of a node's retry policy
          MaxLost         \* bound: best-effort steps on the record that may fail

VARIABLES dag,       \* the drawing the run is of
          rehearsal, \* whether the run is a rehearsal
          pc,        \* where the sweep stands
          result,    \* progress.Results and, with status waiting, progress.Waiting
          holding,   \* progress.Holding: the waiting nodes that have a vigil
          halted,    \* the sweep's local: start nothing more
          unhandled, \* the sweep's local: an answer reached no wire
          stopped,   \* the sweep's local: the stop was seen
          task,      \* the keys of calling: where each started node's task stands
          answer,    \* what a task has answered and the sweep has not taken
          calls,     \* calls begun for a node, attempts among them
          stopAsked, \* the run's entry in _stops has its request
          stopping,  \* a StopAsync waits for the turn of the run
          caller,    \* a synchronous caller is here, has left, or left before the run was taken up
             \* again ("gone"); a detached run has none
          record,    \* the broker's node runs of the run
          created,   \* the gateway's _createdNodeRuns: nodes whose node run it takes for created
          runStatus, \* the status of the broker's run
          vigil,     \* the broker's vigil of each node run
          lost,      \* best-effort steps that failed
          revived    \* history: a vigil's answer took up a run that had ended

run    == <<dag, rehearsal>>
locals == <<holding, halted, unhandled, stopped>>
tasks  == <<task, answer, calls>>
others == <<stopAsked, stopping, caller>>
writes == <<record, created, runStatus, lost>>
broker == <<writes, vigil>>
vars   == <<run, pc, result, locals, tasks, others, broker, revived>>

Outcomes == {"success", "fail"} \union Choices

Wires == [from : Nodes, to : Nodes, on : SUBSET Outcomes]

Statuses == {"none", "running", "trying", "waiting", "succeeded", "partial", "failed",
             "rehearsed", "cannotRehearse", "notTaken", "cancelled", "skipped"}

RunStatuses == {"running", "waiting", "succeeded", "failed", "rehearsed", "cannotRehearse",
                "cancelled"}

\* An answer or a node run: its status and the outcomes its wires are taken on.
Result == [status : Statuses, taken : SUBSET Outcomes]

Bare(status) == [status |-> status, taken |-> {}]
Failed       == [status |-> "failed", taken |-> {"fail"}]

\* A drawing: its wires, its Output node, and what is marked on its nodes.
Drawing == [wires : SUBSET Wires, output : Nodes,
            inputs : SUBSET Nodes,    \* boundary nodes that call nothing
            acts : SUBSET Nodes,      \* tell, follow-on and stop nodes
            waits : SUBSET Nodes,     \* wait for a state
            perItem : SUBSET Nodes,   \* have a collection input
            goOn : SUBSET Nodes,      \* onItemError is continue
            retried : SUBSET Nodes,   \* carry a retry policy
            rehearses : SUBSET Nodes, \* their service rehearses
            choices : [Nodes -> SUBSET Choices],
            ruled : BOOLEAN]          \* the Output node carries a rule

\* UnschedulableNodes of DagValidator finds none: there is no cycle, so among any nodes there
\* is one no wire from another of them enters.
Acyclic(wires) == \A ns \in (SUBSET Nodes) \ {{}} :
                      \E n \in ns : \A w \in wires : w.to = n => w.from \notin ns

ASSUME SweepAssumption == /\ \A d \in Drawings : d \in Drawing /\ Acyclic(d.wires)
                          /\ IsFiniteSet(Nodes)
                          /\ MaxConcurrency \in Nat \ {0}
                          /\ MaxAttempts \in Nat \ {0}
                          /\ MaxLost \in Nat

Places == {"looking", "taking", "draining", "writing", "placing", "failing", "closing",
           "throwing", "thrown", "waits", "ended"}

Stages == {"none", "queued", "between", "calling", "answered", "threw"}

TypeOK == /\ dag \in Drawings
          /\ rehearsal \in BOOLEAN
          /\ pc \in Places
          /\ result \in [Nodes -> Result]
          /\ holding \in SUBSET Nodes
          /\ halted \in BOOLEAN /\ unhandled \in BOOLEAN /\ stopped \in BOOLEAN
          /\ task \in [Nodes -> Stages]
          /\ answer \in [Nodes -> Result]
          /\ calls \in [Nodes -> Nat]
          /\ stopAsked \in BOOLEAN /\ stopping \in BOOLEAN
          /\ caller \in {"here", "left", "none", "gone"}
          /\ record \in [Nodes -> Result]
          /\ created \in SUBSET Nodes
          /\ runStatus \in RunStatuses
          /\ vigil \in [Nodes -> {"none", "live", "answered", "gone"}]
          /\ lost \in 0 .. MaxLost
          /\ revived \in BOOLEAN
-----------------------------------------------------------------------------
WiresInto(n)  == {w \in dag.wires : w.to = n}
WiresOutOf(n) == {w \in dag.wires : w.from = n}

\* WireDeliveries.Chooses: a wire carries when the answer names what it is taken on.
Carries(w, r) == /\ r.status \in {"succeeded", "partial", "failed", "rehearsed", "cancelled"}
                 /\ w.on \intersect r.taken # {}

\* Whether progress.Deliveries holds the wire, and with CarriesAFail.
Carried(w)      == Carries(w, result[w.from])
CarriedAFail(w) == Carried(w) /\ "fail" \in w.on \intersect result[w.from].taken

Waiting    == {n \in Nodes : result[n].status = "waiting"}
Settled(n) == result[n].status \notin {"none", "waiting"}
Calling    == {n \in Nodes : task[n] # "none"}
Pending    == {n \in Nodes : result[n].status = "none" /\ task[n] = "none"}

\* RunStatus.IsFinished.
Finished(status) == status \notin {"none", "running", "waiting", "trying"}

\* AnswerReachingNoWire: the answer would end the run short of its Output node.
ReachesNoWire(n, r) == /\ \A w \in WiresOutOf(n) : ~Carries(w, r)
                       /\ \/ r.status = "failed"
                          \/ r.status \in {"succeeded", "partial"} /\ n # dag.output

\* SetNodeRunStatusAsync relates a node run to its run only in the write it takes for the
\* first: where that write failed, no later one makes the run have the node run.
Unrelated(n) == n \in created /\ record[n].status = "none"

\* PersistStatusAsync of the nodes in ns, then SetRunStatusAsync where the status changes:
\* each write is tried once, and may fail unheard (BestEffort), as other steps beside it may.
WriteBeside(failed, ns, res, status) ==
    \E failing \in SUBSET ns, refused \in {FALSE, status # runStatus} :
       /\ lost' = lost + failed + Cardinality(failing) + (IF refused THEN 1 ELSE 0)
       /\ lost' <= MaxLost
       /\ record' = [n \in Nodes |-> IF n \in ns \ failing /\ ~Unrelated(n) THEN res[n]
                                     ELSE record[n]]
       /\ created' = created \union ns
       /\ runStatus' = IF refused THEN runStatus ELSE status

Write(ns, res, status) == WriteBeside(0, ns, res, status)

\* What the sweep writes goes with the token of its caller: once that has left, nothing
\* arrives, though the gateway has already taken its first write of a node for made.
WriteNothing(ns) == created' = created \union ns /\ UNCHANGED <<record, runStatus, lost>>

Persist(ns, res, status) == IF caller = "left" THEN WriteNothing(ns) ELSE Write(ns, res, status)

\* The run is recorded and its sweep begins (RunAsync).
Init == /\ dag \in Drawings
        /\ rehearsal \in BOOLEAN
        /\ pc = "looking"
        /\ result = [n \in Nodes |-> Bare("none")]
        /\ holding = {}
        /\ halted = FALSE /\ unhandled = FALSE /\ stopped = FALSE
        /\ task = [n \in Nodes |-> "none"]
        /\ answer = [n \in Nodes |-> Bare("none")]
        /\ calls = [n \in Nodes |-> 0]
        /\ stopAsked = FALSE /\ stopping = FALSE
        /\ caller \in {"here", "none"}
        /\ record = [n \in Nodes |-> Bare("none")]
        /\ created = {}
        /\ runStatus = "running"
        /\ vigil = [n \in Nodes |-> "none"]
        /\ lost = 0 /\ revived = FALSE
-----------------------------------------------------------------------------
\* The top of the loop.  A stop is seen here, and the Output node, which calls nothing,
\* is no reason to end a run as stopped.
SeesStop == stopAsked /\ \E n \in Pending : n # dag.output

SeeStop == /\ pc = "looking"
           /\ ~halted /\ ~stopped
           /\ SeesStop
           /\ stopped' = TRUE
           /\ pc' = "draining"
           /\ UNCHANGED <<run, result, holding, halted, unhandled, tasks, others, broker, revived>>

Ready    == {n \in Pending : \A w \in WiresInto(n) : Settled(w.from)}
NotTaken == {n \in Ready : WiresInto(n) # {} /\ \A w \in WiresInto(n) : ~Carried(w)}

\* One time round the loop: of the ready nodes, those no wire carried into are recorded not
\* taken and the others started; the sweep looks again, waits for an answer, or is through.
LookAt(ready, notTaken, settling) ==
    LET starting == ready \ notTaken
    IN  /\ pc = "looking"
        /\ ~halted /\ ~stopped /\ ~SeesStop
        /\ result' = [n \in Nodes |-> IF n \in settling THEN Bare("notTaken") ELSE result[n]]
        /\ task' = [n \in Nodes |-> IF n \in starting THEN "queued" ELSE task[n]]
        /\ Persist(notTaken, [n \in Nodes |-> Bare("notTaken")], runStatus)
        /\ pc' = IF notTaken # {} THEN "looking"
                 ELSE IF Calling \union starting = {} THEN "draining" ELSE "taking"
        /\ UNCHANGED <<run, locals, answer, calls, others, vigil, revived>>

LookReadyOnAny == LookAt({n \in Pending : WiresInto(n) = {} \/ \E w \in WiresInto(n) : Settled(w.from)},
                         NotTaken, NotTaken)
LookUnsettling == LookAt(Ready, NotTaken, {})

Look == LookAt(Ready, NotTaken, NotTaken)

StopLooking == /\ pc = "looking"
               /\ halted \/ stopped
               /\ pc' = "draining"
               /\ UNCHANGED <<run, result, locals, tasks, others, broker, revived>>

\* TakeTheNextAnswerAsync and TakeAsync: an answer is settled, or waits; one no wire
\* carries on from, or a node a rehearsal cannot rehearse, halts the sweep.
TakeAs(n, r, lone) ==
    /\ pc \in {"taking", "draining"}
    /\ task[n] = "answered"
    /\ task' = [task EXCEPT ![n] = "none"]
    /\ result' = [result EXCEPT ![n] = r]
    /\ halted' = (halted \/ lone \/ r.status = "cannotRehearse")
    /\ unhandled' = (unhandled \/ lone)
    /\ stopped' = (stopped \/ (r.status = "cancelled" /\ stopAsked))
    /\ Persist({n}, result', runStatus)
    /\ pc' = IF pc = "taking" THEN "looking" ELSE pc
    /\ UNCHANGED <<run, holding, answer, calls, others, vigil, revived>>

TakeUnheard(n) == TakeAs(n, answer[n], FALSE)

Take(n) == TakeAs(n, answer[n], ReachesNoWire(n, answer[n]))

\* The answer awaited is an exception: the caller's token was cancelled at the gate.
TakeThrown(n) == /\ pc \in {"taking", "draining"}
                 /\ task[n] = "threw"
                 /\ task' = [task EXCEPT ![n] = "none"]
                 /\ pc' = "throwing"
                 /\ UNCHANGED <<run, result, locals, answer, calls, others, broker, revived>>

\* The catch block waits for the other tasks before the exception goes on, and SweepAsync
\* drops the entry of _stops.
Throw == /\ pc = "throwing"
         /\ \A n \in Nodes : task[n] \in {"none", "answered", "threw"}
         /\ task' = [n \in Nodes |-> "none"]
         /\ stopAsked' = FALSE
         /\ pc' = "thrown"
         /\ UNCHANGED <<run, result, locals, answer, calls, stopping, caller, broker, revived>>

DrainEnds == /\ pc = "draining"
             /\ Calling = {}
             /\ pc' = IF ~halted /\ ~stopped /\ Waiting # {} THEN "writing" ELSE "closing"
             /\ UNCHANGED <<run, result, locals, tasks, others, broker, revived>>
-----------------------------------------------------------------------------
\* A started node: RunNodeGuardedAsync and what it calls.  A place at the gate is taken, the
\* node run marked running, and a node with a retry policy looks for a stop before it calls.
InAPlace == {n \in Nodes : task[n] \in {"between", "calling"}}

\* How often a node may call: RetryPolicy.Attempts, or once.
Budget(n) == IF n \in dag.retried THEN MaxAttempts ELSE 1

\* AttemptAsync is reached, and the node carries a retry policy.
Tries(n) == n \in dag.retried /\ (rehearsal => n \in dag.rehearses \ dag.waits)

EnterGate(n) ==
    /\ task[n] = "queued"
    /\ caller # "left"
    /\ Cardinality(InAPlace) < MaxConcurrency
    /\ task' = [task EXCEPT ![n] = IF Tries(n) THEN "between" ELSE "calling"]
    /\ calls' = [calls EXCEPT ![n] = IF Tries(n) THEN @ ELSE @ + 1]
    /\ Persist({n}, [m \in Nodes |-> Bare("running")], runStatus)
    /\ UNCHANGED <<run, pc, result, locals, answer, others, vigil, revived>>

\* gate.WaitAsync throws for a token that is cancelled.
LoseTheGate(n) == /\ task[n] = "queued"
                  /\ caller = "left"
                  /\ task' = [task EXCEPT ![n] = "threw"]
                  /\ UNCHANGED <<run, pc, result, locals, answer, calls, others, broker, revived>>

\* AttemptAsync between attempts: a stop ends the node without another call.
StartAttempt(n) ==
    /\ task[n] = "between"
    /\ IF stopAsked
       THEN /\ task' = [task EXCEPT ![n] = "answered"]
            /\ answer' = [answer EXCEPT ![n] = Bare("cancelled")]
            /\ UNCHANGED calls
       ELSE /\ task' = [task EXCEPT ![n] = "calling"]
            /\ calls' = [calls EXCEPT ![n] = @ + 1]
            /\ UNCHANGED answer
    /\ UNCHANGED <<run, pc, result, locals, others, broker, revived>>

\* A call that never reached its service, with attempts and trying time left.
PauseAttempts(n) ==
    /\ task[n] = "calling"
    /\ Tries(n)
    /\ calls[n] < MaxAttempts
    /\ task' = [task EXCEPT ![n] = "between"]
    /\ Persist({n}, [m \in Nodes |-> Bare("trying")], runStatus)
    /\ UNCHANGED <<run, pc, result, locals, answer, calls, others, vigil, revived>>

\* NodeChoices.Choose: a success is taken on a choice of the node, if it has choices.
TakenOn(n)   == IF dag.choices[n] = {} THEN {"success"} ELSE dag.choices[n]
Succeeded(n) == {[status |-> "succeeded", taken |-> {o}] : o \in TakenOn(n)}

\* RunFanOutAsync: each item succeeds along a choice or fails, or a stop starts no more.
AnswersOfItems(n) ==
    {[status |-> IF "fail" \notin o THEN "succeeded"
                 ELSE IF o = {"fail"} \/ n \notin dag.goOn THEN "failed" ELSE "partial",
      taken |-> IF "fail" \in o /\ n \notin dag.goOn THEN {"fail"} ELSE o]
        : o \in SUBSET (TakenOn(n) \union {"fail"})}
    \union {r \in [status : {"cancelled"}, taken : SUBSET (TakenOn(n) \union {"fail"})] : stopAsked}

\* RunNodeAsync: what a node may answer, by its kind.
Answers(n) ==
    IF n = dag.output \/ n \in dag.inputs THEN {[status |-> "succeeded", taken |-> {"success"}]}
    ELSE {Failed} \union
         IF n \in dag.acts
         THEN {[status |-> IF rehearsal THEN "rehearsed" ELSE "succeeded", taken |-> {"success"}]}
         ELSE IF rehearsal /\ (n \in dag.waits \/ n \notin dag.rehearses)
         THEN {Bare("cannotRehearse")}
         ELSE IF n \in dag.perItem THEN AnswersOfItems(n)
         ELSE IF n \in dag.waits THEN {[r EXCEPT !.status = "waiting"] : r \in Succeeded(n)}
         ELSE Succeeded(n)

Answer(n) == /\ task[n] = "calling"
             /\ \E r \in Answers(n) : answer' = [answer EXCEPT ![n] = r]
             /\ task' = [task EXCEPT ![n] = "answered"]
             /\ UNCHANGED <<run, pc, result, locals, calls, others, broker, revived>>
-----------------------------------------------------------------------------
\* HoldAsync, its first half.  What the record misses is written again, without the decision
\* of a node that ran once; where the record still misses it the node fails.
Unrecorded(rec) == {n \in Nodes : result[n].status # "none" /\ rec[n].status # result[n].status}

Undecided(n) == IF n \in dag.perItem \/ result[n].taken \intersect Choices = {} THEN result[n]
                ELSE [result[n] EXCEPT !.taken = {"success"}]

\* The record is read before and after; a read that fails tells of nothing recorded.
WriteRecordChecking(Missed(_)) ==
    /\ pc = "writing"
    /\ \E unread, unreadAfter \in IF caller = "left" THEN {TRUE} ELSE BOOLEAN :
          LET known   == {n \in Nodes : result[n].status # "none"}
              written == [n \in Nodes |-> Undecided(n)]
              missed  == IF unreadAfter THEN known ELSE Missed(record')
          IN  /\ IF caller = "left" THEN WriteNothing(known)
                 ELSE WriteBeside((IF unread THEN 1 ELSE 0) + (IF unreadAfter THEN 1 ELSE 0),
                                  IF unread THEN known ELSE Unrecorded(record), written, runStatus)
              /\ result' = [n \in Nodes |-> IF n \in missed THEN Failed ELSE result[n]]
              /\ pc' = IF missed = {} THEN "placing" ELSE "failing"
    /\ UNCHANGED <<run, locals, tasks, others, vigil, revived>>

WriteRecordUnchecked == WriteRecordChecking(LAMBDA rec : {})

WriteRecordAgain == WriteRecordChecking(Unrecorded)

\* HoldAsync, its second half: PlaceAsync of a waiting node without a vigil, which the
\* platform places or refuses.
PlaceOr(n, refused) ==
    /\ pc = "placing"
    /\ n \in Waiting \ holding
    /\ \/ /\ caller # "left"
          /\ vigil' = [vigil EXCEPT ![n] = "live"]
          /\ holding' = holding \union {n}
          /\ UNCHANGED <<result, unhandled>>
       \/ /\ result' = [result EXCEPT ![n] = IF refused THEN Failed ELSE @]
          /\ holding' = IF refused THEN holding ELSE holding \union {n}
          /\ unhandled' = (unhandled \/ refused)
          /\ UNCHANGED vigil
    /\ UNCHANGED <<run, pc, halted, stopped, tasks, others, writes, revived>>

PlaceUnheard(n) == PlaceOr(n, FALSE)

Place(n) == PlaceOr(n, TRUE)

\* Every wait is held, and the run waits; or one is not, and the run is to end.
HoldEnds ==
    /\ pc = "placing"
    /\ Waiting \subseteq holding
    /\ IF unhandled
       THEN /\ pc' = "failing"
            /\ UNCHANGED <<stopAsked, broker>>
       ELSE /\ pc' = "waits"
            /\ Persist({}, record, "waiting")
            /\ stopAsked' = FALSE
            /\ UNCHANGED vigil
    /\ UNCHANGED <<run, result, locals, tasks, stopping, caller, revived>>

FailUnheld ==
    /\ pc = "failing"
    /\ Persist({n \in Nodes : result[n].status = "failed"} \intersect Unrecorded(record),
               result, runStatus)
    /\ halted' = TRUE
    /\ unhandled' = TRUE
    /\ pc' = "closing"
    /\ UNCHANGED <<run, result, holding, stopped, tasks, others, vigil, revived>>

\* OutputVerdict.Judge: a rule may say anything; without one a fail wire that reached the
\* Output node fails the run.
Verdicts == IF dag.ruled THEN BOOLEAN
            ELSE {\A w \in WiresInto(dag.output) : ~CarriedAFail(w)}

StatusJudged(passes) ==
    IF stopped        THEN "cancelled"
    ELSE IF unhandled THEN "failed"
    ELSE IF \E n \in Nodes : result[n].status = "cannotRehearse" THEN "cannotRehearse"
    ELSE IF ~passes   THEN "failed"
    ELSE IF rehearsal THEN "rehearsed" ELSE "succeeded"

\* The end of the sweep: what was not reached is recorded, and the run's status is judged.
CloseRecording(unreached) ==
    /\ pc = "closing"
    /\ result' = [n \in Nodes |-> IF n \notin unreached THEN result[n]
                                  ELSE Bare(IF stopped THEN "cancelled" ELSE "skipped")]
    /\ \E passes \in Verdicts : Persist(unreached, result', StatusJudged(passes))
    /\ stopAsked' = FALSE
    /\ pc' = "ended"
    /\ UNCHANGED <<run, locals, tasks, stopping, caller, vigil, revived>>

CloseForgettingAll == CloseRecording({})

Close == CloseRecording({n \in Nodes : ~Settled(n)})
-----------------------------------------------------------------------------
\* The caller of a synchronous run goes away: HttpContext.RequestAborted.
CallerLeaves == /\ caller = "here"
                /\ pc \notin {"waits", "ended", "thrown"}
                /\ caller' = "left"
                /\ UNCHANGED <<run, pc, result, locals, tasks, stopAsked, stopping, broker, revived>>

\* StopAsync: the run's entry of _stops has the request, and the ending half waits for the
\* run's turn.
AskStop == /\ ~stopping
           /\ stopping' = TRUE
           /\ stopAsked' = TRUE
           /\ UNCHANGED <<run, pc, result, locals, tasks, caller, broker, revived>>

TurnIsFree == pc \in {"waits", "ended", "thrown"}

\* EndUnlessItsSweepDoesAsync and EndStoppedRunAsync: a run not finished has its vigils
\* retired, its nodes not finished and itself recorded stopped.
EndStoppedUnless(finished) ==
    /\ stopping
    /\ TurnIsFree
    /\ stopping' = FALSE
    /\ stopAsked' = FALSE
    /\ IF finished THEN UNCHANGED <<pc, broker>>
       ELSE /\ \E kept \in SUBSET {n \in Nodes : record[n].status = "waiting" /\ vigil[n] = "live"} :
                  /\ vigil' = [n \in Nodes |-> IF /\ record[n].status = "waiting"
                                                  /\ vigil[n] = "live" /\ n \notin kept
                                               THEN "gone" ELSE vigil[n]]
                  /\ WriteBeside(Cardinality(kept), {n \in Nodes : ~Finished(record[n].status)},
                                 [n \in Nodes |-> Bare("cancelled")], "cancelled")
            /\ pc' = "ended"
    /\ UNCHANGED <<run, result, locals, tasks, caller, revived>>

EndStoppedAnyhow      == EndStoppedUnless(FALSE)
EndStoppedIfNotWaiting == EndStoppedUnless(runStatus # "running")

EndStopped == EndStoppedUnless(Finished(runStatus))

\* The platform answers a vigil, retires it and tells: a resume waits for the turn.
VigilIsAnswered(n) == /\ vigil[n] = "live"
                      /\ vigil' = [vigil EXCEPT ![n] = "answered"]
                      /\ UNCHANGED <<run, pc, result, locals, tasks, others, writes, revived>>

\* The nodes in ns and what wires reach from them: the least set with them no wire leads out of.
NoWireLeaves(ns) == \A w \in dag.wires : w.from \in ns => w.to \in ns

Downstream(ns) == {n \in Nodes : \A reached \in SUBSET Nodes :
                                     ns \subseteq reached /\ NoWireLeaves(reached) => n \in reached}

\* ProgressFrom: the nodes whose record says they were calling, which may not be called again;
\* the nodes the record has nothing of, though nothing before them is under way.

UnderWay == {n \in Nodes : record[n].status \in {"running", "trying", "waiting"}}
Caught   == {n \in Nodes : record[n].status = "running"} \ (dag.inputs \union {dag.output})
Missing  == {n \in Nodes : record[n].status = "none"} \ Downstream(UnderWay)

\* ResumeAsync, for the vigil of node n: where the record says it waits, progress is read
\* from the record, the node succeeds with what it answered before, and a sweep carries on.
ResumeFrom(n, rec, waits) ==
    /\ vigil[n] = "answered"
    /\ TurnIsFree
    /\ vigil' = [vigil EXCEPT ![n] = "gone"]
    /\ IF record[n].status # "waiting"
       THEN UNCHANGED <<pc, result, locals, caller, writes, revived>>
       ELSE IF Missing \union Caught # {}
       THEN /\ pc' = "ended"
            /\ Write({}, record, "failed")
            /\ UNCHANGED <<result, locals, caller, revived>>
       ELSE /\ pc' = "looking"
            /\ result' = rec
            /\ holding' = waits
            /\ halted' = FALSE /\ unhandled' = FALSE /\ stopped' = FALSE
            /\ caller' = IF caller \in {"left", "gone"} THEN "gone" ELSE "none"
            /\ Write({n}, rec, "running")
            /\ revived' = (revived \/ (pc = "ended" /\ caller # "left"))
    /\ UNCHANGED <<run, tasks, stopAsked, stopping>>

\* Progress.Results and Waiting: a node under way and not waiting is to be taken up again.
Progress == [m \in Nodes |-> IF record[m].status \in {"running", "trying"} THEN Bare("none")
                             ELSE record[m]]

ResumeCallingWaitsAgain(n) ==
    ResumeFrom(n, [m \in Nodes |-> IF m = n THEN [record[n] EXCEPT !.status = "succeeded"]
                                   ELSE IF record[m].status = "waiting" THEN Bare("none")
                                   ELSE Progress[m]], {})

Resume(n) == ResumeFrom(n, [Progress EXCEPT ![n].status = "succeeded"],
                        {m \in Nodes \ {n} : record[m].status = "waiting"})
-----------------------------------------------------------------------------
SweepStep == \/ SeeStop \/ Look \/ StopLooking
             \/ \E n \in Nodes : Take(n) \/ TakeThrown(n)
             \/ Throw \/ DrainEnds
             \/ WriteRecordAgain
             \/ \E n \in Nodes : Place(n)
             \/ HoldEnds \/ FailUnheld \/ Close

TaskStep(n) == \/ EnterGate(n) \/ LoseTheGate(n) \/ StartAttempt(n)
               \/ PauseAttempts(n) \/ Answer(n)

Next == \/ SweepStep
        \/ \E n \in Nodes : TaskStep(n) \/ VigilIsAnswered(n) \/ Resume(n)
        \/ CallerLeaves \/ AskStop \/ EndStopped

Spec == Init /\ [][Next]_vars

\* The sweep and its tasks go on by themselves: a call of a service answers or times out
\* (the gateway's client gives each call a time), the gate lets its waiters in in order, and
\* a stop waiting for the turn has it once the sweep is over (RunTurns).  Nobody promises
\* that a vigil is ever answered, that a caller leaves, or that a stop is asked.
Fairness == /\ WF_vars(SweepStep)
            /\ \A n \in Nodes : WF_vars(TaskStep(n))
            /\ WF_vars(EndStopped)

FairSpec == Spec /\ Fairness
-----------------------------------------------------------------------------
\* A node is started only once every node before it is settled and a wire carried into it:
\* a join runs once, from the paths that carried, however answers and stops interleave
\* ("A node every wire into which carried nothing is recorded notTaken and never called",
\* docs/SERVICES.md:1410).
CalledInOrder ==
    \A n \in Calling : /\ \A w \in WiresInto(n) : Settled(w.from)
                       /\ WiresInto(n) = {} \/ \E w \in WiresInto(n) : Carried(w)

\* A service is called once in a run, or as often as its retry policy allows, over every
\* wait and resume of the run, whatever writes fail ("Nothing is called a second time",
\* PipelineExecutor.cs:137), unless the writes of the run's end were lost and a vigil's
\* answer took it up again.
CallsWithinPolicy == ~revived => \A n \in Nodes : calls[n] <= Budget(n)

\* The gate's places bound the calls under way at once (PipelineExecutor.cs:21).
PlacesAreKept == Cardinality(InAPlace) <= MaxConcurrency

\* No best-effort write failed, and the run's caller, if any, is still there.
Undisturbed == lost = 0 /\ caller \in {"here", "none"}

\* Where nothing disturbed it, a run recorded succeeded left no node out of its paths, and
\* each failure in it was carried on by a fail wire, and by none into an Output node without
\* a rule (docs/SERVICES.md:1251, 1418-1425).
SuccessIsEarned ==
    pc = "ended" /\ Undisturbed /\ runStatus \in {"succeeded", "rehearsed"} =>
        /\ \A n \in Nodes : result[n].status \in {"succeeded", "partial", "failed",
                                                  "rehearsed", "notTaken"}
        /\ \A n \in Nodes : result[n].status = "failed" => \E w \in WiresOutOf(n) : Carried(w)
        /\ dag.ruled \/ \A w \in WiresInto(dag.output) : ~CarriedAFail(w)

\* Where no write failed and the caller stayed, a run that ended is recorded finished with
\* every node of its drawing accounted for (docs/SERVICES.md:1411-1416).
EndIsRecorded ==
    pc = "ended" /\ Undisturbed =>
        Finished(runStatus) /\ \A n \in Nodes : Finished(record[n].status)

\* A run that waits is recorded as it stands, whichever writes failed on the way: it could
\* not be resumed from a record that misses a node (PipelineExecutor.cs:727-729).
WaitIsRecorded ==
    pc = "waits" => \A n \in Nodes : result[n].status # "none" =>
                                         record[n].status = result[n].status

\* Where nothing disturbed it, a run that waits has a vigil for each of its waits, over every
\* resume that left others waiting: nothing waits for an answer nobody will give.
WaitsHaveVigils ==
    pc = "waits" /\ Undisturbed => \A n \in Waiting : vigil[n] \in {"live", "answered"}

\* A finished run is left as it ended, whoever comes to stop or resume it
\* (StoppingRunsTests.cs:189, WaitingRunTests.cs:205).
FinishedIsFinal == [][Finished(runStatus) /\ lost = 0 => runStatus' = runStatus]_vars

\* Every sweep ends: it waits for states, ends the run, or throws.
SweepEnds == pc = "looking" ~> TurnIsFree

\* A stop is never lost: asked for at any moment, before, in or after a sweep, while the run
\* waits or is taken up again, it finds the run finished or finishes it, unless the write
\* that says so failed (docs/SERVICES.md:1426-1432).
StopIsHeard == stopping ~> Finished(runStatus) \/ lost > 0
=============================================================================
