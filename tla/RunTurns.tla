------------------------------ MODULE RunTurns ------------------------------
(***************************************************************************)
(* Execution/RunTurns.cs of vos.Service.Phloem: the turns a task takes     *)
(* before it touches a run.  A dictionary holds, for each run somebody     *)
(* holds or waits for, a gate (a SemaphoreSlim of one permit) and the      *)
(* number of its takers; the entry is made by the first taker and dropped  *)
(* by the last one to leave, so a gate is a fresh object each time.        *)
(*                                                                         *)
(* A step is one critical section of lock (_turns), one operation of the   *)
(* gate, or the cancellation of a wait: everything between two of these    *)
(* runs on the task alone.  The gate is the framework's: it hands a permit *)
(* that is released straight to a waiting task; which one is left open.    *)
(* The variants of an action that stand before it carry a plausible bug    *)
(* each; no specification uses them, the properties refute them.           *)
(***************************************************************************)
EXTENDS Integers, FiniteSets

CONSTANTS Runs,   \* run ids
          Tasks,  \* the tasks that take turns
          Gates,  \* identities of gate objects; one is used again once nothing refers to it
          NoGate, \* no entry, no gate
          NoRun   \* an idle task works on no run

ASSUME RunTurnsAssumption == /\ IsFiniteSet(Tasks)
                             /\ NoGate \notin Gates
                             /\ NoRun \notin Runs

VARIABLES gateOf, \* gateOf[r]: the gate in the entry of run r, NoGate without an entry
          takers, \* takers[r]: the count in the entry of run r, 0 without an entry
          permits, \* permits[g]: the permits left in gate g
          stage,  \* what each task is doing
          run,    \* the run each task took or asks the turn of
          gate    \* the gate each task keeps in its local variable or its Turn

turnVars == <<gateOf, takers, permits, stage, run, gate>>

Stages == {"idle", "asking", "queued", "holding", "leaving"}

TurnsTypeOK == /\ gateOf \in [Runs -> Gates \union {NoGate}]
               /\ takers \in [Runs -> Nat]
               /\ permits \in [Gates -> Nat]
               /\ stage \in [Tasks -> Stages]
               /\ run \in [Tasks -> Runs \union {NoRun}]
               /\ gate \in [Tasks -> Gates \union {NoGate}]
-----------------------------------------------------------------------------
TurnsInit == /\ gateOf = [r \in Runs |-> NoGate]
             /\ takers = [r \in Runs |-> 0]
             /\ permits = [g \in Gates |-> 0]
             /\ stage = [t \in Tasks |-> "idle"]
             /\ run = [t \in Tasks |-> NoRun]
             /\ gate = [t \in Tasks |-> NoGate]

Unreferenced(g) == /\ \A r \in Runs : gateOf[r] # g
                   /\ \A t \in Tasks : gate[t] # g

\* The lock of TakeAsync: the entry's gate, or a new one, and one taker more.
EnterWith(t, r, initially) ==
    /\ stage[t] = "idle"
    /\ \E g \in Gates :
          /\ \/ /\ gateOf[r] = g
                /\ UNCHANGED permits
             \/ /\ gateOf[r] = NoGate
                /\ Unreferenced(g)
                /\ permits' = [permits EXCEPT ![g] = initially]
          /\ gateOf' = [gateOf EXCEPT ![r] = g]
          /\ gate' = [gate EXCEPT ![t] = g]
    /\ takers' = [takers EXCEPT ![r] = @ + 1]
    /\ run' = [run EXCEPT ![t] = r]
    /\ stage' = [stage EXCEPT ![t] = "asking"]

EnterOpenToTwo(t, r) == EnterWith(t, r, 2)
EnterShut(t, r)      == EnterWith(t, r, 0)

\* TakeAsync, its lock: a new gate is a SemaphoreSlim(1, 1).
Enter(t, r) == EnterWith(t, r, 1)

\* gate.WaitAsync finds a permit.
Acquire(t) ==
    /\ stage[t] = "asking"
    /\ permits[gate[t]] > 0
    /\ permits' = [permits EXCEPT ![gate[t]] = @ - 1]
    /\ stage' = [stage EXCEPT ![t] = "holding"]
    /\ UNCHANGED <<gateOf, takers, run, gate>>

\* gate.WaitAsync finds none and waits.
Queue(t) ==
    /\ stage[t] = "asking"
    /\ permits[gate[t]] = 0
    /\ stage' = [stage EXCEPT ![t] = "queued"]
    /\ UNCHANGED <<gateOf, takers, permits, run, gate>>

\* gate.WaitAsync throws, its token cancelled: the catch block leaves.
Abandon(t) ==
    /\ stage[t] \in {"asking", "queued"}
    /\ stage' = [stage EXCEPT ![t] = "leaving"]
    /\ UNCHANGED <<gateOf, takers, permits, run, gate>>

ReleaseUnheard(t) ==
    /\ stage[t] = "holding"
    /\ permits' = [permits EXCEPT ![gate[t]] = @ + 1]
    /\ stage' = [stage EXCEPT ![t] = "leaving"]
    /\ UNCHANGED <<gateOf, takers, run, gate>>

\* Turn.Dispose, its first line, with nobody waiting at the gate.
Release(t) ==
    /\ stage[t] = "holding"
    /\ \A u \in Tasks : ~(stage[u] = "queued" /\ gate[u] = gate[t])
    /\ permits' = [permits EXCEPT ![gate[t]] = @ + 1]
    /\ stage' = [stage EXCEPT ![t] = "leaving"]
    /\ UNCHANGED <<gateOf, takers, run, gate>>

\* Turn.Dispose, its first line, with a task waiting: the gate lets it in.
HandOver(t, u) ==
    /\ stage[t] = "holding"
    /\ stage[u] = "queued"
    /\ gate[u] = gate[t]
    /\ stage' = [stage EXCEPT ![t] = "leaving", ![u] = "holding"]
    /\ UNCHANGED <<gateOf, takers, permits, run, gate>>

\* The lock of Leave: one taker less, and no entry left when the condition says so.
LeaveDroppingIf(t, last) ==
    /\ stage[t] = "leaving"
    /\ gateOf' = [gateOf EXCEPT ![run[t]] = IF last THEN NoGate ELSE @]
    /\ takers' = [takers EXCEPT ![run[t]] = @ - 1]
    /\ stage' = [stage EXCEPT ![t] = "idle"]
    /\ run' = [run EXCEPT ![t] = NoRun]
    /\ gate' = [gate EXCEPT ![t] = NoGate]
    /\ UNCHANGED permits

LeaveDroppingAlways(t) == LeaveDroppingIf(t, TRUE)

\* Leave, its lock: the last taker drops the entry.
Leave(t) == LeaveDroppingIf(t, takers[run[t]] = 1)

TurnsNext == \E t \in Tasks : \/ \E r \in Runs : Enter(t, r)
                              \/ Acquire(t)
                              \/ Queue(t)
                              \/ Abandon(t)
                              \/ Release(t)
                              \/ \E u \in Tasks : HandOver(t, u)
                              \/ Leave(t)

TurnsSpec == TurnsInit /\ [][TurnsNext]_turnVars

\* A task at the gate, done with its turn or leaving goes on by itself.  A sweep ends
\* (PipelineSweep), so a turn is given back; the gate serves its waiters in the order
\* they came, so one of them is not passed over for ever.
TurnsFairness == \A t \in Tasks : /\ WF_turnVars(Acquire(t) \/ Queue(t))
                                  /\ WF_turnVars(Release(t) \/ \E u \in Tasks : HandOver(t, u))
                                  /\ WF_turnVars(Leave(t))
                                  /\ SF_turnVars(\E u \in Tasks : HandOver(u, t))

FairTurnsSpec == TurnsSpec /\ TurnsFairness
-----------------------------------------------------------------------------
TakersOf(r) == {t \in Tasks : stage[t] # "idle" /\ run[t] = r}

Holds(t, r) == stage[t] = "holding" /\ run[t] = r

\* Two tasks never hold the turn of one run, however often its entry is dropped and made
\* anew while others ask, give up and leave: a sweep and a resume, a stop or a recovery of
\* the same run never overlap (RunTurns.cs:3).
MutualExclusion ==
    \A r \in Runs : \A t, u \in Tasks : Holds(t, r) /\ Holds(u, r) => t = u

\* Every task that holds, waits for or is still leaving a turn has the gate the entry has:
\* an entry dropped and made anew under a taker would split the takers over two gates.
OneGatePerRun ==
    \A t \in Tasks : stage[t] # "idle" => gate[t] = gateOf[run[t]] /\ gate[t] # NoGate

\* "A run's entry is dropped once nobody holds or waits for its turn" (RunTurns.cs:4), and
\* not before: the count is the number of takers, so a run leaves nothing behind.
EntryWhileTaken ==
    \A r \in Runs : /\ takers[r] = Cardinality(TakersOf(r))
                    /\ gateOf[r] = NoGate <=> TakersOf(r) = {}

\* A gate somebody waits at has a holder that will let one in, and its permit is never
\* given back twice (SemaphoreSlim(1, 1) throws past its limit).
NoLostTurn ==
    /\ \A t \in Tasks : stage[t] = "queued" =>
          \E u \in Tasks : stage[u] = "holding" /\ gate[u] = gate[t]
    /\ \A t \in Tasks : stage[t] = "holding" => permits[gate[t]] = 0

\* A task that asks for a turn has it, or gave up, in the end.
AskedTurnComes ==
    \A t \in Tasks : stage[t] = "asking" ~> stage[t] \in {"holding", "leaving"}

\* The entries, counts and gates implement one turn per run.
Asked   == [r \in Runs |-> {t \in Tasks : stage[t] \in {"asking", "queued"} /\ run[t] = r}]
Holders == [r \in Runs |-> {t \in Tasks : Holds(t, r)}]

Promise == INSTANCE TurnPerRun WITH asked <- Asked, holders <- Holders

\* What the executor relies on when it takes a turn (RunTurns.cs:3).
ImplementsTurnPerRun == Promise!Spec
=============================================================================
