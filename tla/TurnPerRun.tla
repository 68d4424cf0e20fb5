----------------------------- MODULE TurnPerRun -----------------------------
(***************************************************************************)
(* What Execution/RunTurns.cs promises to the pipeline executor: a run has *)
(* one turn, a task that asked for it holds it alone, and a task may give  *)
(* up asking.  Nothing here says how: no entries, no counts, no gates.     *)
(* RunTurns implements this module.                                        *)
(***************************************************************************)

CONSTANTS Runs,   \* the runs whose turn may be asked for
          Tasks   \* the tasks that ask: sweeps, resumes, stops, recoveries

VARIABLES asked,  \* asked[r]: the tasks waiting for the turn of run r
          holders \* holders[r]: the tasks that hold the turn of run r

vars == <<asked, holders>>

Busy(t) == \E r \in Runs : t \in asked[r] \union holders[r]

Init == /\ asked = [r \in Runs |-> {}]
        /\ holders = [r \in Runs |-> {}]

Ask(t, r) == /\ ~Busy(t)
             /\ asked' = [asked EXCEPT ![r] = @ \union {t}]
             /\ UNCHANGED holders

Take(t, r) == /\ t \in asked[r]
              /\ holders[r] = {}
              /\ asked' = [asked EXCEPT ![r] = @ \ {t}]
              /\ holders' = [holders EXCEPT ![r] = {t}]

GiveUp(t, r) == /\ t \in asked[r]
                /\ asked' = [asked EXCEPT ![r] = @ \ {t}]
                /\ UNCHANGED holders

Free(t, r) == /\ holders[r] = {t}
              /\ holders' = [holders EXCEPT ![r] = {}]
              /\ UNCHANGED asked

\* The holder ends its turn and a task that asked has it in the same moment.
HandOver(t, u, r) == /\ holders[r] = {t}
                     /\ u \in asked[r]
                     /\ holders' = [holders EXCEPT ![r] = {u}]
                     /\ asked' = [asked EXCEPT ![r] = @ \ {u}]

Next == \E r \in Runs, t \in Tasks :
           \/ Ask(t, r)
           \/ Take(t, r)
           \/ GiveUp(t, r)
           \/ Free(t, r)
           \/ \E u \in Tasks : HandOver(t, u, r)

Spec == Init /\ [][Next]_vars
=============================================================================
