--------------------------- MODULE CadenceSchedule ---------------------------
(***************************************************************************)
(* Model/CadenceSchedule.cs of vos.Service.Phloem: the instants a cadence  *)
(* is due at, given the instant it was last due, the model's clock and the *)
(* instant from which the keeper's looks have covered it.  Instants and    *)
(* intervals are integers of one unit; the answer, a list in increasing    *)
(* order without repetition, is a set.                                     *)
(***************************************************************************)
EXTENDS Integers

CONSTANT Never \* no instant: a cadence that was not due yet

ASSUME NeverAssumption == Never \notin Int

Cadence == [interval : Int, lastDue : Int \union {Never}]

Larger(m, n)  == IF m > n THEN m ELSE n
Smaller(m, n) == IF m < n THEN m ELSE n

\* How many whole intervals lie between the last due instant and t.
StepsTo(c, t) == (t - c.lastDue) \div c.interval

EarliestCovered(c, coveredFrom) == Larger(1, StepsTo(c, coveredFrom) + 1)

DueFrom(c, now, earliest) ==
    IF c.interval <= 0 THEN {}
    ELSE IF c.lastDue = Never THEN {now}
    ELSE IF c.lastDue > now THEN {now}
    ELSE {c.lastDue + step * c.interval :
             step \in IF StepsTo(c, now) < 1 THEN {}
                      ELSE Smaller(earliest, StepsTo(c, now)) .. StepsTo(c, now)}

DueAtBoth(c, now, coveredFrom) == \* the interval that ends the covered time, too
    DueFrom(c, now, Larger(1, StepsTo(c, coveredFrom)))

\* What a look that reaches now takes up: each instant in the covered time, or the latest of those before it.
DueAt(c, now, coveredFrom) == DueFrom(c, now, EarliestCovered(c, coveredFrom))
-----------------------------------------------------------------------------
\* An instant a whole number of intervals after the last due one, reached by now.
Missed(c, t, now) == /\ c.lastDue < t
                     /\ t <= now
                     /\ (t - c.lastDue) % c.interval = 0

\* The same, by what it is for: of the instants missed, those in the covered time and the latest.
TakenUp(c, now, coveredFrom) ==
    {t \in c.lastDue .. now : /\ Missed(c, t, now)
                              /\ \/ t > coveredFrom
                                 \/ t + c.interval > now}
=============================================================================
