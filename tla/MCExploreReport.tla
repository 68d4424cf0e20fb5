--------------------------- MODULE MCExploreReport ---------------------------
EXTENDS ExploreReport, FiniteSetsExt, TLC

\* Pins and addresses are alike.
Alike == Permutations(Positions) \union Permutations(Addresses)

One(b) == IF b THEN 1 ELSE 0

\* What waits for an answer: of the service, of the register, of the device.
InFlight ==
  Len(posts) + Len(reads) + MapThenSumSet(LAMBDA p : fetches[p], Positions)
    + One(locating) + One(act.step \notin {"idle", "read"})

\* Three requests in flight let any two cross beside a third; one code is out at a time.
FewInFlight == InFlight <= 3 /\ Cardinality(mailed) <= 1
=============================================================================
