--------------------------- MODULE ModelData_proof ---------------------------
(***************************************************************************)
(* Proofs about ModelData for any Things, values, states and bounds.       *)
(*                                                                         *)
(* What is held is right once nothing is on its way.  Before that it is    *)
(* right of the Things nothing more will be told of, and of what is there: *)
(* Follows says so of the store, a snapshot and a read, each through the   *)
(* changes that wait in the buffer.  A change that is heard takes one from *)
(* those on their way into the buffer, and the last of a Thing tells what  *)
(* the broker has it be.  What the buffer itself says is never wrong while *)
(* it is clean, so that a load may be laid under it.                       *)
(***************************************************************************)
EXTENDS ModelData, SequenceTheorems, TLAPS

\* The changes of q that are past n say nothing of t, or nothing but what its property became.
Silent(q, t, n) == \A i \in DOMAIN q : q[i].of = t => q[i].at <= n

Settled(q, t, n) == \A i \in DOMAIN q : q[i].of = t /\ q[i].at > n => q[i].kind = "changed"

\* Once the changes of q past n were applied to it, h is m.
Follows(h, q, m, n) == \A t \in Things : /\ Silent(q, t, n) => h[t] = m[t]
                                         /\ Settled(q, t, n) => (h[t] = Absent <=> m[t] = Absent)

\* What a buffer makes of h.
Present(u, r, h, t) == IF u[t] # Absent THEN u[t] ELSE IF t \in r THEN Absent ELSE h[t]

Through(u, r, c, h) == [t \in Things |-> IF Present(u, r, h, t) # Absent /\ c[t] # Absent THEN c[t]
                                         ELSE Present(u, r, h, t)]

\* What a Thing is after a change.
Said(event) == IF event.kind = "gone" THEN Absent ELSE event.to

\* The last change of a Thing tells what m has it be, and the last arrival or departure whether it is there.
LastOf(q, i) == \A j \in DOMAIN q : q[j].of = q[i].of => j <= i

LastMove(q, i) == /\ q[i].kind # "changed"
                  /\ \A j \in DOMAIN q : q[j].of = q[i].of /\ j > i => q[j].kind = "changed"

Tells(q, m) == \A i \in DOMAIN q : /\ LastOf(q, i) => Said(q[i]) = m[q[i].of]
                                   /\ LastMove(q, i) => (q[i].kind = "gone" <=> m[q[i].of] = Absent)

-----------------------------------------------------------------------------
LEMMA Appended ==
    ASSUME NEW q \in Seq(Events), NEW e \in Events
    PROVE  /\ Append(q, e) \in Seq(Events)
           /\ DOMAIN q = 1 .. Len(q) /\ Len(q) \in Nat
           /\ DOMAIN Append(q, e) = 1 .. Len(q) + 1
           /\ Append(q, e)[Len(q) + 1] = e
           /\ \A i \in DOMAIN q : Append(q, e)[i] = q[i] /\ i \in DOMAIN Append(q, e)
BY AppendProperties

LEMMA Taken ==
    ASSUME NEW q \in Seq(Events), q # <<>>
    PROVE  /\ Tail(q) \in Seq(Events)
           /\ Head(q) \in Events
           /\ Head(q) = q[1]
           /\ Len(q) \in Nat \ {0}
           /\ DOMAIN q = 1 .. Len(q)
           /\ DOMAIN Tail(q) = 1 .. Len(q) - 1
           /\ \A i \in DOMAIN Tail(q) : Tail(q)[i] = q[i + 1] /\ i + 1 \in DOMAIN q
           /\ \A i \in DOMAIN q \ {1} : i - 1 \in DOMAIN Tail(q) /\ q[i] = Tail(q)[i - 1]
<1>1. Tail(q) \in Seq(Events) /\ Head(q) \in Events /\ Len(Tail(q)) = Len(q) - 1 /\ Len(q) \in Nat \ {0}
      /\ \A i \in 1 .. Len(Tail(q)) : Tail(q)[i] = q[i + 1]
  BY HeadTailProperties, EmptySeq
<1>2. DOMAIN q = 1 .. Len(q) /\ DOMAIN Tail(q) = 1 .. Len(Tail(q)) /\ Head(q) = q[1]
  BY <1>1
<1> QED BY <1>1, <1>2

LEMMA EventTypes ==
    ASSUME NEW e \in Events
    PROVE  /\ e.of \in Things /\ e.at \in Nat
           /\ e.kind \in {"arrived", "gone", "changed"}
           /\ e.kind # "gone" => e.to \in Property /\ e.to # Absent
           /\ e.kind = "arrived" => e.state \in Moods /\ e.state # Absent
BY DataAssumption DEF Events, Property

\* A change that is committed is told last.
LEMMA CommitFollows ==
    ASSUME NEW q \in Seq(Events), NEW e \in Events, NEW n \in Nat, e.at > n,
           NEW h, NEW m, NEW m2,
           \A t \in Things : t # e.of => m2[t] = m[t],
           e.kind = "changed" => m[e.of] # Absent /\ m2[e.of] # Absent,
           Follows(h, q, m, n)
    PROVE  Follows(h, Append(q, e), m2, n)
<1> DEFINE p == Append(q, e)
<1>1. /\ DOMAIN q = 1 .. Len(q) /\ Len(q) \in Nat
      /\ DOMAIN p = 1 .. Len(q) + 1 /\ p[Len(q) + 1] = e
      /\ \A i \in DOMAIN q : p[i] = q[i] /\ i \in DOMAIN p
  BY Appended
<1>2. e.of \in Things /\ e.at \in Nat
  BY EventTypes
<1> HIDE DEF p
<1>3. ASSUME NEW t \in Things, Silent(p, t, n)
      PROVE  h[t] = m2[t]
  <2>1. t # e.of
    BY <1>1, <1>2, <1>3 DEF Silent
  <2>2. Silent(q, t, n)
    BY <1>1, <1>3 DEF Silent
  <2> QED BY <2>1, <2>2 DEF Follows
<1>4. ASSUME NEW t \in Things, Settled(p, t, n)
      PROVE  h[t] = Absent <=> m2[t] = Absent
  <2>1. Settled(q, t, n)
    BY <1>1, <1>4 DEF Settled
  <2>2. t = e.of => e.kind = "changed"
    BY <1>1, <1>4 DEF Settled
  <2> QED BY <2>1, <2>2 DEF Follows
<1> QED BY <1>3, <1>4 DEF Follows, p

LEMMA CommitTells ==
    ASSUME NEW q \in Seq(Events), NEW e \in Events, NEW m, NEW m2,
           \A t \in Things : t # e.of => m2[t] = m[t],
           e.kind = "changed" => m[e.of] # Absent /\ m2[e.of] # Absent,
           m2[e.of] = Said(e),
           Tells(q, m)
    PROVE  Tells(Append(q, e), m2)
<1> DEFINE p == Append(q, e)
           k == Len(q) + 1
<1>1. /\ DOMAIN q = 1 .. Len(q) /\ Len(q) \in Nat
      /\ DOMAIN p = 1 .. k /\ p[k] = e
      /\ \A i \in DOMAIN q : p[i] = q[i] /\ i \in DOMAIN p
      /\ q \in [DOMAIN q -> Events]
  BY Appended
<1>2. e.of \in Things /\ e.kind \in {"arrived", "gone", "changed"} /\ (e.kind # "gone" => e.to # Absent)
  BY EventTypes
<1>9. k \in Nat /\ k >= 1 /\ DOMAIN q = 1 .. k - 1 /\ \A i \in DOMAIN q : i < k /\ i # k
  BY <1>1
<1> HIDE DEF p, k
<1>3. ASSUME NEW i \in DOMAIN p, LastOf(p, i)
      PROVE  Said(p[i]) = m2[p[i].of]
  <2>1. CASE i = k
    BY <2>1, <1>1
  <2>2. CASE i # k
    <3>1. i \in DOMAIN q /\ p[i] = q[i] /\ k \in DOMAIN p
      BY <2>2, <1>1, <1>9
    <3>2. q[i].of # e.of
      <4>1. p[k].of = p[i].of => k <= i
        BY <1>3, <3>1 DEF LastOf
      <4> QED BY <4>1, <3>1, <1>1, <1>9
    <3>3. LastOf(q, i)
      BY <1>3, <3>1, <1>1 DEF LastOf
    <3>4. q[i].of \in Things
      BY <3>1, <1>1, EventTypes
    <3> QED BY <3>1, <3>2, <3>3, <3>4 DEF Tells
  <2> QED BY <2>1, <2>2
<1>4. ASSUME NEW i \in DOMAIN p, LastMove(p, i)
      PROVE  p[i].kind = "gone" <=> m2[p[i].of] = Absent
  <2>1. CASE i = k
    BY <2>1, <1>1, <1>2, <1>4 DEF LastMove, Said
  <2>2. CASE i # k
    <3>1. i \in DOMAIN q /\ p[i] = q[i] /\ k \in DOMAIN p
      BY <2>2, <1>1, <1>9
    <3>2. q[i].of = e.of => e.kind = "changed"
      BY <1>4, <3>1, <1>1, <1>9 DEF LastMove
    <3>3. LastMove(q, i)
      BY <1>4, <3>1, <1>1 DEF LastMove
    <3>4. q[i].of \in Things
      BY <3>1, <1>1, EventTypes
    <3> QED BY <3>1, <3>2, <3>3, <3>4 DEF Tells
  <2> QED BY <2>1, <2>2
<1> QED BY <1>3, <1>4 DEF Tells, p

LEMMA TailTells ==
    ASSUME NEW q \in Seq(Events), q # <<>>, NEW m, Tells(q, m)
    PROVE  Tells(Tail(q), m)
<1> DEFINE p == Tail(q)
<1>1. /\ DOMAIN q = 1 .. Len(q) /\ Len(q) \in Nat \ {0}
      /\ DOMAIN p = 1 .. Len(q) - 1
      /\ \A i \in DOMAIN p : p[i] = q[i + 1] /\ i + 1 \in DOMAIN q
      /\ \A i \in DOMAIN q \ {1} : i - 1 \in DOMAIN p /\ q[i] = p[i - 1]
  BY Taken
<1> HIDE DEF p
<1>2. ASSUME NEW i \in DOMAIN p, LastOf(p, i)
      PROVE  LastOf(q, i + 1)
  <2> SUFFICES ASSUME NEW j \in DOMAIN q, q[j].of = q[i + 1].of, ~(j <= i + 1)
               PROVE  FALSE
    BY DEF LastOf
  <2>1. j \in DOMAIN q \ {1} /\ j - 1 \in DOMAIN p /\ q[j] = p[j - 1] /\ q[i + 1] = p[i]
    BY <1>1
  <2>2. j - 1 <= i
    BY <2>1, <1>2 DEF LastOf
  <2> QED BY <2>1, <2>2, <1>1
<1>3. ASSUME NEW i \in DOMAIN p, LastMove(p, i)
      PROVE  LastMove(q, i + 1)
  <2>1. q[i + 1] = p[i] /\ i \in Nat /\ i >= 1
    BY <1>1
  <2>2. ASSUME NEW j \in DOMAIN q, q[j].of = q[i + 1].of, j > i + 1
        PROVE  q[j].kind = "changed"
    <3>1. j \in DOMAIN q \ {1} /\ j - 1 \in DOMAIN p /\ q[j] = p[j - 1] /\ j - 1 > i
      BY <1>1, <2>1, <2>2
    <3> QED BY <3>1, <2>1, <2>2, <1>3 DEF LastMove
  <2>3. q[i + 1].kind # "changed"
    BY <2>1, <1>3 DEF LastMove
  <2> QED BY <2>2, <2>3 DEF LastMove
<1>4. \A i \in DOMAIN p : i + 1 \in DOMAIN q /\ q[i + 1] = p[i]
  BY <1>1
<1> QED BY <1>2, <1>3, <1>4 DEF Tells, p

\* A change of the past of n is none of those after it.
LEMMA TailFollowsAfter ==
    ASSUME NEW q \in Seq(Events), q # <<>>, NEW m, NEW h, NEW n \in Nat, Head(q).at <= n,
           Follows(h, q, m, n)
    PROVE  Follows(h, Tail(q), m, n)
<1> DEFINE p == Tail(q)
<1>1. /\ Head(q) = q[1]
      /\ DOMAIN q = 1 .. Len(q)
      /\ \A i \in DOMAIN q \ {1} : i - 1 \in DOMAIN p /\ q[i] = p[i - 1]
  BY Taken
<1>2. \A i \in DOMAIN q : q[i].at \in Nat
  BY EventTypes
<1> HIDE DEF p
<1>3. ASSUME NEW t \in Things, Silent(p, t, n)
      PROVE  Silent(q, t, n)
  BY <1>1, <1>3 DEF Silent
<1>4. ASSUME NEW t \in Things, Settled(p, t, n)
      PROVE  Settled(q, t, n)
  BY <1>1, <1>2, <1>4 DEF Settled
<1> QED BY <1>3, <1>4 DEF Follows, p

\* What the next change leaves to be said.
LEMMA HeadTells ==
    ASSUME NEW q \in Seq(Events), q # <<>>, NEW m, NEW e, e = Head(q),
           \A i \in DOMAIN q : q[i].at > 0,
           Tells(q, m)
    PROVE  /\ \A t \in Things : t # e.of /\ Silent(Tail(q), t, 0) => Silent(q, t, 0)
           /\ \A t \in Things : t # e.of /\ Settled(Tail(q), t, 0) => Settled(q, t, 0)
           /\ Silent(Tail(q), e.of, 0) => Said(e) = m[e.of] /\ Settled(Tail(q), e.of, 0)
           /\ Settled(Tail(q), e.of, 0) => /\ e.kind # "changed" => (e.kind = "gone" <=> m[e.of] = Absent)
                                           /\ e.kind = "changed" => Settled(q, e.of, 0)
<1> DEFINE p == Tail(q)
<1>1. /\ e = q[1] /\ 1 \in DOMAIN q
      /\ DOMAIN q = 1 .. Len(q)
      /\ \A i \in DOMAIN p : p[i] = q[i + 1] /\ i + 1 \in DOMAIN q
      /\ \A i \in DOMAIN q \ {1} : i - 1 \in DOMAIN p /\ q[i] = p[i - 1] /\ i > 1
  BY Taken
<1>3. \A i \in DOMAIN q : q[i].at \in Nat /\ q[i].at > 0
  BY EventTypes
<1> HIDE DEF p
<1>7. ASSUME NEW t \in Things, t # e.of
      PROVE  /\ Silent(p, t, 0) => Silent(q, t, 0)
             /\ Settled(p, t, 0) => Settled(q, t, 0)
  <2>1. Silent(p, t, 0) => Silent(q, t, 0)
    BY <1>1, <1>7 DEF Silent
  <2>2. Settled(p, t, 0) => Settled(q, t, 0)
    BY <1>1, <1>7 DEF Settled
  <2> QED BY <2>1, <2>2
<1>8. ASSUME Settled(p, e.of, 0)
      PROVE  /\ e.kind # "changed" => (e.kind = "gone" <=> m[e.of] = Absent)
             /\ e.kind = "changed" => Settled(q, e.of, 0)
  <2>1. \A i \in DOMAIN p : p[i].of = e.of => p[i].kind = "changed"
    BY <1>1, <1>3, <1>8 DEF Settled
  <2>2. \A i \in DOMAIN q : i > 1 /\ q[i].of = e.of => q[i].kind = "changed"
    BY <1>1, <2>1
  <2>3. e.kind # "changed" => LastMove(q, 1)
    BY <1>1, <2>2 DEF LastMove
  <2>4. e.kind = "changed" => Settled(q, e.of, 0)
    BY <1>1, <2>2 DEF Settled
  <2> QED BY <1>1, <2>3, <2>4 DEF Tells
<1>9. ASSUME Silent(p, e.of, 0)
      PROVE  Said(e) = m[e.of] /\ Settled(p, e.of, 0)
  <2>1. \A i \in DOMAIN p : p[i].of # e.of
    <3>1. \A i \in DOMAIN p : p[i].at > 0 /\ p[i].at \in Nat
      BY <1>1, <1>3
    <3> QED BY <1>9, <3>1 DEF Silent
  <2>2. LastOf(q, 1)
    BY <1>1, <2>1 DEF LastOf
  <2>3. Settled(p, e.of, 0)
    BY <2>1 DEF Settled
  <2> QED BY <1>1, <2>2, <2>3 DEF Tells
<1> QED BY <1>7, <1>8, <1>9 DEF p

\* The buffer takes a change.
Takes(e, u, r, c, u2, r2, c2) ==
    \/ /\ e.kind = "arrived"
       /\ c[e.of] = Absent
       /\ u2 = [u EXCEPT ![e.of] = e.to] /\ r2 = r \ {e.of} /\ c2 = c
    \/ /\ e.kind = "gone"
       /\ u2 = [u EXCEPT ![e.of] = Absent] /\ r2 = r \union {e.of} /\ c2 = c
    \/ /\ e.kind = "changed"
       /\ u2 = u /\ r2 = r /\ c2 = [c EXCEPT ![e.of] = e.to]

\* What follows through the buffer does so once the buffer took the next change, whichever it is.
LEMMA HearFollows ==
    ASSUME NEW q \in Seq(Events), q # <<>>, NEW m, NEW h,
           \A i \in DOMAIN q : q[i].at > 0,
           NEW u \in Held, NEW r, NEW c \in Held, NEW u2, NEW r2, NEW c2,
           Takes(Head(q), u, r, c, u2, r2, c2),
           Tells(q, m),
           Follows(Through(u, r, c, h), q, m, 0)
    PROVE  Follows(Through(u2, r2, c2, h), Tail(q), m, 0)
<1> DEFINE p == Tail(q)
<1> PICK e : e = Head(q)
  OBVIOUS
<1>2. /\ e.of \in Things /\ e.kind \in {"arrived", "gone", "changed"}
      /\ e.kind # "gone" => e.to # Absent
  BY Taken, EventTypes
<1>4. Takes(e, u, r, c, u2, r2, c2)
  OBVIOUS
<1>5. DOMAIN u = Things /\ DOMAIN c = Things
  BY DEF Held
<1>6. \A t \in Things : t # e.of => u2[t] = u[t] /\ c2[t] = c[t] /\ (t \in r2 <=> t \in r)
  BY <1>4, <1>5 DEF Takes
<1> HIDE DEF p
<1>7. ASSUME NEW t \in Things, t # e.of
      PROVE  Through(u2, r2, c2, h)[t] = Through(u, r, c, h)[t]
  <2>1. Present(u2, r2, h, t) = Present(u, r, h, t)
    BY <1>6, <1>7 DEF Present
  <2> QED BY <1>6, <1>7, <2>1 DEF Through
<1>8. /\ \A t \in Things : t # e.of /\ Silent(p, t, 0) => Silent(q, t, 0)
      /\ \A t \in Things : t # e.of /\ Settled(p, t, 0) => Settled(q, t, 0)
      /\ Settled(p, e.of, 0) => /\ e.kind # "changed" => (e.kind = "gone" <=> m[e.of] = Absent)
                                /\ e.kind = "changed" => Settled(q, e.of, 0)
      /\ Silent(p, e.of, 0) => Said(e) = m[e.of] /\ Settled(p, e.of, 0)
  BY HeadTells DEF p
<1>9. ASSUME NEW t \in Things, t # e.of
      PROVE  /\ Silent(p, t, 0) => Through(u2, r2, c2, h)[t] = m[t]
             /\ Settled(p, t, 0) => (Through(u2, r2, c2, h)[t] = Absent <=> m[t] = Absent)
  <2>1. /\ Silent(q, t, 0) => Through(u, r, c, h)[t] = m[t]
        /\ Settled(q, t, 0) => (Through(u, r, c, h)[t] = Absent <=> m[t] = Absent)
    BY DEF Follows
  <2>2. (Silent(p, t, 0) => Silent(q, t, 0)) /\ (Settled(p, t, 0) => Settled(q, t, 0))
    BY <1>8, <1>9
  <2>3. Through(u2, r2, c2, h)[t] = Through(u, r, c, h)[t]
    BY <1>7, <1>9
  <2> QED BY <2>1, <2>2, <2>3
<1>a. ASSUME Silent(p, e.of, 0) => Through(u2, r2, c2, h)[e.of] = m[e.of],
             Settled(p, e.of, 0) => (Through(u2, r2, c2, h)[e.of] = Absent <=> m[e.of] = Absent)
      PROVE  Follows(Through(u2, r2, c2, h), Tail(q), m, 0)
  BY <1>9, <1>a DEF Follows, p
<1>b. CASE e.kind = "arrived"
  <2>1. Through(u2, r2, c2, h)[e.of] = e.to
    BY <1>2, <1>4, <1>5, <1>b DEF Takes, Through, Present
  <2> QED BY <1>2, <1>8, <1>a, <1>b, <2>1 DEF Said
<1>c. CASE e.kind = "gone"
  <2>1. Through(u2, r2, c2, h)[e.of] = Absent
    BY <1>2, <1>4, <1>5, <1>c DEF Takes, Through, Present
  <2> QED BY <1>2, <1>8, <1>a, <1>c, <2>1 DEF Said
<1>d. CASE e.kind = "changed"
  <2>1. /\ Present(u2, r2, h, e.of) = Present(u, r, h, e.of)
        /\ c2[e.of] = e.to
    BY <1>2, <1>4, <1>5, <1>d DEF Takes, Present
  <2>2. /\ Through(u2, r2, c2, h)[e.of] = IF Present(u, r, h, e.of) # Absent THEN e.to ELSE Absent
        /\ Through(u, r, c, h)[e.of] = Absent <=> Present(u, r, h, e.of) = Absent
    BY <1>2, <1>d, <2>1 DEF Through
  <2>3. Settled(p, e.of, 0) => (Through(u, r, c, h)[e.of] = Absent <=> m[e.of] = Absent)
    BY <1>2, <1>8, <1>d DEF Follows
  <2>4. Silent(p, e.of, 0) => Through(u2, r2, c2, h)[e.of] = m[e.of]
    BY <1>2, <1>8, <1>d, <2>2, <2>3 DEF Said
  <2>5. Settled(p, e.of, 0) => (Through(u2, r2, c2, h)[e.of] = Absent <=> m[e.of] = Absent)
    BY <1>2, <1>d, <2>2, <2>3
  <2> QED BY <1>a, <2>4, <2>5
<1> QED BY <1>2, <1>b, <1>c, <1>d

\* What follows does so through a buffer that what is follows through.
LEMMA LoadFollows ==
    ASSUME NEW q, NEW m, NEW h, NEW u, NEW r, NEW c,
           Follows(h, q, m, 0),
           Follows(Through(u, r, c, m), q, m, 0)
    PROVE  Follows(Through(u, r, c, h), q, m, 0)
<1> SUFFICES ASSUME NEW t \in Things
             PROVE  /\ Silent(q, t, 0) => Through(u, r, c, h)[t] = m[t]
                    /\ Settled(q, t, 0) => (Through(u, r, c, h)[t] = Absent <=> m[t] = Absent)
  BY DEF Follows
<1>1. Silent(q, t, 0) => Through(u, r, c, h)[t] = m[t]
  <2>1. Silent(q, t, 0) => h[t] = m[t] /\ Through(u, r, c, m)[t] = m[t]
    BY DEF Follows
  <2> QED BY <2>1 DEF Through, Present
<1>2. Settled(q, t, 0) => (Through(u, r, c, h)[t] = Absent <=> m[t] = Absent)
  <2>1. Settled(q, t, 0) => (h[t] = Absent <=> m[t] = Absent) /\ (Through(u, r, c, m)[t] = Absent <=> m[t] = Absent)
    BY DEF Follows
  <2> QED BY <2>1 DEF Through, Present
<1> QED BY <1>1, <1>2

LEMMA IsFollows ==
    ASSUME NEW q, NEW m, NEW n
    PROVE  Follows(m, q, m, n)
BY DEF Follows

LEMMA FollowsEarlier ==
    ASSUME NEW q \in Seq(Events), NEW m, NEW h, NEW n \in Nat, Follows(h, q, m, n)
    PROVE  Follows(h, q, m, 0)
<1>1. \A i \in DOMAIN q : q[i].at \in Nat
  BY EventTypes
<1>2. \A t \in Things : Silent(q, t, 0) => Silent(q, t, n)
  BY <1>1 DEF Silent
<1>3. \A t \in Things : Settled(q, t, 0) => Settled(q, t, n)
  BY <1>1 DEF Settled
<1> QED BY <1>2, <1>3 DEF Follows

LEMMA ThroughNothing ==
    ASSUME NEW h \in Held
    PROVE  Through(Empty, {}, Empty, h) = h
BY DEF Through, Present, Empty, Held

LEMMA ThroughHeld ==
    ASSUME NEW u \in Held, NEW r, NEW c \in Held, NEW h \in Held
    PROVE  Through(u, r, c, h) \in Held
BY DEF Through, Present, Held

-----------------------------------------------------------------------------
(* Types *)

LEMMA EmptyTypes == Empty \in Held /\ Empty \in HeldStates /\ NoSnapshot \in Snapshot
BY DEF Empty, Held, HeldStates, NoSnapshot, Snapshot

LEMMA InitType == Init => TypeOK
<1> SUFFICES ASSUME Init PROVE TypeOK
  OBVIOUS
<1>1. model \in Held /\ mood \in [Things -> Moods]
  BY DEF Init, Held, Property
<1>2. unheard \in Seq(Events) /\ moods \in Seq([of : Things, to : Moods])
  BY DEF Init
<1>3. /\ covers \in {"page", "whole"} /\ opening \in {"none", "fresh", "again", "answered"}
      /\ snapshot \in Snapshot
      /\ held \in Held /\ states \in HeldStates
      /\ upserts \in Held /\ removals \subseteq Things /\ changes \in Held /\ stateUpdates \in HeldStates
  BY EmptyTypes DEF Init
<1>4. attached = FALSE /\ loaded = FALSE /\ holdsWholeModel = FALSE
  BY DEF Init
<1>5. {attached, loaded, holdsWholeModel} \subseteq BOOLEAN
  BY <1>4
<1>6. /\ {head, start, heard, oldest, flushed, moves, opens} \subseteq Nat
      /\ reads \subseteq [things : Held, at : Nat] \union {None}
      /\ spoiled \subseteq {"window", "buffer", "read", "failed", "gap", "crossed"}
  BY DEF Init
<1> QED BY <1>1, <1>2, <1>3, <1>5, <1>6 DEF TypeOK

LEMMA CoveredTypes ==
    ASSUME TypeOK
    PROVE  CoveredThings \in Held /\ CoveredStates \in HeldStates
BY DEF TypeOK, CoveredThings, CoveredStates, Held, HeldStates

LEMMA AppliedTypes ==
    ASSUME TypeOK
    PROVE  /\ Applied = Through(upserts, removals, changes, held)
           /\ Applied \in Held /\ AppliedStates \in HeldStates
<1>1. Applied = Through(upserts, removals, changes, held)
  BY DEF Applied, Through, Present
<1>2. Applied \in Held
  BY <1>1, ThroughHeld DEF TypeOK
<1>3. AppliedStates \in HeldStates
  BY DEF TypeOK, AppliedStates, HeldStates
<1> QED BY <1>1, <1>2, <1>3

LEMMA CommitTypes ==
    ASSUME TypeOK, NEW t \in Things, NEW x \in Property \union {Absent}, NEW e \in Events, Commit(t, x, e)
    PROVE  TypeOK'
<1>1. model' \in Held
  BY DEF Commit, TypeOK, Held
<1>2. unheard' \in Seq(Events)
  BY Appended DEF Commit, TypeOK
<1>3. /\ mood' \in [Things -> Moods]
      /\ moods' \in Seq([of : Things, to : Moods])
      /\ covers' \in {"page", "whole"}
      /\ opening' \in {"none", "fresh", "again", "answered"}
      /\ snapshot' \in Snapshot
      /\ reads' \subseteq [things : Held, at : Nat] \union {None}
  BY DEF Commit, TypeOK, vars, stream, buffer, store
<1>4. /\ {attached, loaded, holdsWholeModel}' \subseteq BOOLEAN
      /\ {head, start, heard, oldest, flushed, moves, opens}' \subseteq Nat
  BY DEF Commit, TypeOK, vars, stream, buffer, store
<1>5. /\ held' \in Held
      /\ states' \in HeldStates
      /\ upserts' \in Held
      /\ removals' \subseteq Things
      /\ changes' \in Held
      /\ stateUpdates' \in HeldStates
      /\ spoiled' \subseteq {"window", "buffer", "read", "failed", "gap", "crossed"}
  BY DEF Commit, TypeOK, vars, stream, buffer, store
<1> QED BY <1>1, <1>2, <1>3, <1>4, <1>5 DEF TypeOK

\* The changes that are committed.
LEMMA Committed ==
    ASSUME TypeOK, NEW t \in Things, NEW v \in Property
    PROVE  /\ v \in Values => [kind |-> "arrived", of |-> t, to |-> v, state |-> mood[t], at |-> head + 1] \in Events
           /\ [kind |-> "gone", of |-> t, at |-> head + 1] \in Events
           /\ [kind |-> "changed", of |-> t, to |-> v, at |-> head + 1] \in Events
<1>1. mood[t] \in Moods /\ head + 1 \in Nat
  BY DEF TypeOK
<1> QED BY <1>1 DEF Events

LEMMA BrokerTypes ==
    ASSUME TypeOK, NEW t \in Things,
           \/ Goes(t)
           \/ \E v \in Property : Changes(t, v)
           \/ \E v \in Values : Arrives(t, v)
           \/ \E m \in Moods : StateMoves(t, m)
    PROVE  TypeOK'
<1>1. ASSUME Goes(t) PROVE TypeOK'
  BY <1>1, CommitTypes, Committed DEF Goes, Property
<1>2. ASSUME NEW v \in Property, Changes(t, v) PROVE TypeOK'
  BY <1>2, CommitTypes, Committed DEF Changes
<1>3. ASSUME NEW v \in Values, Arrives(t, v) PROVE TypeOK'
  <2>1. v \in Property
    BY DEF Property
  <2> QED BY <1>3, <2>1, CommitTypes, Committed DEF Arrives
<1>4. ASSUME NEW m \in Moods, StateMoves(t, m) PROVE TypeOK'
  <2>1. mood' \in [Things -> Moods]
    BY <1>4 DEF StateMoves, TypeOK
  <2>2. moods' \in Seq([of : Things, to : Moods])
    <3>1. [of |-> t, to |-> m] \in [of : Things, to : Moods]
      OBVIOUS
    <3>2. Append(moods, [of |-> t, to |-> m]) \in Seq([of : Things, to : Moods])
      BY <3>1, AppendProperties DEF TypeOK
    <3> QED BY <1>4, <3>2 DEF StateMoves, TypeOK
  <2>3. spoiled' \subseteq {"window", "buffer", "read", "failed", "gap", "crossed"}
    BY <1>4 DEF StateMoves, TypeOK
  <2>4. moves' \in Nat
    BY <1>4 DEF StateMoves, TypeOK
  <2> QED BY <1>4, <2>1, <2>2, <2>3, <2>4 DEF StateMoves, TypeOK, stream, store, buffer
<1> QED BY <1>1, <1>2, <1>3, <1>4

LEMMA OpenTypes ==
    ASSUME TypeOK,
           \/ \E next \in {"page", "whole"} : leaveANarrowedSet(next)
           \/ ModelChanged \/ ModelCleared \/ Reconnects \/ Resolved
    PROVE  TypeOK'
<1>e. <<>> \in Seq(Events) /\ <<>> \in Seq([of : Things, to : Moods])
  OBVIOUS
<1>o. ASSUME NEW next \in {"page", "whole"}, NEW p \in {"fresh", "again"}, Opens(next, p)
      PROVE  /\ model' = model /\ mood' = mood /\ head' = head /\ moves' = moves
             /\ unheard' \in Seq(Events) /\ moods' \in Seq([of : Things, to : Moods])
             /\ covers' \in {"page", "whole"} /\ opening' \in {"none", "fresh", "again", "answered"}
             /\ snapshot' \in Snapshot
             /\ attached' \in BOOLEAN /\ opens' \in Nat
             /\ start' = start /\ heard' = heard /\ flushed' = flushed /\ reads' = reads
             /\ UNCHANGED <<upserts, removals, changes, stateUpdates, oldest>>
  <2>1. UNCHANGED <<model, mood, head, moves, start, heard, flushed, reads>>
        /\ UNCHANGED <<upserts, removals, changes, stateUpdates, oldest>>
    BY <1>o DEF Opens, broker, buffer
  <2>2. unheard' \in Seq(Events) /\ moods' \in Seq([of : Things, to : Moods])
    BY <1>o, <1>e DEF Opens, TypeOK
  <2>3. covers' \in {"page", "whole"} /\ opening' \in {"none", "fresh", "again", "answered"}
        /\ snapshot' \in Snapshot
    BY <1>o, EmptyTypes DEF Opens
  <2>a. attached' = FALSE
    BY <1>o DEF Opens
  <2>b. opens' \in Nat
    BY <1>o DEF Opens, TypeOK
  <2>4. attached' \in BOOLEAN /\ opens' \in Nat
    BY <2>a, <2>b
  <2> QED BY <2>1, <2>2, <2>3, <2>4
<1>c. ASSUME clear
      PROVE  held' \in Held /\ states' \in HeldStates /\ loaded' \in BOOLEAN /\ holdsWholeModel' \in BOOLEAN
  BY <1>c, EmptyTypes DEF clear
<1>1. ASSUME NEW next \in {"page", "whole"}, leaveANarrowedSet(next) PROVE TypeOK'
  <2>1. Opens(next, "fresh") /\ spoiled' = spoiled /\ (clear \/ UNCHANGED store)
    BY <1>1 DEF leaveANarrowedSet
  <2>2. held' \in Held /\ states' \in HeldStates /\ loaded' \in BOOLEAN /\ holdsWholeModel' \in BOOLEAN
    BY <2>1, <1>c DEF store, TypeOK
  <2> QED BY <2>1, <2>2, <1>o DEF TypeOK
<1>2. ASSUME ModelChanged \/ Reconnects PROVE TypeOK'
  <2>1. covers \in {"page", "whole"} /\ (Opens(covers, "fresh") \/ Opens(covers, "again")) /\ UNCHANGED <<store, spoiled>>
    BY <1>2 DEF ModelChanged, Reconnects, TypeOK
  <2> QED BY <2>1, <1>o DEF TypeOK, store
<1>3. ASSUME ModelCleared PROVE TypeOK'
  <2>1. /\ clear /\ head + 1 \in Nat
        /\ head' = head + 1 /\ start' = head + 1 /\ heard' = head + 1
        /\ model' \in Held /\ unheard' \in Seq(Events)
    BY <1>3, <1>e, EmptyTypes DEF ModelCleared, TypeOK
  <2>2. held' \in Held /\ states' \in HeldStates /\ loaded' \in BOOLEAN /\ holdsWholeModel' \in BOOLEAN
    BY <2>1, <1>c
  <2> QED BY <1>3, <2>1, <2>2 DEF ModelCleared, TypeOK, buffer
<1>4. ASSUME Resolved PROVE TypeOK'
  <2>1. snapshot' \in Snapshot
    BY <1>4, CoveredTypes DEF Resolved, Snapshot
  <2>2. spoiled' \subseteq {"window", "buffer", "read", "failed", "gap", "crossed"}
    BY <1>4 DEF Resolved, TypeOK
  <2>3. start' \in Nat /\ heard' \in Nat /\ opening' = "answered"
    BY <1>4 DEF Resolved, TypeOK
  <2> QED BY <1>4, <2>1, <2>2, <2>3 DEF Resolved, TypeOK, broker, store, buffer
<1> QED BY <1>1, <1>2, <1>3, <1>4

LEMMA LoadTypes ==
    ASSUME TypeOK, NEW things \in Held, NEW whole \in BOOLEAN, NEW crossing \in SUBSET {"read"},
           Loads(things, whole, crossing)
    PROVE  /\ held' \in Held /\ loaded' \in BOOLEAN /\ holdsWholeModel' \in BOOLEAN
           /\ spoiled' \subseteq {"window", "buffer", "read", "failed", "gap", "crossed"}
BY DEF Loads, TypeOK

LEMMA ReadTypes ==
    ASSUME TypeOK,
           \/ loadWhatOpened \/ reloadModelData \/ ReadIsMade
           \/ \E read \in reads \ {None} : ReadAnswers(read)
           \/ \E read \in reads : ReadFails(read)
    PROVE  TypeOK'
<1>1. ASSUME loadWhatOpened PROVE TypeOK'
  <2>1. /\ held' \in Held /\ states' \in HeldStates /\ loaded' \in BOOLEAN /\ holdsWholeModel' \in BOOLEAN
        /\ spoiled' \subseteq {"window", "buffer", "read", "failed", "gap", "crossed"}
        /\ reads' \subseteq [things : Held, at : Nat] \union {None}
    <3>1. CASE covers = "page"
      <4>1. Loads(snapshot.things, FALSE, {}) /\ snapshot.things \in Held /\ snapshot.states \in HeldStates
        BY <1>1, <3>1 DEF loadWhatOpened, TypeOK, Snapshot
      <4>2. held' \in Held /\ loaded' \in BOOLEAN /\ holdsWholeModel' \in BOOLEAN
            /\ spoiled' \subseteq {"window", "buffer", "read", "failed", "gap", "crossed"}
        <5>1. {} \in SUBSET {"read"} /\ FALSE \in BOOLEAN
          OBVIOUS
        <5> QED BY <4>1, <5>1, LoadTypes
      <4> QED BY <1>1, <3>1, <4>1, <4>2 DEF loadWhatOpened, TypeOK
    <3>2. CASE covers # "page"
      BY <1>1, <3>2 DEF loadWhatOpened, TypeOK, store
    <3> QED BY <3>1, <3>2
  <2>2. opening' = "none" /\ attached' = TRUE /\ snapshot' \in Snapshot
    BY <1>1, EmptyTypes DEF loadWhatOpened
  <2> QED BY <1>1, <2>1, <2>2 DEF loadWhatOpened, TypeOK, broker, buffer
<1>2. ASSUME reloadModelData PROVE TypeOK'
  <2>1. opens' \in Nat /\ reads' \subseteq [things : Held, at : Nat] \union {None}
    BY <1>2 DEF reloadModelData, TypeOK
  <2> QED BY <1>2, <2>1 DEF reloadModelData, TypeOK, broker, store, buffer
<1>3. ASSUME ReadIsMade PROVE TypeOK'
  <2>1. reads' \subseteq [things : Held, at : Nat] \union {None}
    BY <1>3 DEF ReadIsMade, TypeOK
  <2> QED BY <1>3, <2>1 DEF ReadIsMade, TypeOK, broker, stream, store, buffer
<1>4. ASSUME NEW read \in reads \ {None}, ReadAnswers(read) PROVE TypeOK'
  <2>1. read.things \in Held
    BY DEF TypeOK
  <2>2. held' \in Held /\ loaded' \in BOOLEAN /\ holdsWholeModel' \in BOOLEAN
        /\ spoiled' \subseteq {"window", "buffer", "read", "failed", "gap", "crossed"}
    BY <1>4, <2>1, LoadTypes DEF ReadAnswers
  <2>3. reads' \subseteq [things : Held, at : Nat] \union {None} /\ states' \in HeldStates
    BY <1>4, EmptyTypes DEF ReadAnswers, TypeOK
  <2> QED BY <1>4, <2>2, <2>3 DEF ReadAnswers, TypeOK, broker, stream, buffer
<1>5. ASSUME NEW read \in reads, ReadFails(read) PROVE TypeOK'
  <2>1. reads' \subseteq [things : Held, at : Nat] \union {None}
        /\ spoiled' \subseteq {"window", "buffer", "read", "failed", "gap", "crossed"}
    BY <1>5 DEF ReadFails, TypeOK
  <2> QED BY <1>5, <2>1 DEF ReadFails, TypeOK, broker, stream, store, buffer
<1> QED BY <1>1, <1>2, <1>3, <1>4, <1>5

LEMMA HearTypes ==
    ASSUME TypeOK, thingArrived \/ thingGone \/ onThingProperty
    PROVE  TypeOK'
<1>1. Hear /\ unheard # <<>>
  BY DEF thingArrived, thingGone, onThingProperty, Hear
<1> PICK e : e = Head(unheard)
  OBVIOUS
<1>2. Tail(unheard) \in Seq(Events) /\ e \in Events
  BY <1>1, Taken DEF TypeOK
<1>3. unheard' \in Seq(Events) /\ heard' \in Nat /\ oldest' \in Nat
  BY <1>1, <1>2, EventTypes DEF Hear, TypeOK
<1>4. upserts' \in Held /\ removals' \subseteq Things /\ changes' \in Held /\ stateUpdates' \in HeldStates
      /\ spoiled' \subseteq {"window", "buffer", "read", "failed", "gap", "crossed"}
  <2>1. CASE thingArrived
    <3>1. e.kind = "arrived" /\ e.of \in Things /\ e.to \in Property /\ e.state \in Moods
      BY <1>2, <2>1, EventTypes DEF thingArrived
    <3>2. /\ removals' = removals \ {e.of}
          /\ upserts' = [upserts EXCEPT ![e.of] = e.to]
          /\ stateUpdates' = IF holdsNarrowedSet THEN [stateUpdates EXCEPT ![e.of] = e.state] ELSE stateUpdates
          /\ spoiled' \subseteq spoiled \union {"window"}
          /\ changes' = changes
      BY <2>1 DEF thingArrived
    <3>3. upserts' \in Held
      BY <3>1, <3>2 DEF TypeOK, Held
    <3>4. stateUpdates' \in HeldStates
      BY <3>1, <3>2 DEF TypeOK, HeldStates
    <3> QED BY <3>2, <3>3, <3>4 DEF TypeOK
  <2>2. CASE thingGone
    <3>1. e.of \in Things
      BY <1>2, EventTypes
    <3>2. /\ upserts' = [upserts EXCEPT ![e.of] = Absent]
          /\ removals' = removals \union {e.of}
          /\ UNCHANGED <<changes, stateUpdates, spoiled>>
      BY <2>2 DEF thingGone
    <3>3. upserts' \in Held
      BY <3>1, <3>2 DEF TypeOK, Held
    <3> QED BY <3>1, <3>2, <3>3 DEF TypeOK
  <2>3. CASE onThingProperty
    <3>1. e.of \in Things /\ e.to \in Property
      BY <1>2, <2>3, EventTypes DEF onThingProperty
    <3>2. /\ changes' = [changes EXCEPT ![e.of] = e.to]
          /\ UNCHANGED <<upserts, removals, stateUpdates, spoiled>>
      BY <2>3 DEF onThingProperty
    <3>3. changes' \in Held
      BY <3>1, <3>2 DEF TypeOK, Held
    <3> QED BY <3>2, <3>3 DEF TypeOK
  <2> QED BY <2>1, <2>2, <2>3
<1> QED BY <1>1, <1>3, <1>4 DEF Hear, TypeOK, broker, stream, store

LEMMA BufferTypes ==
    ASSUME TypeOK, onStatesChanged \/ flush
    PROVE  TypeOK'
<1>1. ASSUME onStatesChanged PROVE TypeOK'
  <2>1. /\ Head(moods) \in [of : Things, to : Moods]
        /\ Tail(moods) \in Seq([of : Things, to : Moods])
    BY <1>1, HeadTailProperties DEF onStatesChanged, TypeOK
  <2>2. stateUpdates' \in HeldStates
    BY <1>1, <2>1 DEF onStatesChanged, TypeOK, HeldStates
  <2> QED BY <1>1, <2>1, <2>2 DEF onStatesChanged, TypeOK, broker, stream, store
<1>2. ASSUME flush PROVE TypeOK'
  <2>1. held' \in Held /\ states' \in HeldStates /\ upserts' \in Held /\ changes' \in Held /\ stateUpdates' \in HeldStates
        /\ removals' = {}
    BY <1>2, AppliedTypes, EmptyTypes DEF flush
  <2>2. oldest' \in Nat /\ flushed' \in Nat
    BY <1>2 DEF flush, TypeOK
  <2> QED BY <1>2, <2>1, <2>2 DEF flush, TypeOK, broker, stream
<1> QED BY <1>1, <1>2

LEMMA NextType == TypeOK /\ [Next]_vars => TypeOK'
<1> SUFFICES ASSUME TypeOK, [Next]_vars PROVE TypeOK'
  OBVIOUS
<1>1. CASE UNCHANGED vars
  BY <1>1 DEF TypeOK, vars, broker, stream, store, buffer
<1>2. CASE Next
  BY <1>2, BrokerTypes, OpenTypes, ReadTypes, HearTypes, BufferTypes DEF Next
<1> QED BY <1>1, <1>2

\* The broker, the streams, the opens and reads, the store and its buffer keep their types.
THEOREM TypeCorrect == Spec => []TypeOK
BY InitType, NextType, PTL DEF Spec

-----------------------------------------------------------------------------
(* What is held *)

ThingsBuffered == upserts # Empty \/ removals # {} \/ changes # Empty

\* The buffer holds changes of before the position started.
Stale == ThingsBuffered /\ oldest <= start

Clean == "window" \notin spoiled /\ ~Stale

Buffering(h) == Through(upserts, removals, changes, h)

\* How the positions lie, and what is told while the streams are not attached.
Order == /\ attached <=> opening = "none"
         /\ opening = "fresh" => unheard = <<>>
         /\ heard <= head /\ oldest <= head /\ start <= head /\ flushed <= heard
         /\ oldest = 0 <=> ~ThingsBuffered
         /\ ThingsBuffered \/ heard <= flushed \/ heard <= start
         /\ \A i \in DOMAIN unheard : unheard[i].at \in 1 .. head /\ Covered(unheard[i].of)
         /\ \A i \in DOMAIN unheard : /\ heard < unheard[i].at
                                      /\ \A j \in DOMAIN unheard : i < j => unheard[i].at < unheard[j].at

Told == Tells(unheard, CoveredThings)

\* What is covered follows through the buffer: it says nothing that no change unheard takes back.
BufferFollows == Clean /\ opening # "fresh" => Follows(Buffering(CoveredThings), unheard, CoveredThings, 0)

SnapshotFollows == opening = "answered" => Follows(snapshot.things, unheard, CoveredThings, 0)

\* A read that nothing overtook follows, through the buffer or, while no change after it was heard, by itself.
ReadFollows(r) ==
    /\ r.at <= head
    /\ r.at = head => r.things = model
    /\ covers = "whole" /\ opening # "fresh" /\ start <= r.at /\ flushed <= r.at =>
         /\ Clean => Follows(Buffering(r.things), unheard, CoveredThings, 0)
         /\ heard <= r.at => Follows(r.things, unheard, CoveredThings, r.at)

ReadsFollow == \A r \in reads \ {None} : ReadFollows(r)

Settling == opening = "none" /\ reads = {} /\ loaded /\ spoiled \subseteq {"gap", "crossed"}

StoreFollows == Settling => /\ Follows(Buffering(held), unheard, CoveredThings, 0)
                            /\ holdsWholeModel <=> covers = "whole"

DataInv == /\ TypeOK /\ Order /\ Told /\ BufferFollows /\ SnapshotFollows /\ ReadsFollow /\ StoreFollows

-----------------------------------------------------------------------------
LEMMA InitData == Init => DataInv
<1> SUFFICES ASSUME Init PROVE DataInv
  OBVIOUS
<1>1. TypeOK
  BY InitType
<1>2. ~ThingsBuffered /\ unheard = <<>> /\ DOMAIN unheard = {}
  BY DEF Init, ThingsBuffered
<1>3. Order
  BY <1>2 DEF Init, Order
<1>4. Told
  BY <1>2 DEF Told, Tells
<1>5. BufferFollows /\ SnapshotFollows /\ ReadsFollow /\ StoreFollows
  BY DEF Init, BufferFollows, SnapshotFollows, ReadsFollow, StoreFollows, Settling
<1> QED BY <1>1, <1>3, <1>4, <1>5 DEF DataInv

LEMMA SameThings ==
    ASSUME model' = model, covers' = covers
    PROVE  CoveredThings' = CoveredThings /\ \A t : Covered(t)' = Covered(t)
BY DEF CoveredThings, Covered

LEMMA WholeThings ==
    ASSUME TypeOK, covers = "whole"
    PROVE  CoveredThings = model
BY DEF TypeOK, Held, CoveredThings, Covered

LEMMA EmptyBuffer ==
    ASSUME TypeOK, ~ThingsBuffered, NEW h \in Held
    PROVE  Buffering(h) = h
BY ThroughNothing DEF ThingsBuffered, Buffering

-----------------------------------------------------------------------------
LEMMA CommitKeeps ==
    ASSUME DataInv, NEW t \in Things, NEW x \in Property \union {Absent}, NEW e \in Events, Commit(t, x, e),
           e.of = t, e.at = head + 1, Said(e) = x,
           e.kind = "changed" => model[t] # Absent /\ x # Absent
    PROVE  Order' /\ Told' /\ BufferFollows' /\ SnapshotFollows' /\ ReadsFollow' /\ StoreFollows'
<1>1. /\ UNCHANGED <<covers, opening, snapshot, attached, start, opens, heard, reads, held, states, loaded>>
      /\ UNCHANGED <<holdsWholeModel, upserts, removals, changes, stateUpdates, oldest, flushed, spoiled>>
      /\ head' = head + 1 /\ model' = [model EXCEPT ![t] = x]
      /\ unheard' = IF Covered(t) /\ opening # "fresh" THEN Append(unheard, e) ELSE unheard
  BY DEF Commit, stream, store, buffer
<1>2. TypeOK /\ Order /\ Told /\ unheard \in Seq(Events) /\ head \in Nat
  BY DEF DataInv, TypeOK
<1>3. /\ DOMAIN unheard = 1 .. Len(unheard) /\ Len(unheard) \in Nat
      /\ DOMAIN Append(unheard, e) = 1 .. Len(unheard) + 1 /\ Append(unheard, e)[Len(unheard) + 1] = e
      /\ \A i \in DOMAIN unheard : Append(unheard, e)[i] = unheard[i]
  BY <1>2, Appended
<1> PICK m : m = CoveredThings
  OBVIOUS
<1> PICK m2 : m2 = CoveredThings'
  OBVIOUS
<1>4. /\ \A s \in Things : s # t => m2[s] = m[s]
      /\ Covered(t) => m[t] = model[t] /\ m2[t] = x
      /\ ~Covered(t) => m2 = m
  BY <1>1, <1>2 DEF CoveredThings, Covered, TypeOK, Held
<1>5. ThingsBuffered' = ThingsBuffered /\ Stale' = Stale /\ Clean' = Clean /\ Settling' = Settling
  BY <1>1 DEF ThingsBuffered, Stale, Clean, Settling, Empty
<1>6. ASSUME NEW h, NEW n \in Nat, n <= head, opening # "fresh", Follows(h, unheard, m, n)
      PROVE  Follows(h, unheard', m2, n)
  <2>1. CASE Covered(t)
    BY <1>1, <1>2, <1>4, <1>6, <2>1, CommitFollows
  <2>2. CASE ~Covered(t)
    BY <1>1, <1>4, <1>6, <2>2
  <2> QED BY <2>1, <2>2
<1>7. Order'
  <2>1. \A i \in DOMAIN unheard' : unheard'[i].at \in 1 .. head + 1 /\ Covered(unheard'[i].of)
    <3>1. CASE Covered(t) /\ opening # "fresh"
      <4>1. unheard' = Append(unheard, e)
        BY <1>1, <3>1
      <4>2. \A i \in DOMAIN unheard : unheard'[i].at \in 1 .. head + 1 /\ Covered(unheard'[i].of)
        BY <1>2, <1>3, <4>1 DEF Order
      <4>3. e.at \in 1 .. head + 1 /\ Covered(e.of)
        BY <1>2, <3>1
      <4>4. unheard'[Len(unheard) + 1] = e
        BY <1>3, <4>1
      <4>5. DOMAIN unheard' = DOMAIN unheard \union {Len(unheard) + 1}
        BY <1>3, <4>1
      <4> QED BY <4>2, <4>3, <4>4, <4>5
    <3>2. CASE ~(Covered(t) /\ opening # "fresh")
      BY <1>1, <1>2, <3>2 DEF Order
    <3> QED BY <3>1, <3>2
  <2>3. \A i \in DOMAIN unheard' : unheard'[i].at \in 1 .. head' /\ (covers = "whole" \/ unheard'[i].of \in InPage)
    BY <1>1, <2>1 DEF Covered
  <2>4. /\ heard <= head + 1 /\ oldest <= head + 1 /\ start <= head + 1 /\ flushed <= heard
    BY <1>2 DEF Order, TypeOK
  <2>5. (opening = "fresh" => unheard' = <<>>) /\ (attached <=> opening = "none") /\ (oldest = 0 <=> ~ThingsBuffered)
        /\ (ThingsBuffered \/ heard <= flushed \/ heard <= start)
    BY <1>1, <1>2 DEF Order
  <2>6. /\ \A i \in DOMAIN unheard' : heard < unheard'[i].at
        /\ \A i, j \in DOMAIN unheard' : i < j => unheard'[i].at < unheard'[j].at
    <3>1. CASE Covered(t) /\ opening # "fresh"
      <4>1. unheard' = Append(unheard, e)
        BY <1>1, <3>1
      <4>2. \A i \in DOMAIN unheard : /\ heard < unheard'[i].at /\ unheard'[i].at < e.at
                                     /\ i < Len(unheard) + 1
                                     /\ \A j \in DOMAIN unheard : i < j => unheard'[i].at < unheard'[j].at
        BY <1>2, <1>3, <4>1 DEF Order
      <4>3. unheard'[Len(unheard) + 1] = e /\ DOMAIN unheard' = DOMAIN unheard \union {Len(unheard) + 1}
        BY <1>3, <4>1
      <4>4. heard < e.at
        BY <1>2 DEF Order, TypeOK
      <4> QED BY <1>3, <4>2, <4>3, <4>4
    <3>2. CASE ~(Covered(t) /\ opening # "fresh")
      BY <1>1, <1>2, <3>2 DEF Order
    <3> QED BY <3>1, <3>2
  <2> QED BY <1>1, <1>5, <2>3, <2>4, <2>5, <2>6 DEF Order, Covered
<1>8. Told'
  <2>1. Tells(unheard', m2)
    <3>1. CASE Covered(t) /\ opening # "fresh"
      BY <1>1, <1>2, <1>4, <3>1, CommitTells DEF Told
    <3>2. CASE ~Covered(t)
      BY <1>1, <1>2, <1>4, <3>2 DEF Told
    <3>3. CASE opening = "fresh"
      BY <1>1, <1>2, <3>3 DEF Order, Tells
    <3> QED BY <3>1, <3>2, <3>3
  <2> QED BY <2>1 DEF Told
<1>9. BufferFollows'
  <2> SUFFICES ASSUME Clean, opening # "fresh"
               PROVE  Follows(Through(upserts, removals, changes, m2), unheard', m2, 0)
    BY <1>1, <1>5 DEF BufferFollows, Buffering
  <2>1. Follows(Through(upserts, removals, changes, m), unheard, m, 0)
    BY DEF DataInv, BufferFollows, Buffering
  <2>2. Follows(Through(upserts, removals, changes, m), unheard', m2, 0)
    BY <1>2, <1>6, <2>1
  <2>3. ~Covered(t) => Follows(Through(upserts, removals, changes, m2), unheard', m2, 0)
    BY <1>4, <2>2
  <2>4. ASSUME Covered(t)
        PROVE  Follows(Through(upserts, removals, changes, m2), unheard', m2, 0)
    <3>1. \A s \in Things : s # t =>
             Through(upserts, removals, changes, m2)[s] = Through(upserts, removals, changes, m)[s]
      BY <1>4 DEF Through, Present
    <3>2. unheard' = Append(unheard, e) /\ Len(unheard) + 1 \in DOMAIN unheard' /\ unheard'[Len(unheard) + 1] = e
      BY <1>1, <1>3, <2>4
    <3>3. ~Silent(unheard', t, 0)
      BY <1>2, <3>2 DEF Silent
    <3>4. ASSUME Settled(unheard', t, 0)
          PROVE  Through(upserts, removals, changes, m2)[t] = Absent <=> m2[t] = Absent
      <4>1. e.kind = "changed"
        BY <1>2, <3>2, <3>4 DEF Settled
      <4>2. m[t] # Absent /\ m2[t] # Absent
        BY <1>4, <2>4, <4>1
      <4>3. Through(upserts, removals, changes, m)[t] # Absent
        BY <2>2, <3>4, <4>2 DEF Follows
      <4> QED BY <4>2, <4>3 DEF Through, Present
    <3> QED BY <2>2, <3>1, <3>3, <3>4 DEF Follows
  <2> QED BY <2>3, <2>4
<1>a. SnapshotFollows'
  <2> SUFFICES ASSUME opening = "answered"
               PROVE  Follows(snapshot.things, unheard', m2, 0)
    BY <1>1 DEF SnapshotFollows
  <2>1. Follows(snapshot.things, unheard, m, 0)
    BY DEF DataInv, SnapshotFollows
  <2> QED BY <1>2, <1>6, <2>1
<1>b. ReadsFollow'
  <2> SUFFICES ASSUME NEW r \in reads \ {None}
               PROVE  ReadFollows(r)'
    BY <1>1 DEF ReadsFollow
  <2>1. ReadFollows(r) /\ r.at \in Nat
    BY <1>2 DEF DataInv, ReadsFollow, TypeOK
  <2>2. r.at <= head /\ r.at <= head + 1 /\ r.at # head + 1
    BY <1>2, <2>1 DEF ReadFollows
  <2>3. ASSUME covers = "whole", opening # "fresh", start <= r.at, flushed <= r.at
        PROVE  /\ Clean => Follows(Through(upserts, removals, changes, r.things), unheard', m2, 0)
               /\ heard <= r.at => Follows(r.things, unheard', m2, r.at)
    BY <1>2, <1>6, <2>1, <2>2, <2>3 DEF ReadFollows, Buffering
  <2> QED BY <1>1, <1>5, <2>2, <2>3 DEF ReadFollows, Buffering
<1>c. StoreFollows'
  <2> SUFFICES ASSUME Settling
               PROVE  Follows(Through(upserts, removals, changes, held), unheard', m2, 0)
                      /\ (holdsWholeModel <=> covers = "whole")
    BY <1>1, <1>5 DEF StoreFollows, Buffering
  <2>1. Follows(Through(upserts, removals, changes, held), unheard, m, 0) /\ (holdsWholeModel <=> covers = "whole")
    BY DEF DataInv, StoreFollows, Buffering
  <2>2. opening # "fresh"
    BY DEF Settling
  <2> QED BY <1>2, <1>6, <2>1, <2>2
<1> QED BY <1>7, <1>8, <1>9, <1>a, <1>b, <1>c

\* What leaves the things, their changes and their buffer alone, and spoils or forgets nothing about them.
LEMMA ElseKeeps ==
    ASSUME DataInv,
           UNCHANGED <<model, head, unheard, covers, opening, snapshot, attached, start, heard, held, loaded>>,
           UNCHANGED <<holdsWholeModel, upserts, removals, changes, oldest, flushed>>,
           spoiled \subseteq spoiled',
           reads' # {} => \A r \in reads' \ {None} : r \in reads,
           reads' = {} => reads = {} \/ "failed" \in spoiled'
    PROVE  Order' /\ Told' /\ BufferFollows' /\ SnapshotFollows' /\ ReadsFollow' /\ StoreFollows'
<1>1. CoveredThings' = CoveredThings /\ \A t : Covered(t)' = Covered(t)
  BY SameThings
<1>2. ThingsBuffered' = ThingsBuffered /\ Stale' = Stale /\ (Clean' => Clean) /\ (Settling' => Settling)
  BY DEF ThingsBuffered, Stale, Clean, Settling, Empty
<1>3. Order /\ Told /\ BufferFollows /\ SnapshotFollows /\ ReadsFollow /\ StoreFollows
  BY DEF DataInv
<1>4. Order'
  BY <1>2, <1>3 DEF Order, Covered
<1>5. Told'
  BY <1>1, <1>3 DEF Told
<1>6. BufferFollows'
  BY <1>1, <1>2, <1>3 DEF BufferFollows, Buffering
<1>7. SnapshotFollows'
  BY <1>1, <1>3 DEF SnapshotFollows
<1>8. ReadsFollow'
  <2> SUFFICES ASSUME NEW r \in reads' \ {None}
               PROVE  ReadFollows(r)'
    BY DEF ReadsFollow
  <2>1. ReadFollows(r)
    BY <1>3 DEF ReadsFollow
  <2> QED BY <1>1, <1>2, <2>1 DEF ReadFollows, Buffering
<1>9. StoreFollows'
  BY <1>1, <1>2, <1>3 DEF StoreFollows, Buffering
<1> QED BY <1>4, <1>5, <1>6, <1>7, <1>8, <1>9

LEMMA OpenKeeps ==
    ASSUME DataInv, NEW next \in {"page", "whole"}, NEW position \in {"fresh", "again"}, Opens(next, position),
           position = "again" => attached /\ next = covers,
           spoiled' = spoiled
    PROVE  Order' /\ Told' /\ BufferFollows' /\ SnapshotFollows' /\ ReadsFollow' /\ StoreFollows'
<1>1. /\ UNCHANGED <<model, head, start, heard, reads, upserts, removals, changes, oldest, flushed, spoiled>>
      /\ attached' = FALSE /\ covers' = next /\ opening' = position
      /\ unheard' = IF position = "fresh" THEN <<>> ELSE unheard
  BY DEF Opens, broker, buffer
<1>2. Order /\ Told /\ BufferFollows /\ ReadsFollow
  BY DEF DataInv
<1>3. ThingsBuffered' = ThingsBuffered /\ Stale' = Stale /\ Clean' = Clean
  BY <1>1 DEF ThingsBuffered, Stale, Clean, Empty
<1>4. SnapshotFollows' /\ StoreFollows'
  BY <1>1 DEF SnapshotFollows, StoreFollows, Settling
<1>5. CASE position = "fresh"
  <2>1. unheard' = <<>> /\ DOMAIN unheard' = {}
    BY <1>1, <1>5
  <2>2. Order'
    BY <1>1, <1>2, <1>3, <1>5, <2>1 DEF Order
  <2>3. Told'
    BY <2>1 DEF Told, Tells
  <2>4. BufferFollows'
    BY <1>1, <1>5 DEF BufferFollows
  <2>5. ReadsFollow'
    BY <1>1, <1>2, <1>5 DEF ReadsFollow, ReadFollows
  <2> QED BY <1>4, <2>2, <2>3, <2>4, <2>5
<1>6. CASE position = "again"
  <2>1. covers' = covers /\ unheard' = unheard /\ opening = "none" /\ opening' = "again"
    BY <1>1, <1>2, <1>6 DEF Order
  <2>2. CoveredThings' = CoveredThings
    BY <1>1, <2>1, SameThings
  <2>3. Order'
    BY <1>1, <1>2, <1>3, <2>1 DEF Order, Covered
  <2>4. Told'
    BY <1>2, <2>1, <2>2 DEF Told
  <2>5. BufferFollows'
    BY <1>1, <1>2, <1>3, <2>1, <2>2 DEF BufferFollows, Buffering
  <2>6. ReadsFollow'
    <3> SUFFICES ASSUME NEW r \in reads \ {None}
                 PROVE  ReadFollows(r)'
      BY <1>1 DEF ReadsFollow
    <3>1. ReadFollows(r)
      BY <1>2 DEF ReadsFollow
    <3> QED BY <1>1, <1>3, <2>1, <2>2, <3>1 DEF ReadFollows, Buffering
  <2> QED BY <1>4, <2>3, <2>4, <2>5, <2>6
<1> QED BY <1>5, <1>6

LEMMA ClearedKeeps ==
    ASSUME DataInv, ModelCleared
    PROVE  Order' /\ Told' /\ BufferFollows' /\ SnapshotFollows' /\ ReadsFollow' /\ StoreFollows'
<1>1. /\ UNCHANGED <<covers, opening, attached, reads, upserts, removals, changes, oldest, flushed, spoiled>>
      /\ opening = "none" /\ attached
      /\ head' = head + 1 /\ start' = head + 1 /\ heard' = head + 1
      /\ unheard' = <<>> /\ DOMAIN unheard' = {}
      /\ loaded' = FALSE
  BY DEF ModelCleared, buffer, clear, DataInv, Order
<1>2. Order /\ ReadsFollow /\ {head, oldest, heard, flushed} \subseteq Nat
  BY DEF DataInv, TypeOK
<1>3. ThingsBuffered' = ThingsBuffered
  BY <1>1 DEF ThingsBuffered, Empty
<1>4. Order'
  <2>1. flushed <= head + 1 /\ oldest <= head + 1 /\ head + 1 <= head + 1
    BY <1>2 DEF Order
  <2> QED BY <1>1, <1>2, <1>3, <2>1 DEF Order
<1>5. Told'
  BY <1>1 DEF Told, Tells
<1>6. SnapshotFollows' /\ StoreFollows'
  BY <1>1 DEF SnapshotFollows, StoreFollows, Settling
<1>7. BufferFollows'
  <2> SUFFICES ASSUME ~ThingsBuffered
               PROVE  Follows(Through(upserts, removals, changes, CoveredThings'), unheard', CoveredThings', 0)
    BY <1>1, <1>2, <1>3 DEF BufferFollows, Buffering, Clean, Stale, Order
  <2>1. TypeOK'
    BY OpenTypes DEF DataInv
  <2>2. CoveredThings' \in Held
    BY <2>1 DEF TypeOK, CoveredThings, Held
  <2>3. Through(upserts, removals, changes, CoveredThings') = CoveredThings'
    BY <2>2, ThroughNothing DEF ThingsBuffered
  <2> QED BY <2>3, IsFollows
<1>8. ReadsFollow'
  <2> SUFFICES ASSUME NEW r \in reads \ {None}
               PROVE  ReadFollows(r)'
    BY <1>1 DEF ReadsFollow
  <2>1. ReadFollows(r) /\ r.at \in Nat
    BY <1>2 DEF ReadsFollow, DataInv, TypeOK
  <2>2. r.at <= head + 1 /\ r.at # head + 1 /\ ~(head + 1 <= r.at)
    BY <1>2, <2>1 DEF ReadFollows
  <2> QED BY <1>1, <2>2 DEF ReadFollows
<1> QED BY <1>4, <1>5, <1>6, <1>7, <1>8

LEMMA ResolvedKeeps ==
    ASSUME DataInv, Resolved
    PROVE  Order' /\ Told' /\ BufferFollows' /\ SnapshotFollows' /\ ReadsFollow' /\ StoreFollows'
<1>1. /\ UNCHANGED <<model, head, unheard, covers, attached, reads, upserts, removals, changes, oldest, flushed>>
      /\ opening \in {"fresh", "again"} /\ opening' = "answered"
      /\ snapshot'.things = CoveredThings
      /\ start' = IF opening = "fresh" THEN head ELSE start
      /\ heard' = IF opening = "fresh" THEN head ELSE heard
      /\ "window" \in spoiled' <=> "window" \in spoiled
  BY DEF Resolved, broker, buffer
<1>2. Order /\ Told /\ BufferFollows /\ ReadsFollow /\ TypeOK /\ {head, oldest, heard, flushed} \subseteq Nat
      /\ unheard \in Seq(Events)
  BY DEF DataInv, TypeOK
<1>3. ThingsBuffered' = ThingsBuffered
  BY <1>1 DEF ThingsBuffered, Empty
<1>4. CoveredThings' = CoveredThings
  BY <1>1, SameThings
<1>5. Order'
  <2>1. flushed <= heard'
    BY <1>1, <1>2 DEF Order
  <2>2. \A i \in DOMAIN unheard : heard' < unheard[i].at
    <3>1. opening = "fresh" => DOMAIN unheard = {}
      BY <1>2 DEF Order
    <3> QED BY <1>1, <1>2, <3>1 DEF Order
  <2> QED BY <1>1, <1>2, <1>3, <2>1, <2>2 DEF Order, Covered
<1>6. Told'
  BY <1>1, <1>2, <1>4 DEF Told
<1>7. SnapshotFollows'
  BY <1>1, <1>4, IsFollows DEF SnapshotFollows
<1>8. StoreFollows'
  BY <1>1 DEF StoreFollows, Settling
<1>9. opening = "fresh" /\ Clean' => ~ThingsBuffered
  BY <1>1, <1>2, <1>3 DEF Clean, Stale, Order
<1>a. opening = "again" => Clean' = Clean
  BY <1>1, <1>3 DEF Clean, Stale
<1>b. BufferFollows'
  <2> SUFFICES ASSUME Clean'
               PROVE  Follows(Buffering(CoveredThings), unheard, CoveredThings, 0)
    BY <1>1, <1>4 DEF BufferFollows, Buffering
  <2>1. CASE opening = "fresh"
    BY <1>2, <1>9, <2>1, EmptyBuffer, CoveredTypes, IsFollows
  <2>2. CASE opening = "again"
    BY <1>2, <1>a, <2>2 DEF BufferFollows
  <2> QED BY <1>1, <2>1, <2>2
<1>c. ReadsFollow'
  <2> SUFFICES ASSUME NEW r \in reads \ {None}
               PROVE  ReadFollows(r)'
    BY <1>1 DEF ReadsFollow
  <2>1. ReadFollows(r) /\ r.at \in Nat /\ r.things \in Held
    BY <1>2 DEF ReadsFollow, TypeOK
  <2>2. CASE opening = "again"
    BY <1>1, <1>4, <1>a, <2>1, <2>2 DEF ReadFollows, Buffering
  <2>3. CASE opening = "fresh"
    <3>1. ASSUME covers = "whole", head <= r.at
          PROVE  r.things = CoveredThings
      <4>1. r.at = head
        BY <1>2, <2>1, <3>1 DEF ReadFollows
      <4> QED BY <1>2, <2>1, <3>1, <4>1, WholeThings DEF ReadFollows
    <3>2. ASSUME covers = "whole", head <= r.at
          PROVE  /\ Clean' => Follows(Buffering(r.things), unheard, CoveredThings, 0)
                 /\ Follows(r.things, unheard, CoveredThings, r.at)
      <4>1. Follows(r.things, unheard, CoveredThings, r.at) /\ Follows(r.things, unheard, CoveredThings, 0)
        BY <3>1, <3>2, IsFollows
      <4>2. ~ThingsBuffered => Buffering(r.things) = r.things
        BY <1>2, <2>1, EmptyBuffer
      <4> QED BY <1>9, <2>3, <4>1, <4>2
    <3> QED BY <1>1, <1>4, <2>1, <2>3, <3>2 DEF ReadFollows, Buffering
  <2> QED BY <1>1, <2>2, <2>3
<1> QED BY <1>5, <1>6, <1>7, <1>8, <1>b, <1>c

LEMMA MadeKeeps ==
    ASSUME DataInv, ReadIsMade
    PROVE  Order' /\ Told' /\ BufferFollows' /\ SnapshotFollows' /\ ReadsFollow' /\ StoreFollows'
<1>1. /\ UNCHANGED <<model, head, unheard, covers, opening, snapshot, attached, start, heard, held, loaded>>
      /\ UNCHANGED <<holdsWholeModel, upserts, removals, changes, oldest, flushed, spoiled>>
      /\ reads' = (reads \ {None}) \union {[things |-> model, at |-> head]}
  BY DEF ReadIsMade, broker, stream, store, buffer
<1>2. Order /\ Told /\ BufferFollows /\ SnapshotFollows /\ ReadsFollow /\ TypeOK /\ head \in Nat /\ unheard \in Seq(Events)
  BY DEF DataInv, TypeOK
<1>3. CoveredThings' = CoveredThings
  BY <1>1, SameThings
<1>4. ThingsBuffered' = ThingsBuffered /\ Stale' = Stale /\ Clean' = Clean
  BY <1>1 DEF ThingsBuffered, Stale, Clean, Empty
<1>5. Order'
  BY <1>1, <1>2, <1>4 DEF Order, Covered
<1>6. Told' /\ SnapshotFollows'
  BY <1>1, <1>2, <1>3 DEF Told, SnapshotFollows
<1>7. BufferFollows'
  BY <1>1, <1>2, <1>3, <1>4 DEF BufferFollows, Buffering
<1>8. StoreFollows'
  <2>1. reads' # {}
    BY <1>1
  <2> QED BY <2>1 DEF StoreFollows, Settling
<1>9. ReadsFollow'
  <2> SUFFICES ASSUME NEW r \in reads' \ {None}
               PROVE  ReadFollows(r)'
    BY DEF ReadsFollow
  <2>1. CASE r \in reads
    <3>1. ReadFollows(r)
      BY <1>2, <2>1 DEF ReadsFollow
    <3> QED BY <1>1, <1>3, <1>4, <3>1 DEF ReadFollows, Buffering
  <2>2. CASE r \notin reads
    <3>1. r.things = model /\ r.at = head
      BY <1>1, <2>2
    <3>2. covers = "whole" => model = CoveredThings
      BY <1>2, WholeThings
    <3>3. covers = "whole" /\ opening # "fresh" /\ Clean => Follows(Buffering(r.things), unheard, CoveredThings, 0)
      BY <1>2, <3>1, <3>2 DEF BufferFollows
    <3>4. covers = "whole" => Follows(r.things, unheard, CoveredThings, r.at)
      BY <3>1, <3>2, IsFollows
    <3> QED BY <1>1, <1>2, <1>3, <1>4, <3>1, <3>3, <3>4 DEF ReadFollows, Buffering
  <2> QED BY <2>1, <2>2
<1> QED BY <1>5, <1>6, <1>7, <1>8, <1>9

LEMMA LoadKeeps ==
    ASSUME DataInv, loadWhatOpened
    PROVE  Order' /\ Told' /\ BufferFollows' /\ SnapshotFollows' /\ ReadsFollow' /\ StoreFollows'
<1>1. /\ UNCHANGED <<model, head, unheard, covers, start, heard, upserts, removals, changes, stateUpdates, oldest, flushed>>
      /\ opening = "answered" /\ opening' = "none" /\ attached' = TRUE
  BY DEF loadWhatOpened, broker, buffer
<1>2. Order /\ Told /\ BufferFollows /\ SnapshotFollows /\ ReadsFollow /\ TypeOK
  BY DEF DataInv
<1>3. CoveredThings' = CoveredThings
  BY <1>1, SameThings
<1>4. ThingsBuffered' = ThingsBuffered /\ Stale' = Stale
  BY <1>1 DEF ThingsBuffered, Stale, Empty
<1>5. Order'
  BY <1>1, <1>2, <1>4 DEF Order, Covered
<1>6. Told'
  BY <1>1, <1>2, <1>3 DEF Told
<1>7. SnapshotFollows'
  BY <1>1 DEF SnapshotFollows
<1>8. covers = "page" => Loads(snapshot.things, FALSE, {}) /\ reads' = reads
  BY DEF loadWhatOpened
<1>9. covers # "page" => /\ covers = "whole" /\ reads' = reads \union {None}
                         /\ UNCHANGED <<held, loaded, holdsWholeModel, spoiled>>
  BY <1>2 DEF loadWhatOpened, store, TypeOK
<1>a. Clean' => Clean \/ ~ThingsBuffered
  <2>1. CASE covers = "page" /\ Buffered
    <3>1. spoiled \subseteq spoiled'
      BY <1>8, <2>1 DEF Loads
    <3> QED BY <1>4, <3>1 DEF Clean
  <2>2. CASE ~Buffered
    BY <2>2 DEF Buffered, ThingsBuffered
  <2>3. CASE covers # "page"
    BY <1>4, <1>9, <2>3 DEF Clean
  <2> QED BY <2>1, <2>2, <2>3
<1>b. Clean' => Follows(Buffering(CoveredThings), unheard, CoveredThings, 0)
  <2>1. ASSUME ~ThingsBuffered PROVE Follows(Buffering(CoveredThings), unheard, CoveredThings, 0)
    BY <1>2, <2>1, EmptyBuffer, CoveredTypes, IsFollows
  <2>2. ASSUME Clean PROVE Follows(Buffering(CoveredThings), unheard, CoveredThings, 0)
    BY <1>1, <1>2, <2>2 DEF BufferFollows
  <2> QED BY <1>a, <2>1, <2>2
<1>c. BufferFollows'
  BY <1>1, <1>3, <1>b DEF BufferFollows, Buffering
<1>d. ReadsFollow'
  <2> SUFFICES ASSUME NEW r \in reads \ {None}
               PROVE  ReadFollows(r)'
    BY <1>8, <1>9 DEF ReadsFollow
  <2>1. ReadFollows(r) /\ r.at \in Nat /\ r.things \in Held
    BY <1>2 DEF ReadsFollow, TypeOK
  <2>2. CASE covers = "whole"
    <3>1. Clean' = Clean
      BY <1>4, <1>9, <2>2 DEF Clean
    <3> QED BY <1>1, <1>3, <2>1, <3>1 DEF ReadFollows, Buffering
  <2>3. CASE covers # "whole"
    BY <1>1, <2>1, <2>3 DEF ReadFollows
  <2> QED BY <2>2, <2>3
<1>e. StoreFollows'
  <2> SUFFICES ASSUME Settling'
               PROVE  /\ Follows(Through(upserts, removals, changes, held'), unheard, CoveredThings, 0)
                      /\ holdsWholeModel' <=> covers = "whole"
    BY <1>1, <1>3 DEF StoreFollows, Buffering
  <2>1. reads' = {} /\ spoiled' \subseteq {"gap", "crossed"}
    BY DEF Settling
  <2>2. covers = "page" /\ held' = snapshot.things /\ holdsWholeModel' = FALSE
    BY <1>8, <1>9, <2>1 DEF Loads
  <2>3. Clean'
    <3>1. "window" \notin spoiled' /\ "buffer" \notin spoiled'
      BY <2>1
    <3>2. ~(Buffered /\ oldest <= start)
      BY <1>8, <2>2, <3>1 DEF Loads
    <3>3. ~Stale
      BY <3>2 DEF Stale, Buffered, ThingsBuffered
    <3> QED BY <1>4, <3>1, <3>3 DEF Clean
  <2>4. Follows(snapshot.things, unheard, CoveredThings, 0)
    BY <1>1, <1>2 DEF SnapshotFollows
  <2>5. Follows(Through(upserts, removals, changes, CoveredThings), unheard, CoveredThings, 0)
    BY <1>b, <2>3 DEF Buffering
  <2> QED BY <2>2, <2>4, <2>5, LoadFollows
<1> QED BY <1>5, <1>6, <1>7, <1>c, <1>d, <1>e

LEMMA AnswerKeeps ==
    ASSUME DataInv, NEW read \in reads \ {None}, ReadAnswers(read)
    PROVE  Order' /\ Told' /\ BufferFollows' /\ SnapshotFollows' /\ ReadsFollow' /\ StoreFollows'
<1>1. /\ UNCHANGED <<model, head, unheard, covers, opening, snapshot, attached, start, heard>>
      /\ UNCHANGED <<upserts, removals, changes, stateUpdates, oldest, flushed>>
      /\ reads' = reads \ {read}
      /\ Loads(read.things, TRUE, IF Overtaken(read) THEN {"read"} ELSE {})
  BY DEF ReadAnswers, broker, stream, buffer
<1>2. Order /\ Told /\ BufferFollows /\ SnapshotFollows /\ ReadsFollow /\ TypeOK
  BY DEF DataInv
<1>3. CoveredThings' = CoveredThings
  BY <1>1, SameThings
<1>4. ThingsBuffered' = ThingsBuffered /\ Stale' = Stale
  BY <1>1 DEF ThingsBuffered, Stale, Empty
<1>5. Order'
  BY <1>1, <1>2, <1>4 DEF Order, Covered
<1>6. Told' /\ SnapshotFollows'
  BY <1>1, <1>2, <1>3 DEF Told, SnapshotFollows
<1>a. Clean' => Clean \/ ~ThingsBuffered
  <2>1. CASE Buffered
    <3>1. spoiled \subseteq spoiled'
      BY <1>1, <2>1 DEF Loads
    <3> QED BY <1>4, <3>1 DEF Clean
  <2>2. CASE ~Buffered
    BY <2>2 DEF Buffered, ThingsBuffered
  <2> QED BY <2>1, <2>2
<1>b. BufferFollows'
  <2>1. ASSUME ~ThingsBuffered PROVE Follows(Buffering(CoveredThings), unheard, CoveredThings, 0)
    BY <1>2, <2>1, EmptyBuffer, CoveredTypes, IsFollows
  <2>2. ASSUME Clean, opening # "fresh" PROVE Follows(Buffering(CoveredThings), unheard, CoveredThings, 0)
    BY <1>2, <2>2 DEF BufferFollows
  <2> QED BY <1>1, <1>3, <1>a, <2>1, <2>2 DEF BufferFollows, Buffering
\* A read that nothing overtook follows, also where the buffer that spoiled it is empty.
<1>c. ASSUME NEW r \in reads \ {None}, Clean', covers = "whole", opening # "fresh", start <= r.at, flushed <= r.at
      PROVE  Follows(Through(upserts, removals, changes, r.things), unheard, CoveredThings, 0)
  <2>1. ReadFollows(r) /\ r.at \in Nat /\ r.things \in Held /\ heard \in Nat /\ unheard \in Seq(Events)
        /\ start \in Nat /\ flushed \in Nat
    BY <1>2 DEF ReadsFollow, TypeOK
  <2>2. CASE Clean
    BY <1>c, <2>1, <2>2 DEF ReadFollows, Buffering
  <2>3. CASE ~ThingsBuffered
    <3>1. heard <= r.at
      BY <1>2, <1>c, <2>1, <2>3 DEF Order
    <3>2. Follows(r.things, unheard, CoveredThings, r.at)
      BY <1>c, <2>1, <3>1 DEF ReadFollows
    <3>3. Follows(r.things, unheard, CoveredThings, 0)
      BY <2>1, <3>2, FollowsEarlier
    <3> QED BY <1>2, <2>1, <2>3, <3>3, EmptyBuffer DEF Buffering
  <2> QED BY <1>a, <1>c, <2>2, <2>3
<1>d. ReadsFollow'
  <2> SUFFICES ASSUME NEW r \in reads \ {None}
               PROVE  ReadFollows(r)'
    BY <1>1 DEF ReadsFollow
  <2>1. ReadFollows(r)
    BY <1>2 DEF ReadsFollow
  <2> QED BY <1>1, <1>3, <1>c, <2>1 DEF ReadFollows, Buffering
<1>e. StoreFollows'
  <2> SUFFICES ASSUME Settling'
               PROVE  /\ Follows(Through(upserts, removals, changes, held'), unheard, CoveredThings, 0)
                      /\ holdsWholeModel' <=> covers = "whole"
    BY <1>1, <1>3 DEF StoreFollows, Buffering
  <2>1. spoiled' \subseteq {"gap", "crossed"}
    BY DEF Settling
  <2>2. "read" \notin spoiled' /\ "window" \notin spoiled' /\ "buffer" \notin spoiled'
    BY <2>1
  <2>3. ~Overtaken(read)
    BY <1>1, <2>2 DEF Loads
  <2>4. ~(Buffered /\ oldest <= start) /\ held' = read.things /\ holdsWholeModel' = TRUE
    BY <1>1, <2>2 DEF Loads
  <2>5. Clean'
    BY <1>4, <2>2, <2>4 DEF Clean, Stale, Buffered, ThingsBuffered
  <2>6. covers = "whole" /\ opening = "none" /\ start <= read.at /\ flushed <= read.at
    BY <1>2, <2>3 DEF Overtaken, TypeOK
  <2> QED BY <1>c, <2>4, <2>5, <2>6
<1> QED BY <1>5, <1>6, <1>b, <1>d, <1>e

LEMMA HearKeeps ==
    ASSUME DataInv, thingArrived \/ thingGone \/ onThingProperty
    PROVE  Order' /\ Told' /\ BufferFollows' /\ SnapshotFollows' /\ ReadsFollow' /\ StoreFollows'
<1> PICK e : e = Head(unheard)
  OBVIOUS
<1>1. /\ UNCHANGED <<model, head, covers, opening, snapshot, attached, start, reads, held, loaded>>
      /\ UNCHANGED <<holdsWholeModel, flushed>>
      /\ attached /\ unheard # <<>>
      /\ unheard' = Tail(unheard) /\ heard' = e.at
      /\ oldest' = IF Buffered /\ oldest # 0 THEN oldest ELSE e.at
  BY DEF thingArrived, thingGone, onThingProperty, Hear, broker, stream, store
<1>2. Order /\ Told /\ BufferFollows /\ SnapshotFollows /\ ReadsFollow /\ StoreFollows /\ TypeOK
  BY DEF DataInv
<1>t. /\ unheard \in Seq(Events) /\ upserts \in Held /\ changes \in Held
      /\ {head, heard, oldest, start, flushed} \subseteq Nat
  BY <1>2 DEF TypeOK
<1>3. /\ e \in Events /\ e = unheard[1] /\ 1 \in DOMAIN unheard
      /\ \A i \in DOMAIN unheard' : unheard'[i] = unheard[i + 1] /\ i + 1 \in DOMAIN unheard
  BY <1>1, <1>t, Taken
<1>4. CoveredThings' = CoveredThings
  BY <1>1, SameThings
<1>5. e.at \in 1 .. head /\ e.of \in Things /\ \A i \in DOMAIN unheard : unheard[i].at > 0
  BY <1>2, <1>3, <1>t, EventTypes DEF Order
<1>6. spoiled \subseteq spoiled'
  BY DEF thingArrived, thingGone, onThingProperty
<1>7. "window" \notin spoiled' => Takes(e, upserts, removals, changes, upserts', removals', changes')
  <2>1. CASE thingArrived
    BY <2>1 DEF thingArrived, Takes
  <2>2. CASE thingGone
    BY <2>2 DEF thingGone, Takes
  <2>3. CASE onThingProperty
    BY <2>3 DEF onThingProperty, Takes
  <2> QED BY <2>1, <2>2, <2>3
<1>8. ThingsBuffered'
  <2>1. CASE thingArrived
    <3>1. e.kind = "arrived" /\ upserts' = [upserts EXCEPT ![e.of] = e.to]
      BY <2>1 DEF thingArrived
    <3>2. upserts'[e.of] # Absent
      BY <1>3, <1>5, <1>t, <3>1, EventTypes DEF Held
    <3> QED BY <1>5, <3>2 DEF ThingsBuffered, Empty
  <2>2. CASE thingGone
    BY <2>2 DEF thingGone, ThingsBuffered
  <2>3. CASE onThingProperty
    <3>1. e.kind = "changed" /\ changes' = [changes EXCEPT ![e.of] = e.to]
      BY <2>3 DEF onThingProperty
    <3>2. changes'[e.of] # Absent
      BY <1>3, <1>5, <1>t, <3>1, EventTypes DEF Held
    <3> QED BY <1>5, <3>2 DEF ThingsBuffered, Empty
  <2> QED BY <2>1, <2>2, <2>3
<1>9. Clean' => Clean
  <2>1. ThingsBuffered => Buffered /\ oldest # 0
    BY <1>2 DEF Order, ThingsBuffered, Buffered
  <2>2. Stale => Stale'
    BY <1>1, <1>8, <2>1 DEF Stale
  <2> QED BY <1>6, <2>2 DEF Clean
<1>a. ASSUME NEW h, "window" \notin spoiled', Follows(Through(upserts, removals, changes, h), unheard, CoveredThings, 0)
      PROVE  Follows(Through(upserts', removals', changes', h), unheard', CoveredThings, 0)
  BY <1>1, <1>2, <1>5, <1>7, <1>a, <1>t, HearFollows DEF Told, TypeOK
<1>b. Order'
  <2>1. \A i \in DOMAIN unheard' : unheard'[i].at \in 1 .. head /\ (covers = "whole" \/ unheard'[i].of \in InPage)
    BY <1>2, <1>3 DEF Order, Covered
  <2>2. oldest' # 0 /\ oldest' <= head
    BY <1>1, <1>2, <1>5, <1>t DEF Order
  <2>3. \A i \in DOMAIN unheard' : /\ i \in Nat /\ e.at < unheard'[i].at
                                   /\ \A j \in DOMAIN unheard' : i < j => unheard'[i].at < unheard'[j].at
    <3> SUFFICES ASSUME NEW i \in DOMAIN unheard'
                 PROVE  /\ i \in Nat /\ e.at < unheard'[i].at
                        /\ \A j \in DOMAIN unheard' : i < j => unheard'[i].at < unheard'[j].at
      OBVIOUS
    <3>1. DOMAIN unheard' = 1 .. Len(unheard) - 1 /\ Len(unheard) \in Nat
      BY <1>1, <1>t, Taken
    <3>2. i \in Nat /\ 1 < i + 1 /\ \A j \in DOMAIN unheard' : i < j => i + 1 < j + 1
      BY <3>1
    <3>3. e.at < unheard[i + 1].at
      BY <1>2, <1>3, <3>2 DEF Order
    <3>4. \A j \in DOMAIN unheard' : i < j => unheard[i + 1].at < unheard[j + 1].at
      BY <1>2, <1>3, <3>2 DEF Order
    <3> QED BY <1>3, <3>2, <3>3, <3>4
  <2>4. flushed <= e.at
    BY <1>2, <1>3, <1>5, <1>t DEF Order
  <2> QED BY <1>1, <1>2, <1>5, <1>8, <2>1, <2>2, <2>3, <2>4 DEF Order, Covered
<1>c. Told'
  BY <1>1, <1>2, <1>4, <1>t, TailTells DEF Told
<1>d. SnapshotFollows'
  BY <1>1, <1>2 DEF SnapshotFollows, Order
<1>e. BufferFollows'
  BY <1>1, <1>2, <1>4, <1>9, <1>a DEF BufferFollows, Buffering, Clean
<1>f. ReadsFollow'
  <2> SUFFICES ASSUME NEW r \in reads \ {None}
               PROVE  ReadFollows(r)'
    BY <1>1 DEF ReadsFollow
  <2>1. ReadFollows(r) /\ r.at \in Nat
    BY <1>2 DEF ReadsFollow, TypeOK
  <2>2. ASSUME covers = "whole", opening # "fresh", start <= r.at, flushed <= r.at
        PROVE  /\ Clean' => Follows(Through(upserts', removals', changes', r.things), unheard', CoveredThings, 0)
               /\ heard' <= r.at => Follows(r.things, unheard', CoveredThings, r.at)
    <3>1. Clean' => Follows(Through(upserts', removals', changes', r.things), unheard', CoveredThings, 0)
      BY <1>9, <1>a, <2>1, <2>2 DEF ReadFollows, Buffering, Clean
    <3>2. ASSUME e.at <= r.at
          PROVE  Follows(r.things, unheard', CoveredThings, r.at)
      <4>1. heard <= r.at
        BY <1>2, <1>3, <1>t, <2>1, <3>2 DEF Order
      <4> QED BY <1>1, <1>t, <2>1, <2>2, <3>2, <4>1, TailFollowsAfter DEF ReadFollows
    <3> QED BY <1>1, <3>1, <3>2
  <2> QED BY <1>1, <1>4, <2>1, <2>2 DEF ReadFollows, Buffering
<1>g. StoreFollows'
  <2> SUFFICES ASSUME Settling'
               PROVE  /\ Follows(Through(upserts', removals', changes', held), unheard', CoveredThings, 0)
                      /\ holdsWholeModel <=> covers = "whole"
    BY <1>1, <1>4 DEF StoreFollows, Buffering
  <2>1. Settling /\ "window" \notin spoiled'
    BY <1>1, <1>6 DEF Settling
  <2> QED BY <1>2, <1>a, <2>1 DEF StoreFollows, Buffering
<1> QED BY <1>b, <1>c, <1>d, <1>e, <1>f, <1>g

LEMMA FlushKeeps ==
    ASSUME DataInv, flush
    PROVE  Order' /\ Told' /\ BufferFollows' /\ SnapshotFollows' /\ ReadsFollow' /\ StoreFollows'
<1>1. /\ UNCHANGED <<model, head, unheard, covers, opening, snapshot, attached, start, heard, reads>>
      /\ UNCHANGED <<loaded, holdsWholeModel, spoiled>>
      /\ held' = Applied
      /\ upserts' = Empty /\ removals' = {} /\ changes' = Empty
      /\ oldest' = 0 /\ flushed' = heard
  BY DEF flush, broker, stream
<1>2. Order /\ Told /\ BufferFollows /\ SnapshotFollows /\ ReadsFollow /\ StoreFollows /\ TypeOK
  BY DEF DataInv
<1>3. CoveredThings' = CoveredThings
  BY <1>1, SameThings
<1>4. ~ThingsBuffered' /\ ~Stale'
  BY <1>1 DEF ThingsBuffered, Stale, Empty
<1>5. ASSUME NEW h \in Held
      PROVE  Through(upserts', removals', changes', h) = h
  BY <1>1, <1>5, ThroughNothing
<1>6. Order'
  <2>1. 0 <= head /\ heard <= heard
    BY <1>2 DEF TypeOK
  <2> QED BY <1>1, <1>2, <1>4, <2>1 DEF Order, Covered
<1>7. Told' /\ SnapshotFollows'
  BY <1>1, <1>2, <1>3 DEF Told, SnapshotFollows
<1>8. BufferFollows'
  BY <1>2, <1>3, <1>5, CoveredTypes, IsFollows DEF BufferFollows, Buffering
<1>9. ReadsFollow'
  <2> SUFFICES ASSUME NEW r \in reads \ {None}
               PROVE  ReadFollows(r)'
    BY <1>1 DEF ReadsFollow
  <2>1. ReadFollows(r) /\ r.at \in Nat /\ r.things \in Held /\ heard \in Nat /\ flushed \in Nat /\ start \in Nat
        /\ unheard \in Seq(Events)
    BY <1>2 DEF ReadsFollow, TypeOK
  <2>2. ASSUME covers = "whole", opening # "fresh", start <= r.at, heard <= r.at
        PROVE  Follows(r.things, unheard, CoveredThings, r.at)
    <3>1. flushed <= r.at
      BY <1>2, <2>1, <2>2 DEF Order
    <3> QED BY <2>1, <2>2, <3>1 DEF ReadFollows
  <2>3. ASSUME covers = "whole", opening # "fresh", start <= r.at, heard <= r.at
        PROVE  Follows(Through(upserts', removals', changes', r.things), unheard, CoveredThings, 0)
    BY <1>5, <2>1, <2>2, <2>3, FollowsEarlier
  <2> QED BY <1>1, <1>3, <2>1, <2>2, <2>3 DEF ReadFollows, Buffering
<1>a. StoreFollows'
  <2> SUFFICES ASSUME Settling
               PROVE  /\ Follows(Through(upserts', removals', changes', held'), unheard, CoveredThings, 0)
                      /\ holdsWholeModel <=> covers = "whole"
    BY <1>1, <1>3 DEF StoreFollows, Buffering, Settling
  <2>1. held' = Buffering(held) /\ held' \in Held
    BY <1>1, <1>2, AppliedTypes DEF Buffering
  <2>2. Through(upserts', removals', changes', held') = Buffering(held)
    BY <1>5, <2>1
  <2> QED BY <1>2, <2>2 DEF StoreFollows
<1> QED BY <1>6, <1>7, <1>8, <1>9, <1>a

LEMMA NextData == DataInv /\ [Next]_vars => DataInv'
<1> SUFFICES ASSUME DataInv, [Next]_vars PROVE DataInv'
  OBVIOUS
<1> DEFINE Kept == Order' /\ Told' /\ BufferFollows' /\ SnapshotFollows' /\ ReadsFollow' /\ StoreFollows'
<1>t. TypeOK /\ TypeOK' /\ Order
  BY NextType DEF DataInv
<1>1. ASSUME NEW t \in Things, Goes(t) PROVE Kept
  BY <1>1, <1>t, CommitKeeps, Committed DEF Goes, Said, Property
<1>2. ASSUME NEW t \in Things, NEW v \in Property, Changes(t, v) PROVE Kept
  <2>1. v # Absent
    BY DataAssumption DEF Property
  <2> QED BY <1>2, <1>t, <2>1, CommitKeeps, Committed DEF Changes, Said
<1>3. ASSUME NEW t \in Things, NEW v \in Values, Arrives(t, v) PROVE Kept
  <2>1. v \in Property
    BY DEF Property
  <2> QED BY <1>3, <1>t, <2>1, CommitKeeps, Committed DEF Arrives, Said
<1>4. ASSUME \/ \E t \in Things, m \in Moods : StateMoves(t, m)
             \/ reloadModelData \/ onStatesChanged
             \/ \E read \in reads : ReadFails(read)
             \/ UNCHANGED vars
      PROVE  Kept
  <2>1. CASE \E t \in Things, m \in Moods : StateMoves(t, m)
    BY <2>1, ElseKeeps DEF StateMoves, stream, store, buffer
  <2>2. CASE reloadModelData
    BY <2>2, ElseKeeps DEF reloadModelData, broker, store, buffer
  <2>3. CASE onStatesChanged
    BY <2>3, ElseKeeps DEF onStatesChanged, broker, stream, store
  <2>4. CASE \E read \in reads : ReadFails(read)
    BY <2>4, ElseKeeps DEF ReadFails, broker, stream, store, buffer
  <2>5. CASE UNCHANGED vars
    BY <2>5, ElseKeeps DEF vars, broker, stream, store, buffer
  <2> QED BY <1>4, <2>1, <2>2, <2>3, <2>4, <2>5
<1>5. ASSUME \/ \E next \in {"page", "whole"} : leaveANarrowedSet(next)
             \/ ModelChanged \/ Reconnects
      PROVE  Kept
  <2>1. covers \in {"page", "whole"}
    BY <1>t DEF TypeOK
  <2>2. CASE \E next \in {"page", "whole"} : leaveANarrowedSet(next)
    BY <2>2, OpenKeeps DEF leaveANarrowedSet
  <2>3. CASE ModelChanged
    BY <2>1, <2>3, OpenKeeps DEF ModelChanged
  <2>4. CASE Reconnects
    BY <2>1, <2>4, OpenKeeps DEF Reconnects
  <2> QED BY <1>5, <2>2, <2>3, <2>4
<1>6. ASSUME \/ ModelCleared \/ Resolved \/ loadWhatOpened \/ ReadIsMade
             \/ \E read \in reads \ {None} : ReadAnswers(read)
             \/ thingArrived \/ thingGone \/ onThingProperty \/ flush
      PROVE  Kept
  BY <1>6, ClearedKeeps, ResolvedKeeps, LoadKeeps, MadeKeeps, AnswerKeeps, HearKeeps, FlushKeeps
<1>7. Kept
  <2>1. CASE UNCHANGED vars
    BY <1>4, <2>1
  <2>2. CASE Next
    BY <1>1, <1>2, <1>3, <1>4, <1>5, <1>6, <2>2 DEF Next
  <2> QED BY <2>1, <2>2
<1> QED BY <1>t, <1>7 DEF DataInv

\* Nothing on its way and nothing buffered: the store holds what is covered.
LEMMA DataIsExact == DataInv => StoreIsExact
<1> SUFFICES ASSUME DataInv, Quiet, spoiled \subseteq {"gap", "crossed"}
             PROVE  held = CoveredThings /\ (holdsWholeModel <=> covers = "whole")
  BY DEF StoreIsExact
<1>1. /\ Settling /\ unheard = <<>> /\ DOMAIN unheard = {} /\ ~ThingsBuffered
  BY DEF Quiet, Settling, Buffered, ThingsBuffered
<1>2. TypeOK /\ held \in Held /\ CoveredThings \in Held
  BY CoveredTypes DEF DataInv, TypeOK
<1>3. Follows(held, unheard, CoveredThings, 0) /\ (holdsWholeModel <=> covers = "whole")
  BY <1>1, <1>2, EmptyBuffer DEF DataInv, StoreFollows
<1>4. \A t \in Things : held[t] = CoveredThings[t]
  BY <1>1, <1>3 DEF Follows, Silent
<1>5. held = CoveredThings
  BY <1>2, <1>4 DEF Held
<1> QED BY <1>3, <1>5

\* Whatever arrived, went, was loaded, read and replayed, for any model and any number of opens: once everything is
\* answered, heard and applied, and no load crossed the buffer or another read, the store holds what is covered.
THEOREM TheStoreIsExact == Spec => []StoreIsExact
<1>1. Spec => []DataInv
  BY InitData, NextData, PTL DEF Spec
<1> QED BY <1>1, DataIsExact, PTL

-----------------------------------------------------------------------------
(* The states that are drawn *)

MoodChanges == [of : Things, to : Moods]

NoMood(s, t) == \A i \in DOMAIN s : s[i].of # t

\* Once every arrival and departure of q and every change of state in s was heard, f is g.
States(f, q, s, g) == \A t \in Things : Settled(q, t, 0) /\ NoMood(s, t) => f[t] = g[t]

\* The last change of state of a Thing tells the state it has.
MoodsTell == /\ ~attached => moods = <<>>
             /\ \A i \in DOMAIN moods : (\A j \in DOMAIN moods : moods[j].of = moods[i].of => j <= i)
                                           => moods[i].to = mood[moods[i].of]

\* An arrival tells the state its Thing still has.
ArrivalsTell == "crossed" \notin spoiled =>
                   \A i \in DOMAIN unheard : unheard[i].kind = "arrived" => unheard[i].state = mood[unheard[i].of]

SnapshotStates == opening = "answered" /\ "gap" \notin spoiled => States(snapshot.states, unheard, <<>>, CoveredStates)

\* A state is of a Thing that is there, and no Thing is buffered as an arrival and as a departure.
StatesOfHeld == \A t \in Things : /\ held[t] = Absent => states[t] = Absent
                                  /\ snapshot.things[t] = Absent => snapshot.states[t] = Absent
                                  /\ upserts[t] # Absent => t \notin removals

StatesFollow == Settling /\ spoiled = {} /\ covers = "page" => States(AppliedStates, unheard, moods, CoveredStates)

StatesInv == MoodsTell /\ ArrivalsTell /\ SnapshotStates /\ StatesOfHeld /\ StatesFollow

-----------------------------------------------------------------------------
LEMMA InitStates == Init => StatesInv
<1> SUFFICES ASSUME Init PROVE StatesInv
  OBVIOUS
<1>1. MoodsTell /\ ArrivalsTell
  BY DEF Init, MoodsTell, ArrivalsTell
<1>2. SnapshotStates /\ StatesFollow
  BY DEF Init, SnapshotStates, StatesFollow, Settling
<1>3. StatesOfHeld
  BY DEF Init, StatesOfHeld, NoSnapshot, Empty
<1> QED BY <1>1, <1>2, <1>3 DEF StatesInv

LEMMA SameAppliedStates ==
    ASSUME UNCHANGED <<upserts, removals, changes, stateUpdates, held, states>>
    PROVE  AppliedStates' = AppliedStates
BY DEF AppliedStates, Applied

LEMMA SameStates ==
    ASSUME model' = model, mood' = mood, covers' = covers
    PROVE  CoveredStates' = CoveredStates
BY DEF CoveredStates, Covered

LEMMA CommitKeepsStates ==
    ASSUME DataInv, StatesInv, NEW t \in Things, NEW x \in Property \union {Absent}, NEW e \in Events, Commit(t, x, e),
           e.of = t, e.at = head + 1,
           e.kind = "changed" => model[t] # Absent /\ x # Absent,
           e.kind = "arrived" => e.state = mood[t]
    PROVE  StatesInv'
<1>1. /\ UNCHANGED <<covers, opening, snapshot, attached, reads, held, states, loaded, mood, moods>>
      /\ UNCHANGED <<upserts, removals, changes, stateUpdates, spoiled>>
      /\ model' = [model EXCEPT ![t] = x]
      /\ unheard' = IF Covered(t) /\ opening # "fresh" THEN Append(unheard, e) ELSE unheard
  BY DEF Commit, stream, store, buffer
<1>2. TypeOK /\ unheard \in Seq(Events) /\ head \in Nat
  BY DEF DataInv, TypeOK
<1>3. /\ DOMAIN unheard = 1 .. Len(unheard) /\ Len(unheard) \in Nat
      /\ DOMAIN Append(unheard, e) = 1 .. Len(unheard) + 1 /\ Append(unheard, e)[Len(unheard) + 1] = e
      /\ \A i \in DOMAIN unheard : Append(unheard, e)[i] = unheard[i]
  BY <1>2, Appended
<1>4. Settling' = Settling /\ AppliedStates' = AppliedStates
  BY <1>1, SameAppliedStates DEF Settling
<1>5. MoodsTell' /\ StatesOfHeld'
  BY <1>1 DEF StatesInv, MoodsTell, StatesOfHeld
<1>6. ArrivalsTell'
  <2>1. CASE Covered(t) /\ opening # "fresh"
    <3>1. unheard' = Append(unheard, e) /\ DOMAIN unheard' = DOMAIN unheard \union {Len(unheard) + 1}
      BY <1>1, <1>3, <2>1
    <3> QED BY <1>1, <1>3, <3>1 DEF StatesInv, ArrivalsTell
  <2>2. CASE ~(Covered(t) /\ opening # "fresh")
    BY <1>1, <2>2 DEF StatesInv, ArrivalsTell
  <2> QED BY <2>1, <2>2
<1>7. ASSUME NEW f, NEW s, opening # "fresh", States(f, unheard, s, CoveredStates)
      PROVE  States(f, unheard', s, CoveredStates')
  <2> SUFFICES ASSUME NEW u \in Things, Settled(unheard', u, 0), NoMood(s, u)
               PROVE  f[u] = CoveredStates'[u]
    BY DEF States
  <2>1. Settled(unheard, u, 0)
    BY <1>1, <1>3, <1>7 DEF Settled
  <2>2. f[u] = CoveredStates[u]
    BY <1>7, <2>1 DEF States
  <2>3. u = t /\ Covered(t) => e.kind = "changed"
    <3> SUFFICES ASSUME u = t, Covered(t) PROVE e.kind = "changed"
      OBVIOUS
    <3>1. unheard' = Append(unheard, e) /\ Len(unheard) + 1 \in DOMAIN unheard'
      BY <1>1, <1>3, <1>7
    <3> QED BY <1>2, <1>3, <3>1 DEF Settled
  <2>4. CoveredStates'[u] = CoveredStates[u]
    <3>1. CASE Covered(u)
      BY <1>1, <1>2, <2>3, <3>1 DEF CoveredStates, Covered, TypeOK, Held
    <3>2. CASE ~Covered(u)
      BY <1>1, <3>2 DEF CoveredStates, Covered
    <3> QED BY <3>1, <3>2
  <2> QED BY <2>2, <2>4
<1>8. SnapshotStates'
  BY <1>1, <1>7 DEF StatesInv, SnapshotStates
<1>9. StatesFollow'
  BY <1>1, <1>4, <1>7 DEF StatesInv, StatesFollow, Settling
<1> QED BY <1>5, <1>6, <1>8, <1>9 DEF StatesInv

LEMMA MoodKeepsStates ==
    ASSUME DataInv, StatesInv, NEW t \in Things, NEW m \in Moods, StateMoves(t, m)
    PROVE  StatesInv'
<1>1. /\ UNCHANGED <<model, unheard, covers, opening, snapshot, attached, reads, held, states, loaded>>
      /\ UNCHANGED <<upserts, removals, changes, stateUpdates>>
      /\ mood' = [mood EXCEPT ![t] = m]
      /\ moods' = IF attached THEN Append(moods, [of |-> t, to |-> m]) ELSE moods
      /\ spoiled \subseteq spoiled'
      /\ opening = "answered" => "gap" \in spoiled'
      /\ (\E i \in 1 .. Len(unheard) : unheard[i].of = t) => "crossed" \in spoiled'
  BY DEF StateMoves, stream, store, buffer
<1>2. TypeOK /\ Order /\ unheard \in Seq(Events) /\ moods \in Seq(MoodChanges)
  BY DEF DataInv, TypeOK, MoodChanges
<1> PICK e : e = [of |-> t, to |-> m]
  OBVIOUS
<1>3. /\ DOMAIN moods = 1 .. Len(moods) /\ Len(moods) \in Nat
      /\ DOMAIN Append(moods, e) = DOMAIN moods \union {Len(moods) + 1} /\ Append(moods, e)[Len(moods) + 1] = e
      /\ \A i \in DOMAIN moods : Append(moods, e)[i] = moods[i] /\ i < Len(moods) + 1 /\ ~(Len(moods) + 1 <= i)
      /\ \A i \in DOMAIN moods : moods[i].of \in Things
  <2>1. e \in MoodChanges
    BY DEF MoodChanges
  <2>2. /\ DOMAIN moods = 1 .. Len(moods) /\ Len(moods) \in Nat
        /\ \A i \in DOMAIN moods : moods[i] \in MoodChanges
    BY <1>2
  <2>3. /\ Append(moods, e) \in Seq(MoodChanges) /\ Len(Append(moods, e)) = Len(moods) + 1
        /\ \A i \in 1 .. Len(moods) : Append(moods, e)[i] = moods[i]
        /\ Append(moods, e)[Len(moods) + 1] = e
    BY <1>2, <2>1, AppendProperties
  <2>4. DOMAIN Append(moods, e) = 1 .. Len(moods) + 1
    BY <2>3
  <2>5. \A i \in DOMAIN moods : moods[i].of \in Things
    BY <2>2 DEF MoodChanges
  <2>6. DOMAIN Append(moods, e) = DOMAIN moods \union {Len(moods) + 1}
    BY <2>2, <2>4
  <2>7. \A i \in DOMAIN moods : i < Len(moods) + 1 /\ ~(Len(moods) + 1 <= i)
    BY <2>2
  <2> QED BY <2>2, <2>3, <2>5, <2>6, <2>7
<1>4. \A u \in Things : mood'[u] = IF u = t THEN m ELSE mood[u]
  BY <1>1, <1>2 DEF TypeOK
<1>5. MoodsTell'
  <2>1. ~attached => moods' = <<>>
    BY <1>1 DEF StatesInv, MoodsTell
  <2>2. ASSUME attached, NEW i \in DOMAIN moods', \A j \in DOMAIN moods' : moods'[j].of = moods'[i].of => j <= i
        PROVE  moods'[i].to = mood'[moods'[i].of]
    <3>1. moods' = Append(moods, e)
      BY <1>1, <2>2
    <3>2. CASE i = Len(moods) + 1
      BY <1>3, <1>4, <3>1, <3>2
    <3>3. CASE i # Len(moods) + 1
      <4>1. i \in DOMAIN moods /\ moods'[i] = moods[i] /\ Len(moods) + 1 \in DOMAIN moods' /\ moods'[Len(moods) + 1] = e
        BY <1>3, <2>2, <3>1, <3>3
      <4>2. moods[i].of # t
        BY <1>3, <2>2, <4>1
      <4>3. \A j \in DOMAIN moods : moods[j].of = moods[i].of => j <= i
        BY <1>3, <2>2, <3>1, <4>1
      <4>4. moods[i].to = mood[moods[i].of]
        BY <4>1, <4>3 DEF StatesInv, MoodsTell
      <4> QED BY <1>3, <1>4, <4>1, <4>2, <4>4
    <3> QED BY <3>2, <3>3
  <2>3. ~attached => DOMAIN moods' = {}
    BY <2>1
  <2> QED BY <1>1, <2>1, <2>2, <2>3 DEF MoodsTell
<1>6. ArrivalsTell'
  <2> SUFFICES ASSUME "crossed" \notin spoiled', NEW i \in DOMAIN unheard, unheard[i].kind = "arrived"
               PROVE  unheard[i].state = mood'[unheard[i].of]
    BY <1>1 DEF ArrivalsTell
  <2>1. unheard[i].of # t /\ unheard[i].of \in Things
    BY <1>1, <1>2, EventTypes
  <2> QED BY <1>1, <1>4, <2>1 DEF StatesInv, ArrivalsTell
<1>7. SnapshotStates'
  BY <1>1 DEF SnapshotStates
<1>8. StatesOfHeld'
  BY <1>1 DEF StatesInv, StatesOfHeld
<1>9. StatesFollow'
  <2> SUFFICES ASSUME Settling', spoiled' = {}, covers = "page"
               PROVE  States(AppliedStates, unheard, moods', CoveredStates')
    BY <1>1, SameAppliedStates DEF StatesFollow
  <2>1. Settling /\ spoiled = {} /\ attached
    BY <1>1, <1>2 DEF Settling, Order
  <2>2. States(AppliedStates, unheard, moods, CoveredStates)
    BY <2>1 DEF StatesInv, StatesFollow
  <2> SUFFICES ASSUME NEW u \in Things, Settled(unheard, u, 0), NoMood(moods', u)
               PROVE  AppliedStates[u] = CoveredStates'[u]
    BY DEF States
  <2>3. moods' = Append(moods, e) /\ Len(moods) + 1 \in DOMAIN moods' /\ moods'[Len(moods) + 1] = e
    BY <1>1, <1>3, <2>1
  <2>4. u # t /\ NoMood(moods, u)
    BY <1>3, <2>3 DEF NoMood
  <2>5. CoveredStates'[u] = CoveredStates[u]
    BY <1>1, <1>4, <2>4 DEF CoveredStates, Covered
  <2> QED BY <2>2, <2>4, <2>5 DEF States
<1> QED BY <1>5, <1>6, <1>7, <1>8, <1>9 DEF StatesInv

\* What changes nothing that is drawn, nor what is on its way to it.
LEMMA ElseKeepsStates ==
    ASSUME DataInv, StatesInv,
           UNCHANGED <<model, mood, unheard, moods, covers, opening, snapshot, attached, held, states, loaded>>,
           UNCHANGED <<upserts, removals, changes, stateUpdates>>,
           spoiled \subseteq spoiled',
           reads' = {} => reads = {} \/ "failed" \in spoiled'
    PROVE  StatesInv'
<1>1. CoveredStates' = CoveredStates /\ AppliedStates' = AppliedStates
  BY SameStates, SameAppliedStates
<1>2. MoodsTell'
  BY DEF StatesInv, MoodsTell
<1>3. ArrivalsTell'
  BY DEF StatesInv, ArrivalsTell
<1>4. SnapshotStates'
  BY <1>1 DEF StatesInv, SnapshotStates
<1>5. StatesOfHeld'
  BY DEF StatesInv, StatesOfHeld
<1>6. StatesFollow'
  BY <1>1 DEF StatesInv, StatesFollow, Settling
<1> QED BY <1>2, <1>3, <1>4, <1>5, <1>6 DEF StatesInv

LEMMA OpenKeepsStates ==
    ASSUME DataInv, StatesInv, NEW next \in {"page", "whole"}, NEW position \in {"fresh", "again"},
           Opens(next, position), spoiled' = spoiled, clear \/ UNCHANGED store
    PROVE  StatesInv'
<1>1. /\ UNCHANGED <<mood, upserts, removals, spoiled>>
      /\ moods' = <<>> /\ opening' = position /\ snapshot' = NoSnapshot
      /\ unheard' = IF position = "fresh" THEN <<>> ELSE unheard
  BY DEF Opens, broker, buffer
<1>2. MoodsTell'
  BY <1>1 DEF MoodsTell
<1>3. ArrivalsTell'
  BY <1>1 DEF StatesInv, ArrivalsTell
<1>4. SnapshotStates' /\ StatesFollow'
  BY <1>1 DEF SnapshotStates, StatesFollow, Settling
<1>5. StatesOfHeld'
  <2>1. \A t \in Things : held'[t] = Absent => states'[t] = Absent
    BY DEF StatesInv, StatesOfHeld, clear, store, Empty
  <2>2. \A t \in Things : snapshot'.states[t] = Absent
    BY <1>1 DEF NoSnapshot, Empty
  <2> QED BY <1>1, <2>1, <2>2 DEF StatesInv, StatesOfHeld
<1> QED BY <1>2, <1>3, <1>4, <1>5 DEF StatesInv

LEMMA ClearedKeepsStates ==
    ASSUME DataInv, StatesInv, ModelCleared
    PROVE  StatesInv'
<1>1. /\ UNCHANGED <<mood, moods, opening, snapshot, attached, upserts, removals, spoiled>>
      /\ unheard' = <<>> /\ DOMAIN unheard' = {} /\ opening = "none"
      /\ loaded' = FALSE /\ held' = Empty /\ states' = Empty
  BY DEF ModelCleared, clear, buffer, DataInv, Order
<1>2. MoodsTell' /\ ArrivalsTell' /\ SnapshotStates' /\ StatesFollow'
  BY <1>1 DEF StatesInv, MoodsTell, ArrivalsTell, SnapshotStates, StatesFollow, Settling
<1>3. StatesOfHeld'
  BY <1>1 DEF StatesInv, StatesOfHeld, Empty
<1> QED BY <1>2, <1>3 DEF StatesInv

LEMMA ResolvedKeepsStates ==
    ASSUME DataInv, StatesInv, Resolved
    PROVE  StatesInv'
<1>1. /\ UNCHANGED <<model, mood, unheard, moods, covers, attached, held, states, upserts, removals>>
      /\ opening \in {"fresh", "again"} /\ opening' = "answered"
      /\ snapshot' = [things |-> CoveredThings, states |-> CoveredStates]
      /\ spoiled' = spoiled \ (IF opening = "fresh" THEN {"gap", "crossed"} ELSE {"gap"})
  BY DEF Resolved, broker, store, buffer
<1>2. MoodsTell'
  BY <1>1 DEF StatesInv, MoodsTell
<1>3. ArrivalsTell'
  <2>1. opening = "fresh" => DOMAIN unheard = {}
    BY DEF DataInv, Order
  <2> QED BY <1>1, <2>1 DEF StatesInv, ArrivalsTell
<1>4. SnapshotStates'
  <2>1. CoveredStates' = CoveredStates
    BY <1>1, SameStates
  <2> QED BY <1>1, <2>1 DEF SnapshotStates, States
<1>5. StatesOfHeld'
  <2>1. \A t \in Things : CoveredThings[t] = Absent => CoveredStates[t] = Absent
    BY DEF CoveredThings, CoveredStates
  <2> QED BY <1>1, <2>1 DEF StatesInv, StatesOfHeld
<1>6. StatesFollow'
  BY <1>1 DEF StatesFollow, Settling
<1> QED BY <1>2, <1>3, <1>4, <1>5, <1>6 DEF StatesInv

LEMMA LoadKeepsStates ==
    ASSUME DataInv, StatesInv, loadWhatOpened
    PROVE  StatesInv'
<1>1. /\ UNCHANGED <<model, mood, unheard, moods, covers, start, upserts, removals, changes, stateUpdates, oldest>>
      /\ opening = "answered" /\ opening' = "none" /\ attached' = TRUE /\ snapshot' = NoSnapshot
  BY DEF loadWhatOpened, broker, buffer
<1>2. covers = "page" => Loads(snapshot.things, FALSE, {}) /\ states' = snapshot.states
  BY DEF loadWhatOpened
<1>3. covers # "page" => UNCHANGED <<held, states, loaded, holdsWholeModel, spoiled>>
  BY DEF loadWhatOpened, store
<1>4. moods = <<>>
  BY <1>1 DEF DataInv, Order, StatesInv, MoodsTell
<1>5. MoodsTell'
  BY <1>1, <1>4 DEF MoodsTell
<1>6. "crossed" \in spoiled => "crossed" \in spoiled'
  BY <1>2, <1>3 DEF Loads
<1>7. ArrivalsTell'
  BY <1>1, <1>6 DEF StatesInv, ArrivalsTell
<1>8. SnapshotStates'
  BY <1>1 DEF SnapshotStates
<1>9. StatesOfHeld'
  <2>1. \A t \in Things : held'[t] = Absent => states'[t] = Absent
    BY <1>2, <1>3 DEF StatesInv, StatesOfHeld, Loads
  <2>2. \A t \in Things : NoSnapshot.states[t] = Absent
    BY DEF NoSnapshot, Empty
  <2> QED BY <1>1, <2>1, <2>2 DEF StatesInv, StatesOfHeld
<1>a. StatesFollow'
  <2> SUFFICES ASSUME Settling', spoiled' = {}, covers = "page",
                      NEW t \in Things, Settled(unheard, t, 0)
               PROVE  AppliedStates'[t] = CoveredStates[t]
    BY <1>1, SameStates DEF StatesFollow, States
  <2>1. Loads(snapshot.things, FALSE, {}) /\ states' = snapshot.states
    BY <1>2
  <2>2. stateUpdates = Empty /\ "gap" \notin spoiled
    BY <2>1 DEF Loads
  <2>3. ~(Buffered /\ oldest <= start) /\ (Buffered => "window" \notin spoiled)
    BY <2>1 DEF Loads
  <2>4. ThingsBuffered => Clean
    BY <2>3 DEF ThingsBuffered, Clean, Stale, Buffered
  <2>5. snapshot.states[t] = CoveredStates[t]
    BY <1>1, <2>2 DEF StatesInv, SnapshotStates, States, NoMood
  <2>6. ASSUME t \in removals
        PROVE  CoveredStates[t] = Absent
    <3>1. ThingsBuffered
      BY <2>6 DEF ThingsBuffered
    <3>2. Follows(Buffering(CoveredThings), unheard, CoveredThings, 0)
      BY <1>1, <2>4, <3>1 DEF DataInv, BufferFollows
    <3>3. Buffering(CoveredThings)[t] = Absent
      BY <2>6 DEF Buffering, Through, Present, StatesInv, StatesOfHeld
    <3>4. CoveredThings[t] = Absent
      BY <3>2, <3>3 DEF Follows
    <3> QED BY <3>4 DEF CoveredThings, CoveredStates
  <2>7. AppliedStates'[t] = IF t \in removals THEN Absent ELSE states'[t]
    BY <1>1, <2>2 DEF AppliedStates, Empty
  <2> QED BY <2>1, <2>5, <2>6, <2>7
<1> QED BY <1>5, <1>7, <1>8, <1>9, <1>a DEF StatesInv

LEMMA AnswerKeepsStates ==
    ASSUME DataInv, StatesInv, NEW read \in reads \ {None}, ReadAnswers(read)
    PROVE  StatesInv'
<1>1. /\ UNCHANGED <<mood, unheard, moods, covers, opening, snapshot, attached, upserts, removals>>
      /\ Loads(read.things, TRUE, IF Overtaken(read) THEN {"read"} ELSE {})
      /\ states' = Empty /\ model' = model
  BY DEF ReadAnswers, broker, stream, buffer
<1>2. MoodsTell'
  BY <1>1 DEF StatesInv, MoodsTell
<1>3. \A w \in {"gap", "crossed"} : w \in spoiled => w \in spoiled'
  BY <1>1 DEF Loads
<1>4. ArrivalsTell'
  BY <1>1, <1>3 DEF StatesInv, ArrivalsTell
<1>5. SnapshotStates'
  BY <1>1, <1>3, SameStates DEF StatesInv, SnapshotStates
<1>6. StatesOfHeld'
  BY <1>1 DEF StatesInv, StatesOfHeld, Empty
<1>7. StatesFollow'
  <2>1. covers = "page" => "read" \in spoiled'
    BY <1>1 DEF Overtaken, Loads
  <2> QED BY <1>1, <2>1 DEF StatesFollow
<1> QED BY <1>2, <1>4, <1>5, <1>6, <1>7 DEF StatesInv

LEMMA HearKeepsStates ==
    ASSUME DataInv, StatesInv, thingArrived \/ thingGone \/ onThingProperty
    PROVE  StatesInv'
<1> PICK e : e = Head(unheard)
  OBVIOUS
<1>1. /\ UNCHANGED <<model, mood, moods, covers, opening, snapshot, attached, reads, held, states, loaded>>
      /\ UNCHANGED holdsWholeModel
      /\ attached /\ unheard # <<>> /\ unheard' = Tail(unheard)
  BY DEF thingArrived, thingGone, onThingProperty, Hear, broker, stream, store
<1>2. Order /\ Told /\ StoreFollows /\ TypeOK
  BY DEF DataInv
<1>t. unheard \in Seq(Events) /\ upserts \in Held /\ changes \in Held /\ stateUpdates \in HeldStates
  BY <1>2 DEF TypeOK
<1>3. /\ e \in Events /\ e = unheard[1] /\ 1 \in DOMAIN unheard
      /\ \A i \in DOMAIN unheard' : unheard'[i] = unheard[i + 1] /\ i + 1 \in DOMAIN unheard
  BY <1>1, <1>t, Taken
<1>4. /\ e.of \in Things /\ Covered(e.of)
      /\ e.kind # "gone" => e.to # Absent
      /\ e.kind = "arrived" => e.state # Absent
      /\ \A i \in DOMAIN unheard : unheard[i].at > 0
  BY <1>2, <1>3, EventTypes DEF Order
<1>5. spoiled \subseteq spoiled'
  BY DEF thingArrived, thingGone, onThingProperty
<1>6. MoodsTell'
  BY <1>1 DEF StatesInv, MoodsTell
<1>7. ArrivalsTell'
  BY <1>1, <1>3, <1>5 DEF StatesInv, ArrivalsTell
<1>8. SnapshotStates'
  BY <1>1, <1>2 DEF SnapshotStates, Order
<1>9. StatesOfHeld'
  <2>1. \A t \in Things : upserts'[t] # Absent => t \notin removals'
    <3>1. CASE thingArrived
      BY <1>4, <1>t, <3>1 DEF thingArrived, StatesInv, StatesOfHeld, Held
    <3>2. CASE thingGone
      BY <1>4, <1>t, <3>2 DEF thingGone, StatesInv, StatesOfHeld, Held
    <3>3. CASE onThingProperty
      BY <3>3 DEF onThingProperty, StatesInv, StatesOfHeld
    <3> QED BY <3>1, <3>2, <3>3
  <2> QED BY <1>1, <2>1 DEF StatesInv, StatesOfHeld
<1>a. StatesFollow'
  <2> SUFFICES ASSUME Settling', spoiled' = {}, covers = "page",
                      NEW t \in Things, Settled(Tail(unheard), t, 0), NoMood(moods, t)
               PROVE  AppliedStates'[t] = CoveredStates[t]
    BY <1>1, SameStates DEF StatesFollow, States
  <2>1. Settling /\ spoiled = {}
    BY <1>1, <1>5 DEF Settling
  <2>2. holdsNarrowedSet
    BY <1>2, <2>1 DEF StoreFollows, Settling, holdsNarrowedSet
  <2>3. States(AppliedStates, unheard, moods, CoveredStates)
    BY <2>1 DEF StatesInv, StatesFollow
  <2>4. /\ \A u \in Things : u # e.of /\ Settled(Tail(unheard), u, 0) => Settled(unheard, u, 0)
        /\ Settled(Tail(unheard), e.of, 0) =>
             /\ e.kind # "changed" => (e.kind = "gone" <=> CoveredThings[e.of] = Absent)
             /\ e.kind = "changed" => Settled(unheard, e.of, 0)
    <3>1. Tells(unheard, CoveredThings) /\ unheard # <<>> /\ \A i \in DOMAIN unheard : unheard[i].at > 0
      BY <1>1, <1>2, <1>4 DEF Told
    <3> PICK m : m = CoveredThings
      OBVIOUS
    <3>2. Tells(unheard, m) /\ e = Head(unheard)
      BY <3>1
    <3>3. /\ \A u \in Things : u # e.of /\ Settled(Tail(unheard), u, 0) => Settled(unheard, u, 0)
          /\ Settled(Tail(unheard), e.of, 0) => /\ e.kind # "changed" => (e.kind = "gone" <=> m[e.of] = Absent)
                                                /\ e.kind = "changed" => Settled(unheard, e.of, 0)
      BY <1>t, <3>1, <3>2, HeadTells
    <3> QED BY <3>3
  <2>5. CASE t # e.of
    <3>1. upserts'[t] = upserts[t] /\ changes'[t] = changes[t] /\ (t \in removals' <=> t \in removals)
          /\ stateUpdates'[t] = stateUpdates[t]
      BY <1>t, <2>5 DEF thingArrived, thingGone, onThingProperty, Held, HeldStates
    <3>2. AppliedStates'[t] = AppliedStates[t]
      BY <1>1, <3>1 DEF AppliedStates, Applied
    <3> QED BY <2>3, <2>4, <2>5, <3>2 DEF States
  <2>6. CASE t = e.of /\ thingArrived
    <3>1. e.kind = "arrived" /\ upserts'[t] = e.to /\ stateUpdates'[t] = e.state
      BY <1>4, <1>t, <2>2, <2>6 DEF thingArrived, Held, HeldStates
    <3>2. AppliedStates'[t] = e.state
      BY <1>4, <3>1 DEF AppliedStates, Applied
    <3>3. e.state = mood[t]
      BY <1>3, <2>1, <2>6, <3>1 DEF StatesInv, ArrivalsTell
    <3>4. CoveredStates[t] = mood[t]
      BY <1>4, <2>4, <2>6, <3>1 DEF CoveredThings, CoveredStates
    <3> QED BY <3>2, <3>3, <3>4
  <2>7. CASE t = e.of /\ thingGone
    <3>1. e.kind = "gone" /\ upserts'[t] = Absent /\ t \in removals'
      BY <1>4, <1>t, <2>7 DEF thingGone, Held
    <3>2. AppliedStates'[t] = Absent
      BY <3>1 DEF AppliedStates, Applied
    <3>3. CoveredStates[t] = Absent
      BY <1>4, <2>4, <2>7, <3>1 DEF CoveredThings, CoveredStates
    <3> QED BY <3>2, <3>3
  <2>8. CASE t = e.of /\ onThingProperty
    <3>1. e.kind = "changed" /\ UNCHANGED <<upserts, removals, stateUpdates>> /\ changes'[t] = e.to
      BY <1>4, <1>t, <2>8 DEF onThingProperty, Held
    <3>2. Applied'[t] = Absent <=> Applied[t] = Absent
      BY <1>1, <1>4, <3>1 DEF Applied
    <3>3. AppliedStates'[t] = AppliedStates[t]
      BY <1>1, <3>1, <3>2 DEF AppliedStates
    <3> QED BY <2>3, <2>4, <2>8, <3>1, <3>3 DEF States
  <2> QED BY <2>5, <2>6, <2>7, <2>8
<1> QED BY <1>6, <1>7, <1>8, <1>9, <1>a DEF StatesInv

LEMMA MoodTaken ==
    ASSUME NEW s \in Seq(MoodChanges), s # <<>>
    PROVE  /\ Head(s) \in MoodChanges /\ Head(s) = s[1] /\ 1 \in DOMAIN s
           /\ \A i \in DOMAIN s : i \in Nat
           /\ \A i \in DOMAIN Tail(s) : Tail(s)[i] = s[i + 1] /\ i + 1 \in DOMAIN s /\ i \in Nat \ {0}
           /\ \A i \in DOMAIN s \ {1} : i - 1 \in DOMAIN Tail(s) /\ s[i] = Tail(s)[i - 1]
<1>1. Tail(s) \in Seq(MoodChanges) /\ Head(s) \in MoodChanges /\ Len(Tail(s)) = Len(s) - 1 /\ Len(s) \in Nat \ {0}
      /\ \A i \in 1 .. Len(Tail(s)) : Tail(s)[i] = s[i + 1]
  BY HeadTailProperties, EmptySeq
<1>2. DOMAIN s = 1 .. Len(s) /\ DOMAIN Tail(s) = 1 .. Len(Tail(s)) /\ Head(s) = s[1]
  BY <1>1
<1> QED BY <1>1, <1>2

LEMMA MoodHeardKeepsStates ==
    ASSUME DataInv, StatesInv, onStatesChanged
    PROVE  StatesInv'
<1> PICK e : e = Head(moods)
  OBVIOUS
<1>1. /\ UNCHANGED <<model, mood, unheard, covers, opening, snapshot, attached, reads, held, states, loaded>>
      /\ UNCHANGED <<upserts, removals, changes, spoiled>>
      /\ attached /\ moods # <<>> /\ moods' = Tail(moods)
      /\ stateUpdates' = IF holdsNarrowedSet THEN [stateUpdates EXCEPT ![e.of] = e.to] ELSE stateUpdates
  BY DEF onStatesChanged, broker, stream, store
<1>2. Order /\ Told /\ StoreFollows /\ TypeOK /\ stateUpdates \in HeldStates /\ moods \in Seq(MoodChanges)
  BY DEF DataInv, TypeOK, MoodChanges
<1>3. /\ e \in MoodChanges /\ e = moods[1] /\ 1 \in DOMAIN moods
      /\ \A i \in DOMAIN moods : i \in Nat
      /\ \A i \in DOMAIN moods' : moods'[i] = moods[i + 1] /\ i + 1 \in DOMAIN moods /\ i \in Nat \ {0}
      /\ \A i \in DOMAIN moods \ {1} : i - 1 \in DOMAIN moods' /\ moods[i] = moods'[i - 1]
  BY <1>1, <1>2, MoodTaken
<1>4. e.of \in Things /\ e.to \in Moods /\ e.to # Absent
  BY <1>3, DataAssumption DEF MoodChanges
<1>5. MoodsTell'
  <2>1. ASSUME NEW i \in DOMAIN moods', \A j \in DOMAIN moods' : moods'[j].of = moods'[i].of => j <= i
        PROVE  moods'[i].to = mood[moods'[i].of]
    <3>1. moods'[i] = moods[i + 1] /\ i + 1 \in DOMAIN moods /\ i \in Nat \ {0}
      BY <1>3
    <3>2. ASSUME NEW j \in DOMAIN moods, moods[j].of = moods[i + 1].of
          PROVE  j <= i + 1
      <4>1. CASE j = 1
        BY <3>1, <4>1
      <4>2. CASE j # 1
        <5>1. j - 1 \in DOMAIN moods' /\ moods[j] = moods'[j - 1] /\ j \in Nat
          BY <1>3, <4>2
        <5>2. j - 1 <= i
          BY <2>1, <3>1, <3>2, <5>1
        <5> QED BY <1>3, <3>1, <5>1, <5>2
      <4> QED BY <4>1, <4>2
    <3> QED BY <3>1, <3>2 DEF StatesInv, MoodsTell
  <2> QED BY <1>1, <2>1 DEF MoodsTell
<1>6. ArrivalsTell'
  BY <1>1 DEF StatesInv, ArrivalsTell
<1>7. SnapshotStates'
  BY <1>1, SameStates DEF StatesInv, SnapshotStates
<1>8. StatesOfHeld'
  BY <1>1 DEF StatesInv, StatesOfHeld
<1>9. StatesFollow'
  <2> SUFFICES ASSUME Settling, spoiled = {}, covers = "page",
                      NEW t \in Things, Settled(unheard, t, 0), NoMood(moods', t)
               PROVE  AppliedStates'[t] = CoveredStates[t]
    BY <1>1, SameStates DEF StatesFollow, States, Settling
  <2>1. holdsNarrowedSet
    BY <1>2 DEF StoreFollows, Settling, holdsNarrowedSet
  <2>2. stateUpdates' = [stateUpdates EXCEPT ![e.of] = e.to]
    BY <1>1, <2>1
  <2>3. CASE t # e.of
    <3>1. NoMood(moods, t)
      BY <1>3, <2>3 DEF NoMood
    <3>2. AppliedStates[t] = CoveredStates[t]
      BY <3>1 DEF StatesInv, StatesFollow, States
    <3>3. AppliedStates'[t] = AppliedStates[t]
      BY <1>1, <1>2, <2>2, <2>3 DEF AppliedStates, Applied, HeldStates
    <3> QED BY <3>2, <3>3
  <2>4. CASE t = e.of
    <3>1. e.to = mood[t]
      <4>1. \A j \in DOMAIN moods : moods[j].of = t => j <= 1
        BY <1>3, <2>4 DEF NoMood
      <4> QED BY <1>3, <2>4, <4>1 DEF StatesInv, MoodsTell
    <3>2. Applied[t] = Absent <=> CoveredThings[t] = Absent
      BY <1>2, AppliedTypes DEF StoreFollows, Follows, Buffering
    <3>3. AppliedStates'[t] = IF Applied[t] # Absent THEN e.to ELSE IF t \in removals THEN Absent ELSE states[t]
      BY <1>1, <1>2, <1>4, <2>2, <2>4 DEF AppliedStates, Applied, HeldStates
    <3>4. CASE Applied[t] # Absent
      <4>1. CoveredStates[t] = mood[t]
        BY <3>2, <3>4 DEF CoveredThings, CoveredStates
      <4> QED BY <3>1, <3>3, <3>4, <4>1
    <3>5. CASE Applied[t] = Absent
      <4>1. CoveredStates[t] = Absent
        BY <3>2, <3>5 DEF CoveredThings, CoveredStates
      <4>2. t \notin removals => held[t] = Absent
        BY <3>5 DEF Applied
      <4>3. t \notin removals => states[t] = Absent
        BY <4>2 DEF StatesInv, StatesOfHeld
      <4> QED BY <3>3, <3>5, <4>1, <4>3
    <3> QED BY <3>4, <3>5
  <2> QED BY <2>3, <2>4
<1> QED BY <1>5, <1>6, <1>7, <1>8, <1>9 DEF StatesInv

LEMMA FlushKeepsStates ==
    ASSUME DataInv, StatesInv, flush
    PROVE  StatesInv'
<1>1. /\ UNCHANGED <<model, mood, unheard, moods, covers, opening, snapshot, attached, reads, loaded, spoiled>>
      /\ held' = Applied /\ states' = AppliedStates
      /\ upserts' = Empty /\ removals' = {} /\ changes' = Empty /\ stateUpdates' = Empty
  BY DEF flush, broker, stream
<1>2. MoodsTell' /\ ArrivalsTell'
  BY <1>1 DEF StatesInv, MoodsTell, ArrivalsTell
<1>3. SnapshotStates'
  BY <1>1, SameStates DEF StatesInv, SnapshotStates
<1>4. StatesOfHeld'
  <2>1. ASSUME NEW t \in Things, Applied[t] = Absent
        PROVE  AppliedStates[t] = Absent
    <3>1. t \notin removals => held[t] = Absent
      BY <2>1 DEF Applied
    <3>2. t \notin removals => states[t] = Absent
      BY <3>1 DEF StatesInv, StatesOfHeld
    <3> QED BY <2>1, <3>2 DEF AppliedStates
  <2>2. \A t \in Things : upserts'[t] # Absent => t \notin removals'
    BY <1>1
  <2> QED BY <1>1, <2>1, <2>2 DEF StatesInv, StatesOfHeld
<1>5. StatesFollow'
  <2>1. \A t \in Things : AppliedStates'[t] = AppliedStates[t]
    <3>1. \A t \in Things : AppliedStates'[t] = states'[t]
      BY <1>1 DEF AppliedStates, Empty
    <3> QED BY <1>1, <3>1
  <2>2. CoveredStates' = CoveredStates /\ Settling' = Settling
    BY <1>1, SameStates DEF Settling
  <2> QED BY <1>1, <2>1, <2>2 DEF StatesInv, StatesFollow, States
<1> QED BY <1>2, <1>3, <1>4, <1>5 DEF StatesInv

LEMMA NextStates == DataInv /\ StatesInv /\ [Next]_vars => StatesInv'
<1> SUFFICES ASSUME DataInv, StatesInv, [Next]_vars PROVE StatesInv'
  OBVIOUS
<1>t. TypeOK
  BY DEF DataInv
<1>1. ASSUME NEW t \in Things, Goes(t) PROVE StatesInv'
  BY <1>1, <1>t, CommitKeepsStates, Committed DEF Goes, Property
<1>2. ASSUME NEW t \in Things, NEW v \in Property, Changes(t, v) PROVE StatesInv'
  <2>1. v # Absent
    BY DataAssumption DEF Property
  <2> QED BY <1>2, <1>t, <2>1, CommitKeepsStates, Committed DEF Changes
<1>3. ASSUME NEW t \in Things, NEW v \in Values, Arrives(t, v) PROVE StatesInv'
  <2>1. v \in Property
    BY DEF Property
  <2> QED BY <1>3, <1>t, <2>1, CommitKeepsStates, Committed DEF Arrives
<1>4. ASSUME \/ reloadModelData \/ ReadIsMade
             \/ \E read \in reads : ReadFails(read)
             \/ UNCHANGED vars
      PROVE  StatesInv'
  <2>1. CASE reloadModelData
    BY <2>1, ElseKeepsStates DEF reloadModelData, broker, store, buffer
  <2>2. CASE ReadIsMade
    <3>1. reads' # {}
      BY <2>2 DEF ReadIsMade
    <3> QED BY <2>2, <3>1, ElseKeepsStates DEF ReadIsMade, broker, stream, store, buffer
  <2>3. CASE \E read \in reads : ReadFails(read)
    BY <2>3, ElseKeepsStates DEF ReadFails, broker, stream, store, buffer
  <2>4. CASE UNCHANGED vars
    BY <2>4, ElseKeepsStates DEF vars, broker, stream, store, buffer
  <2> QED BY <1>4, <2>1, <2>2, <2>3, <2>4
<1>5. ASSUME \/ \E next \in {"page", "whole"} : leaveANarrowedSet(next)
             \/ ModelChanged \/ Reconnects
      PROVE  StatesInv'
  <2>1. covers \in {"page", "whole"}
    BY <1>t DEF TypeOK
  <2>2. CASE \E next \in {"page", "whole"} : leaveANarrowedSet(next)
    BY <2>2, OpenKeepsStates DEF leaveANarrowedSet
  <2>3. CASE ModelChanged
    BY <2>1, <2>3, OpenKeepsStates DEF ModelChanged
  <2>4. CASE Reconnects
    BY <2>1, <2>4, OpenKeepsStates DEF Reconnects
  <2> QED BY <1>5, <2>2, <2>3, <2>4
<1>6. ASSUME \/ ModelCleared \/ Resolved \/ loadWhatOpened
             \/ \E read \in reads \ {None} : ReadAnswers(read)
             \/ thingArrived \/ thingGone \/ onThingProperty \/ onStatesChanged \/ flush
      PROVE  StatesInv'
  BY <1>6, ClearedKeepsStates, ResolvedKeepsStates, LoadKeepsStates, AnswerKeepsStates, HearKeepsStates,
     MoodHeardKeepsStates, FlushKeepsStates
<1>7. CASE UNCHANGED vars
  BY <1>4, <1>7
<1>8. CASE Next
  BY <1>1, <1>2, <1>3, <1>4, <1>5, <1>6, <1>8, MoodKeepsStates DEF Next
<1> QED BY <1>7, <1>8

LEMMA StatesAre == DataInv /\ StatesInv => StatesAreExact
<1> SUFFICES ASSUME DataInv, StatesInv, Quiet, spoiled = {}, covers = "page"
             PROVE  states = CoveredStates
  BY DEF StatesAreExact
<1>1. /\ Settling /\ unheard = <<>> /\ moods = <<>> /\ DOMAIN unheard = {} /\ DOMAIN moods = {}
      /\ removals = {} /\ stateUpdates = Empty
  BY DEF Quiet, Settling, Buffered
<1>2. TypeOK /\ states \in HeldStates /\ CoveredStates \in HeldStates
  BY CoveredTypes DEF DataInv, TypeOK
<1>3. \A t \in Things : AppliedStates[t] = CoveredStates[t]
  BY <1>1 DEF StatesInv, StatesFollow, States, Settled, NoMood
<1>4. \A t \in Things : AppliedStates[t] = states[t]
  BY <1>1 DEF AppliedStates, Empty
<1> QED BY <1>2, <1>3, <1>4 DEF HeldStates

\* A page's set is drawn with the states its Things have, for any model and any order of the two streams, unless a
\* state moved where it is not told.
THEOREM TheStatesAreExact == Spec => []StatesAreExact
<1>1. Spec => []DataInv
  BY InitData, NextData, PTL DEF Spec
<1>2. DataInv /\ StatesInv /\ [Next]_vars => StatesInv'
  BY NextStates
<1> QED BY <1>1, <1>2, InitStates, StatesAre, PTL DEF Spec

=============================================================================
