------------------------ MODULE PipelineEditor_proof ------------------------
(***************************************************************************)
(* Proofs about PipelineEditor for anything earlier saves may have left    *)
(* (HeldAssumption) and any bounds.  Each Thing keeps to its kind, and, as *)
(* long as no save is sent of what was opened during another, to its       *)
(* pipeline: so a save touches no other pipeline, and the canvas shows the *)
(* one that is edited.  While a sound save is on its way, the model with   *)
(* the requests that are left made reads as what is drawn, and no request  *)
(* undoes another, so that it reads so once all are made; and what is      *)
(* shown as saved is what would run.  A plan is treated as the set of its  *)
(* requests, in whatever order they go.                                    *)
(***************************************************************************)
EXTENDS PipelineEditor, FiniteSetTheorems, FunctionTheorems, SequenceTheorems, WellFoundedInduction, NaturalsInduction, TLAPS

-----------------------------------------------------------------------------
\* Induction over the natural numbers, and the sequences a plan is made of: what matters is which requests are in it.

\* A set of natural numbers that holds one holds a least one.
LEMMA LeastOf ==
  ASSUME NEW T \in SUBSET Nat, T # {}
  PROVE  \E x \in T : \A y \in T : ~(y < x)
<1> DEFINE R == OpToRel(<, Nat)
<1>1. IsWellFoundedOn(R, Nat)
  BY NatLessThanWellFounded
<1>2. \A x, y \in Nat : y < x => <<y, x>> \in R
  BY Zenon DEF OpToRel
<1> HIDE DEF R
<1>3. PICK x \in T : \A y \in T : ~(<<y, x>> \in R)
  BY <1>1, WFMin
<1>4. QED
  BY <1>2, <1>3

\* Induction over the natural numbers, told of a set.
LEMMA Induct ==
  ASSUME NEW T, 0 \in T, \A k \in Nat : k \in T => k + 1 \in T
  PROVE  Nat \subseteq T
<1>1. SUFFICES ASSUME Nat \ T # {}
               PROVE  FALSE
  OBVIOUS
<1>2. PICK x \in Nat \ T : \A y \in Nat \ T : ~(y < x)
  BY <1>1, LeastOf
<1>3. x # 0 /\ x - 1 \in Nat
  BY <1>2
<1>4. x - 1 \in T
  BY <1>2, <1>3
<1>5. QED
  BY <1>2, <1>3, <1>4

\* One sequence after another has the elements of both.
LEMMA RangeOfConcat ==
  ASSUME NEW S, NEW s \in Seq(S), NEW t \in Seq(S)
  PROVE  s \o t \in Seq(S) /\ Range(s \o t) = Range(s) \union Range(t)
<1>1. s \o t \in Seq(S) /\ DOMAIN (s \o t) = 1..(Len(s) + Len(t))
  OBVIOUS
<1>2. Range(s \o t) \subseteq Range(s) \union Range(t)
  BY DEF Range
<1>3. Range(s) \subseteq Range(s \o t)
  <2>1. \A i \in DOMAIN s : i \in DOMAIN (s \o t) /\ (s \o t)[i] = s[i]
    OBVIOUS
  <2>2. QED
    BY <2>1 DEF Range
<1>4. Range(t) \subseteq Range(s \o t)
  <2>1. \A i \in DOMAIN t : Len(s) + i \in DOMAIN (s \o t) /\ (s \o t)[Len(s) + i] = t[i]
    OBVIOUS
  <2>2. QED
    BY <2>1 DEF Range
<1>5. QED
  BY <1>1, <1>2, <1>3, <1>4

Flat(seqs, f, i) == IF i = 1 THEN seqs[i] ELSE f[i-1] \o seqs[i]

FlatUpto(seqs, f, k) == /\ \A i \in 1..k : f[i] = Flat(seqs, f, i)
                        /\ \A i \in 1..k : Range(f[i]) = UNION {Range(seqs[j]) : j \in 1..i}

\* The function that flattens a sequence of sequences step by step exists.
LEMMA FlattenExists ==
  ASSUME NEW S, NEW seqs \in Seq(Seq(S))
  PROVE  \E f \in [1..Len(seqs) -> Seq(S)] : FlatUpto(seqs, f, Len(seqs))
<1> DEFINE n == Len(seqs)
           Is(k) == \E f \in [1..k -> Seq(S)] : FlatUpto(seqs, f, k)
           T == {k \in Nat : k <= n => Is(k)}
<1>1. n \in Nat /\ \A j \in 1..n : seqs[j] \in Seq(S)
  OBVIOUS
<1>2. Is(0)
  <2>1. [i \in 1..0 |-> <<>>] \in [1..0 -> Seq(S)]
    OBVIOUS
  <2>2. FlatUpto(seqs, [i \in 1..0 |-> <<>>], 0)
    BY DEF FlatUpto
  <2>3. QED
    BY <2>1, <2>2
<1>3. ASSUME NEW k \in Nat, k + 1 <= n, Is(k)
      PROVE  Is(k + 1)
  <2>2. PICK f \in [1..k -> Seq(S)] : FlatUpto(seqs, f, k)
    BY <1>3
  <2> DEFINE last == Flat(seqs, f, k + 1)
             g == [i \in 1..(k + 1) |-> IF i <= k THEN f[i] ELSE last]
  <2>3. seqs[k + 1] \in Seq(S)
    BY <1>1, <1>3
  <2>4. CASE k = 0
    <3>1. last = seqs[1]
      BY <2>4 DEF Flat
    <3>2. g \in [1..(k + 1) -> Seq(S)] /\ g[1] = seqs[1]
      BY <2>3, <2>4, <3>1
    <3>3. FlatUpto(seqs, g, k + 1)
      <4>1. 1..(k + 1) = {1} /\ 1..1 = {1}
        BY <2>4
      <4>2. g[1] = Flat(seqs, g, 1)
        BY <3>2 DEF Flat
      <4>3. UNION {Range(seqs[j]) : j \in {1}} = Range(seqs[1])
        OBVIOUS
      <4>4. QED
        BY <3>2, <4>1, <4>2, <4>3 DEF FlatUpto
    <3>4. QED
      BY <3>2, <3>3
  <2>5. CASE k # 0
    <3>0. k \in 1..k /\ k + 1 # 1 /\ (k + 1) - 1 = k
      BY <2>5
    <3>1. last = f[k] \o seqs[k + 1]
      BY <3>0 DEF Flat
    <3>1a. f[k] \in Seq(S)
      BY <3>0
    <3> HIDE DEF last
    <3>2. last \in Seq(S) /\ Range(last) = Range(f[k]) \union Range(seqs[k + 1])
      BY <2>3, <3>1, <3>1a, RangeOfConcat
    <3>3. g \in [1..(k + 1) -> Seq(S)]
      BY <2>2, <3>2
    <3>4. g[k + 1] = last /\ \A i \in 1..k : g[i] = f[i]
      OBVIOUS
    <3> HIDE DEF g
    <3>5. \A i \in 1..(k + 1) : g[i] = Flat(seqs, g, i)
      <4>1. \A i \in 1..k : Flat(seqs, g, i) = Flat(seqs, f, i)
        BY <3>4 DEF Flat
      <4>2. Flat(seqs, g, k + 1) = last
        BY <3>0, <3>1, <3>4 DEF Flat
      <4>3. \A i \in 1..k : f[i] = Flat(seqs, f, i)
        BY <2>2 DEF FlatUpto
      <4>4. \A i \in 1..(k + 1) : i \in 1..k \/ i = k + 1
        OBVIOUS
      <4> HIDE DEF Flat
      <4>5. QED
        BY <3>4, <4>1, <4>2, <4>3, <4>4
    <3>6. \A i \in 1..(k + 1) : Range(g[i]) = UNION {Range(seqs[j]) : j \in 1..i}
      <4>1. 1..(k + 1) = 1..k \union {k + 1}
        OBVIOUS
      <4>2. \A i \in 1..k : Range(f[i]) = UNION {Range(seqs[j]) : j \in 1..i}
        BY <2>2 DEF FlatUpto
      <4>3. Range(f[k]) = UNION {Range(seqs[j]) : j \in 1..k}
        BY <3>0, <4>2
      <4>4. Range(last) = Range(f[k]) \union Range(seqs[k + 1])
        BY <3>2
      <4>5. Range(last) = UNION {Range(seqs[j]) : j \in 1..(k + 1)}
        BY <4>1, <4>3, <4>4
      <4>6. \A i \in 1..(k + 1) : i \in 1..k \/ i = k + 1
        OBVIOUS
      <4>7. QED
        BY <4>2, <3>4, <4>5, <4>6
    <3>7. QED
      BY <3>3, <3>5, <3>6 DEF FlatUpto
  <2>6. QED
    BY <2>4, <2>5
<1>4. n \in T
  <2> HIDE DEF Is
  <2>1. 0 \in T
    BY <1>2
  <2>2. ASSUME NEW k \in Nat, k \in T
        PROVE  k + 1 \in T
    <3>1. k + 1 <= n => k <= n
      BY <1>1
    <3>2. k + 1 <= n => Is(k + 1)
      BY <1>3, <2>2, <3>1
    <3>3. QED
      BY <3>2
  <2> HIDE DEF T
  <2>3. QED
    BY <1>1, <2>1, <2>2, Induct
<1>5. Is(n)
  BY <1>1, <1>4
<1>6. QED
  BY <1>5

\* A flattened sequence of sequences has the elements of each.
LEMMA FlattenIs ==
  ASSUME NEW S, NEW seqs \in Seq(Seq(S))
  PROVE  /\ FlattenSeq(seqs) \in Seq(S)
         /\ Range(FlattenSeq(seqs)) = UNION {Range(seqs[i]) : i \in 1..Len(seqs)}
<1> DEFINE n == Len(seqs)
<1>1. n \in Nat
  OBVIOUS
<1>2. PICK f \in [1..n -> Seq(S)] : FlatUpto(seqs, f, n)
  BY FlattenExists
<1>3. CASE n = 0
  <2>1. FlattenSeq(seqs) = seqs /\ seqs = <<>>
    BY <1>3 DEF FlattenSeq
  <2>2. 1..n = {} /\ Range(<<>>) = {}
    BY <1>3 DEF Range
  <2>3. QED
    BY <2>1, <2>2
<1>4. CASE n # 0
  <2> DEFINE Eq(g) == g = [i \in 1..n |-> IF i = 1 THEN seqs[i] ELSE g[i-1] \o seqs[i]]
             h == CHOOSE g : Eq(g)
  <2>1. FlattenSeq(seqs) = h[n]
    BY <1>4, Zenon DEF FlattenSeq
  <2>2. Eq(f)
    BY <1>2 DEF FlatUpto, Flat
  <2>3. Eq(h)
    BY <2>2
  <2> HIDE DEF h
  <2> DEFINE T == {k \in Nat : k + 1 <= n => h[k + 1] = f[k + 1]}
  <2>4. 0 \in T
    BY <1>1, <1>4, <2>2, <2>3
  <2>5. ASSUME NEW k \in Nat, k \in T
        PROVE  k + 1 \in T
    <3>1. SUFFICES ASSUME k + 2 <= n
                   PROVE  h[k + 2] = f[k + 2]
      OBVIOUS
    <3>2. h[k + 1] = f[k + 1]
      BY <1>1, <2>5, <3>1
    <3>3. k + 2 \in 1..n /\ k + 2 # 1 /\ (k + 2) - 1 = k + 1
      BY <1>1, <3>1
    <3>4. h[k + 2] = h[k + 1] \o seqs[k + 2]
      BY <2>3, <3>3
    <3>5. f[k + 2] = f[k + 1] \o seqs[k + 2]
      BY <2>2, <3>3
    <3>6. QED
      BY <3>2, <3>4, <3>5
  <2>6. Nat \subseteq T
    <3> HIDE DEF T
    <3>1. QED
      BY <2>4, <2>5, Induct
  <2>7. n - 1 \in Nat /\ n \in 1..n /\ (n - 1) + 1 = n
    BY <1>1, <1>4
  <2>7a. n - 1 \in T
    BY <2>6, <2>7
  <2>8. h[n] = f[n]
    BY <1>1, <2>7, <2>7a
  <2>9a. f[n] \in Seq(S)
    BY <1>2, <2>7
  <2>9b. Range(f[n]) = UNION {Range(seqs[i]) : i \in 1..n}
    <3> HIDE DEF n
    <3>1. QED
      BY <1>2, <2>7 DEF FlatUpto
  <2>9. f[n] \in Seq(S) /\ Range(f[n]) = UNION {Range(seqs[i]) : i \in 1..n}
    BY <2>9a, <2>9b
  <2>10. QED
    BY <2>1, <2>8, <2>9
<1>5. QED
  BY <1>3, <1>4

\* The elements of a finite set in some order, each once.
LEMMA SetToSeqIs ==
  ASSUME NEW S, IsFiniteSet(S)
  PROVE  /\ Cardinality(S) \in Nat
         /\ SetToSeq(S) \in [1..Cardinality(S) -> S]
         /\ SetToSeq(S) \in Seq(S)
         /\ Len(SetToSeq(S)) = Cardinality(S)
         /\ Range(SetToSeq(S)) = S
         /\ \A i, j \in 1..Cardinality(S) : SetToSeq(S)[i] = SetToSeq(S)[j] => i = j
<1> DEFINE n == Cardinality(S)
           f == SetToSeq(S)
<1>1. n \in Nat /\ ExistsBijection(1..n, S)
  BY FS_CardinalityType
<1>2. PICK g : g \in Bijection(1..n, S)
  BY <1>1 DEF ExistsBijection
<1>3. g \in [1..n -> S] /\ IsInjective(g)
  BY <1>2 DEF Bijection, Injection, IsInjective
<1>4. f \in [1..n -> S] /\ IsInjective(f)
  BY <1>3 DEF SetToSeq
<1> HIDE DEF f
<1>5. f \in Injection(1..n, S)
  BY <1>4 DEF Injection, IsInjective
<1>6. f \in Surjection(1..n, S)
  <2>1. IsFiniteSet(1..n) /\ Cardinality(1..n) = n
    BY <1>1, FS_Interval
  <2>2. QED
    BY <1>5, <2>1, FS_Injection
<1>7. Range(f) = S
  BY <1>4, <1>6 DEF Surjection, Range
<1>8. \A i, j \in 1..n : f[i] = f[j] => i = j
  BY <1>4 DEF IsInjective
<1>9. f \in Seq(S) /\ Len(f) = n
  BY <1>1, <1>4
<1>10. QED
  BY <1>1, <1>4, <1>7, <1>8, <1>9 DEF f

-----------------------------------------------------------------------------
\* The requests of a save (Writes of PipelineDrawing) as a set.

IsSeq(s) == s \in Seq(Range(s))

\* A sequence of a set is one of its own elements.
LEMMA SeqIsOfRange ==
  ASSUME NEW S, NEW s, s \in Seq(S)
  PROVE  IsSeq(s) /\ Range(s) \subseteq S
<1>1. Len(s) \in Nat /\ DOMAIN s = 1..Len(s) /\ s = [i \in 1..Len(s) |-> s[i]]
  OBVIOUS
<1>2. Range(s) \subseteq S
  BY DEF Range
<1>3. \A i \in 1..Len(s) : s[i] \in Range(s)
  BY <1>1 DEF Range
<1>4. s \in Seq(Range(s))
  BY <1>1, <1>3
<1>5. QED
  BY <1>2, <1>4 DEF IsSeq

\* One sequence after another is a sequence, and has the elements of both.
LEMMA ConcatSeqs ==
  ASSUME NEW s, NEW t, IsSeq(s), IsSeq(t)
  PROVE  IsSeq(s \o t) /\ Range(s \o t) = Range(s) \union Range(t)
<1> DEFINE S == Range(s) \union Range(t)
<1>1. s \in Seq(S) /\ t \in Seq(S)
  BY DEF IsSeq
<1> HIDE DEF S
<1>2. s \o t \in Seq(S) /\ Range(s \o t) = Range(s) \union Range(t)
  BY <1>1, RangeOfConcat
<1>3. IsSeq(s \o t)
  BY <1>2, SeqIsOfRange
<1>4. QED
  BY <1>2, <1>3

\* Sequences flattened are a sequence, and have the elements of each.
LEMMA FlattenSeqs ==
  ASSUME NEW seqs, IsSeq(seqs), \A i \in 1..Len(seqs) : IsSeq(seqs[i])
  PROVE  /\ IsSeq(FlattenSeq(seqs))
         /\ Range(FlattenSeq(seqs)) = UNION {Range(seqs[i]) : i \in 1..Len(seqs)}
<1> DEFINE n == Len(seqs)
           S == UNION {Range(seqs[i]) : i \in 1..n}
<1>1. n \in Nat /\ DOMAIN seqs = 1..n /\ seqs = [i \in 1..n |-> seqs[i]]
  BY DEF IsSeq
<1>2. \A i \in 1..n : seqs[i] \in Seq(S)
  <2>1. TAKE i \in 1..n
  <2>2. Range(seqs[i]) \subseteq S
    OBVIOUS
  <2>3. seqs[i] \in Seq(Range(seqs[i]))
    BY DEF IsSeq
  <2> HIDE DEF S
  <2>4. QED
    BY <2>2, <2>3
<1> HIDE DEF S
<1>3. seqs \in Seq(Seq(S))
  BY <1>1, <1>2
<1>4. FlattenSeq(seqs) \in Seq(S) /\ Range(FlattenSeq(seqs)) = UNION {Range(seqs[i]) : i \in 1..n}
  BY <1>3, FlattenIs
<1>5. IsSeq(FlattenSeq(seqs))
  BY <1>4, SeqIsOfRange
<1>6. QED
  BY <1>4, <1>5

\* A sequence that makes one request of each element of a set.
LEMMA EachOf ==
  ASSUME NEW S, IsFiniteSet(S), NEW f, f = SetToSeq(S)
  PROVE  /\ Cardinality(S) \in Nat
         /\ \A i \in 1..Cardinality(S) : f[i] \in S
         /\ \A x \in S : \E i \in 1..Cardinality(S) : f[i] = x
<1>1. f \in [1..Cardinality(S) -> S] /\ Range(f) = S /\ Cardinality(S) \in Nat
  BY SetToSeqIs
<1>2. QED
  BY <1>1 DEF Range

\* The requests that take a wire on what it is not taken on yet.
LEMMA RelatesRange ==
  ASSUME NEW w, NEW held, NEW wanted, IsFiniteSet(wanted)
  PROVE  /\ IsSeq(relateToTaken(w, held, wanted))
         /\ Range(relateToTaken(w, held, wanted)) = {Relates(<<w, "taken", t>>) : t \in wanted \ held}
<1> DEFINE S == wanted \ held
           f == SetToSeq(S)
           n == Cardinality(S)
           q == [i \in 1..n |-> Relates(<<w, "taken", f[i]>>)]
<1>1. IsFiniteSet(S)
  BY FS_Subset
<1>2. n \in Nat /\ (\A i \in 1..n : f[i] \in S) /\ \A x \in S : \E i \in 1..n : f[i] = x
  BY <1>1, EachOf
<1>3. relateToTaken(w, held, wanted) = q
  BY DEF relateToTaken
<1> HIDE DEF f, n, S
<1>4. Range(q) = {Relates(<<w, "taken", t>>) : t \in S}
  BY <1>2 DEF Range
<1>5. IsSeq(q)
  BY <1>2 DEF IsSeq, Range
<1>6. QED
  BY <1>3, <1>4, <1>5 DEF S

\* The requests that end what a wire is no longer taken on.
LEMMA RetractsRange ==
  ASSUME NEW w, NEW held, NEW wanted, IsFiniteSet(held)
  PROVE  /\ IsSeq(retractTaken(w, held, wanted))
         /\ Range(retractTaken(w, held, wanted)) = {Retracts(<<w, "taken", t>>) : t \in held \ wanted}
<1> DEFINE S == held \ wanted
           f == SetToSeq(S)
           n == Cardinality(S)
           q == [i \in 1..n |-> Retracts(<<w, "taken", f[i]>>)]
<1>1. IsFiniteSet(S)
  BY FS_Subset
<1>2. n \in Nat /\ (\A i \in 1..n : f[i] \in S) /\ \A x \in S : \E i \in 1..n : f[i] = x
  BY <1>1, EachOf
<1>3. retractTaken(w, held, wanted) = q
  BY DEF retractTaken
<1> HIDE DEF f, n, S
<1>4. Range(q) = {Retracts(<<w, "taken", t>>) : t \in S}
  BY <1>2 DEF Range
<1>5. IsSeq(q)
  BY <1>2 DEF IsSeq, Range
<1>6. QED
  BY <1>3, <1>4, <1>5 DEF S

\* The requests that remove each Thing of a finite set.
LEMMA RemovesRange ==
  ASSUME NEW S, IsFiniteSet(S)
  PROVE  IsSeq(RemovesAll(S)) /\ Range(RemovesAll(S)) = {Removes(x) : x \in S}
<1> DEFINE f == SetToSeq(S)
           n == Cardinality(S)
           q == [i \in 1..n |-> Removes(f[i])]
<1>2. n \in Nat /\ (\A i \in 1..n : f[i] \in S) /\ \A x \in S : \E i \in 1..n : f[i] = x
  BY EachOf
<1>3. RemovesAll(S) = q
  BY DEF RemovesAll
<1> HIDE DEF f, n
<1>4. Range(q) = {Removes(x) : x \in S}
  BY <1>2 DEF Range
<1>5. IsSeq(q)
  BY <1>2 DEF IsSeq, Range
<1>6. QED
  BY <1>3, <1>4, <1>5

\* The requests a new wire takes.
Pieces(w, e) ==
  {Adds([Nothing EXCEPT !.wires = {w}]), Relates(<<e.source, "has", w>>),
   Relates(<<w, "wire", e.target>>), Relates(<<w, "in", e.outPort>>),
   Relates(<<w, "out", e.inPort>>)} \union {Relates(<<w, "taken", t>>) : t \in e.taken}

\* Five requests, one after another.
LEMMA FiveOf ==
  ASSUME NEW a, NEW b, NEW c, NEW x, NEW y
  PROVE  IsSeq(<<a, b, c, x, y>>) /\ Range(<<a, b, c, x, y>>) = {a, b, c, x, y}
<1>1. DOMAIN <<a, b, c, x, y>> = 1..5 /\ 1..5 = {1, 2, 3, 4, 5}
  OBVIOUS
<1>2. <<a, b, c, x, y>> \in Seq({a, b, c, x, y})
  OBVIOUS
<1>3. Range(<<a, b, c, x, y>>) = {a, b, c, x, y}
  BY <1>1 DEF Range
<1>4. QED
  BY <1>2, <1>3 DEF IsSeq

\* The requests that make a new wire are its pieces.
LEMMA NewWireRange ==
  ASSUME NEW w, NEW e, IsFiniteSet(e.taken)
  PROVE  IsSeq(NewWire(w, e)) /\ Range(NewWire(w, e)) = Pieces(w, e)
<1> DEFINE a == Adds([Nothing EXCEPT !.wires = {w}])
           b == Relates(<<e.source, "has", w>>)
           c == Relates(<<w, "wire", e.target>>)
           x == Relates(<<w, "in", e.outPort>>)
           y == Relates(<<w, "out", e.inPort>>)
           rest == relateToTaken(w, {}, e.taken)
           T == {Relates(<<w, "taken", t>>) : t \in e.taken}
<1>1. IsSeq(rest) /\ Range(rest) = T
  <2>1. IsSeq(rest) /\ Range(rest) = {Relates(<<w, "taken", t>>) : t \in e.taken \ {}}
    BY RelatesRange
  <2>2. e.taken \ {} = e.taken
    OBVIOUS
  <2>3. QED
    BY <2>1, <2>2
<1>2. NewWire(w, e) = <<a, b, c, x, y>> \o rest
  BY Zenon DEF NewWire
<1>3. Pieces(w, e) = {a, b, c, x, y} \union T
  BY Zenon DEF Pieces
<1> HIDE DEF a, b, c, x, y, rest, T
<1>4. IsSeq(<<a, b, c, x, y>>) /\ Range(<<a, b, c, x, y>>) = {a, b, c, x, y}
  BY FiveOf
<1>5. IsSeq(<<a, b, c, x, y>> \o rest) /\ Range(<<a, b, c, x, y>> \o rest) = {a, b, c, x, y} \union Range(rest)
  BY <1>1, <1>4, ConcatSeqs
<1>6. QED
  BY <1>1, <1>2, <1>3, <1>5

Known(m, persisted, e) == {k \in persisted : wireKey(WireRead(m, k[1], k[2])) = wireKey(e)}

\* The requests that bring what a wire is taken on to what is drawn.
Changes(m, w, e) == {Relates(<<w, "taken", t>>) : t \in e.taken \ Reached(m, w, "taken")}
                      \union {Retracts(<<w, "taken", t>>) : t \in Reached(m, w, "taken") \ e.taken}

Requests(m, persisted, e, w) ==
  IF Known(m, persisted, e) = {} THEN Pieces(w, e)
  ELSE Changes(m, The(Known(m, persisted, e))[2], e)

Undesired(d, m, persisted) ==
  {k[2] : k \in {j \in persisted : \A e \in d.edges : wireKey(e) # wireKey(WireRead(m, j[1], j[2]))}}

OwnPorts(m, n) == Reached(m, n, "has") \intersect m.ports

\* The nodes a save takes away, and their ports.
GoneNodes(d, nodes) == nodes \ {n.id : n \in d.nodes}
Goes(d, m, nodes)   == GoneNodes(d, nodes) \union UNION {OwnPorts(m, n) : n \in GoneNodes(d, nodes)}

\* What a save asks for, as a set: wire[e] is the Thing of a wire e that is new.
Requested(d, m, p, nodes, wire) ==
  LET persisted == PersistedWires(m, nodes)
  IN {Fragment(d, p)}
       \union (UNION {Requests(m, persisted, e, wire[e]) : e \in d.edges})
       \union {Removes(x) : x \in Undesired(d, m, persisted) \union Goes(d, m, nodes)}

\* What is asked for a wire: its pieces where the model holds none of its key, its changes elsewhere.
LEMMA WireWritesRange ==
  ASSUME NEW m, NEW persisted, NEW e, NEW w, IsFiniteSet(e.taken),
         \A x : IsFiniteSet(Reached(m, x, "taken"))
  PROVE  /\ IsSeq(WireWrites(m, persisted, e, w))
         /\ Range(WireWrites(m, persisted, e, w)) = Requests(m, persisted, e, w)
<1> DEFINE known == Known(m, persisted, e)
           x == The(known)[2]
           held == Reached(m, x, "taken")
<1>1. CASE known = {}
  <2>1. WireWrites(m, persisted, e, w) = NewWire(w, e)
    BY <1>1 DEF WireWrites, Known
  <2>2. QED
    BY <1>1, <2>1, NewWireRange DEF Requests
<1>2. CASE known # {}
  <2>1. WireWrites(m, persisted, e, w) = relateToTaken(x, held, e.taken) \o retractTaken(x, held, e.taken)
    BY <1>2 DEF WireWrites, Known, WireRead
  <2>2. IsSeq(relateToTaken(x, held, e.taken))
        /\ Range(relateToTaken(x, held, e.taken)) = {Relates(<<x, "taken", t>>) : t \in e.taken \ held}
    BY RelatesRange
  <2>3. IsSeq(retractTaken(x, held, e.taken))
        /\ Range(retractTaken(x, held, e.taken)) = {Retracts(<<x, "taken", t>>) : t \in held \ e.taken}
    BY RetractsRange
  <2>4. Requests(m, persisted, e, w)
          = {Relates(<<x, "taken", t>>) : t \in e.taken \ held} \union {Retracts(<<x, "taken", t>>) : t \in held \ e.taken}
    BY <1>2, Zenon DEF Requests, Changes
  <2> DEFINE related == relateToTaken(x, held, e.taken)
             retracted == retractTaken(x, held, e.taken)
  <2>5. IsSeq(related) /\ IsSeq(retracted) /\ WireWrites(m, persisted, e, w) = related \o retracted
        /\ Requests(m, persisted, e, w) = Range(related) \union Range(retracted)
    BY <2>1, <2>2, <2>3, <2>4
  <2> HIDE DEF related, retracted
  <2>6. IsSeq(related \o retracted) /\ Range(related \o retracted) = Range(related) \union Range(retracted)
    BY <2>5, ConcatSeqs
  <2>7. QED
    BY <2>5, <2>6
<1>3. QED
  BY <1>1, <1>2

\* A function on the first n numbers is a sequence.
LEMMA SeqBuilt ==
  ASSUME NEW n \in Nat, NEW q, q = [i \in 1..n |-> q[i]]
  PROVE  IsSeq(q) /\ Len(q) = n
<1>1. DOMAIN q = 1..n /\ \A i \in 1..n : q[i] \in Range(q)
  BY DEF Range
<1>2. q \in [1..n -> Range(q)]
  BY <1>1
<1>3. \A S : q \in [1..n -> S] => q \in Seq(S) /\ Len(q) = n
  OBVIOUS
<1>4. QED
  BY <1>2, <1>3 DEF IsSeq

\* The requests that remove each node that goes, after its ports.
RemovesOfEach(seqs, m, gone) ==
  /\ IsSeq(seqs) /\ Len(seqs) = Len(gone)
  /\ \A i \in 1..Len(gone) : seqs[i] = RemovesAll(OwnPorts(m, gone[i])) \o <<Removes(gone[i])>>

\* What is asked for nodes that go: each goes with its ports.
LEMMA GoneRange ==
  ASSUME NEW m, IsFiniteSet(m.ports), NEW S, IsFiniteSet(S), NEW gone, gone = SetToSeq(S), NEW seqs,
         RemovesOfEach(seqs, m, gone)
  PROVE  /\ IsSeq(FlattenSeq(seqs))
         /\ Range(FlattenSeq(seqs)) = {Removes(x) : x \in S \union UNION {OwnPorts(m, n) : n \in S}}
<1> DEFINE n == Cardinality(S)
<1>0. n \in Nat /\ (\A i \in 1..n : gone[i] \in S) /\ \A x \in S : \E i \in 1..n : gone[i] = x
  BY EachOf
<1>0a. Len(SetToSeq(S)) = n
  BY SetToSeqIs
<1>0b. Len(gone) = n
  BY <1>0a
<1>1. n \in Nat /\ Len(gone) = n /\ (\A i \in 1..n : gone[i] \in S) /\ \A x \in S : \E i \in 1..n : gone[i] = x
  BY <1>0, <1>0b
<1> HIDE DEF n
<1>2. \A i \in 1..n : /\ IsSeq(seqs[i])
                      /\ Range(seqs[i]) = {Removes(x) : x \in OwnPorts(m, gone[i])} \union {Removes(gone[i])}
  <2>1. TAKE i \in 1..n
  <2> DEFINE q == OwnPorts(m, gone[i])
  <2>2. IsFiniteSet(q)
    BY FS_Subset DEF OwnPorts
  <2>3. IsSeq(RemovesAll(q)) /\ Range(RemovesAll(q)) = {Removes(x) : x \in q}
    BY <2>2, RemovesRange
  <2>4. \A a : IsSeq(<<a>>) /\ Range(<<a>>) = {a}
    BY DEF IsSeq, Range
  <2>5. IsSeq(<<Removes(gone[i])>>) /\ Range(<<Removes(gone[i])>>) = {Removes(gone[i])}
    BY <2>4, Zenon
  <2>6. seqs[i] = RemovesAll(q) \o <<Removes(gone[i])>>
    BY <1>1 DEF OwnPorts, RemovesOfEach
  <2> DEFINE r == RemovesAll(q)
             l == <<Removes(gone[i])>>
  <2> HIDE DEF q, r, l
  <2>7. IsSeq(r \o l) /\ Range(r \o l) = Range(r) \union Range(l)
    BY <2>3, <2>5, ConcatSeqs DEF r, l
  <2>8. QED
    BY <2>3, <2>5, <2>6, <2>7 DEF q, r, l
<1>3. IsSeq(seqs) /\ Len(seqs) = n
  BY <1>1 DEF RemovesOfEach
<1>4. IsSeq(FlattenSeq(seqs)) /\ Range(FlattenSeq(seqs)) = UNION {Range(seqs[i]) : i \in 1..n}
  <2>1. \A i \in 1..Len(seqs) : IsSeq(seqs[i])
    BY <1>2, <1>3
  <2>2. IsSeq(FlattenSeq(seqs)) /\ Range(FlattenSeq(seqs)) = UNION {Range(seqs[i]) : i \in 1..Len(seqs)}
    <3>1. \A q : IsSeq(q) /\ (\A i \in 1..Len(q) : IsSeq(q[i])) =>
                   IsSeq(FlattenSeq(q)) /\ Range(FlattenSeq(q)) = UNION {Range(q[i]) : i \in 1..Len(q)}
      BY FlattenSeqs
    <3>2. QED
      BY <1>3, <2>1, <3>1
  <2>3. QED
    BY <1>3, <2>2
<1>5. UNION {Range(seqs[i]) : i \in 1..n} = {Removes(x) : x \in S \union UNION {OwnPorts(m, k) : k \in S}}
  <2>1. ASSUME NEW i \in 1..n, NEW a \in Range(seqs[i])
        PROVE  a \in {Removes(x) : x \in S \union UNION {OwnPorts(m, k) : k \in S}}
    BY <1>1, <1>2
  <2>2. ASSUME NEW k \in S
        PROVE  \E i \in 1..n : Removes(k) \in Range(seqs[i])
    BY <1>1, <1>2
  <2>3. ASSUME NEW k \in S, NEW x \in OwnPorts(m, k)
        PROVE  \E i \in 1..n : Removes(x) \in Range(seqs[i])
    <3>1. PICK i \in 1..n : gone[i] = k
      BY <1>1
    <3>2. QED
      BY <1>2, <3>1
  <2>4. UNION {Range(seqs[i]) : i \in 1..n} \subseteq {Removes(x) : x \in S \union UNION {OwnPorts(m, k) : k \in S}}
    BY <2>1
  <2>5. \A x \in S \union UNION {OwnPorts(m, k) : k \in S} : \E i \in 1..n : Removes(x) \in Range(seqs[i])
    BY <2>2, <2>3
  <2> DEFINE T == S \union UNION {OwnPorts(m, k) : k \in S}
             U == UNION {Range(seqs[i]) : i \in 1..n}
  <2>6. \A x \in T : Removes(x) \in U
    BY <2>5
  <2>7. U \subseteq {Removes(x) : x \in T}
    BY <2>4
  <2> HIDE DEF T, U
  <2>8. U = {Removes(x) : x \in T}
    BY <2>6, <2>7
  <2>9. QED
    BY <2>8 DEF T, U
<1>6. QED
  BY <1>4, <1>5

Bounded(m) == /\ IsFiniteSet(m.nodes) /\ IsFiniteSet(m.wires) /\ IsFiniteSet(m.ports)
              /\ \A x : IsFiniteSet(Reached(m, x, "taken"))

\* Each wire drawn has a Thing of its own, should it be new.
Numbering(edges, free) ==
  {wire \in [edges -> (free + 1)..(free + Cardinality(edges))] : \A e, f \in edges : wire[e] = wire[f] => e = f}

\* The writes of each wire, in some order of the wires.
WritesOfEach(seqs, m, persisted, order, free) ==
  /\ IsSeq(seqs) /\ Len(seqs) = Len(order)
  /\ \A i \in 1..Len(order) : seqs[i] = WireWrites(m, persisted, order[i], free + i)

\* What is asked for all the wires, where each new one has a number of its own.
LEMMA WiresRange ==
  ASSUME NEW m, Bounded(m), NEW edges, IsFiniteSet(edges), \A e \in edges : IsFiniteSet(e.taken),
         NEW persisted, NEW free \in Nat,
         NEW seqs, WritesOfEach(seqs, m, persisted, SetToSeq(edges), free)
  PROVE  \E wire \in Numbering(edges, free) :
           /\ IsSeq(FlattenSeq(seqs))
           /\ Range(FlattenSeq(seqs)) = UNION {Requests(m, persisted, e, wire[e]) : e \in edges}
<1> DEFINE n == Cardinality(edges)
           order == SetToSeq(edges)
<1>00. /\ IsSeq(seqs) /\ Len(seqs) = Len(order)
       /\ \A i \in 1..Len(order) : seqs[i] = WireWrites(m, persisted, order[i], free + i)
  BY DEF WritesOfEach
<1>0. n \in Nat /\ (\A i \in 1..n : order[i] \in edges) /\ \A e \in edges : \E i \in 1..n : order[i] = e
  BY EachOf
<1>0a. /\ Len(SetToSeq(edges)) = n
       /\ \A i, j \in 1..n : SetToSeq(edges)[i] = SetToSeq(edges)[j] => i = j
  BY SetToSeqIs
<1>0b. Len(order) = n /\ \A i, j \in 1..n : order[i] = order[j] => i = j
  BY <1>0a
<1> HIDE DEF n, order
<1> DEFINE at == [e \in edges |-> CHOOSE i \in 1..n : order[i] = e]
           wire == [e \in edges |-> free + at[e]]
<1>1. \A e \in edges : at[e] \in 1..n /\ order[at[e]] = e
  BY <1>0
<1>2. \A i \in 1..n : order[i] \in edges /\ at[order[i]] = i
  BY <1>0, <1>0b, <1>1
<1> HIDE DEF at
<1>3. wire \in Numbering(edges, free)
  <2>1. \A e \in edges : wire[e] \in (free + 1)..(free + n)
    BY <1>0, <1>1
  <2>2. \A e, f \in edges : wire[e] = wire[f] => e = f
    <3>1. TAKE e, f \in edges
    <3>2. at[e] \in Nat /\ at[f] \in Nat /\ order[at[e]] = e /\ order[at[f]] = f
      BY <1>0, <1>1
    <3>3. wire[e] = free + at[e] /\ wire[f] = free + at[f]
      OBVIOUS
    <3>4. wire[e] = wire[f] => at[e] = at[f]
      <4>1. \A x, y \in Nat : free + x = free + y => x = y
        OBVIOUS
      <4>2. QED
        BY <3>2, <3>3, <4>1
    <3>5. QED
      BY <3>2, <3>4
  <2>3. wire \in [edges -> (free + 1)..(free + n)]
    BY <2>1
  <2> HIDE DEF wire
  <2>4. QED
    BY <2>2, <2>3 DEF Numbering, n
<1>4. \A i \in 1..n : /\ IsSeq(seqs[i])
                      /\ Range(seqs[i]) = Requests(m, persisted, order[i], wire[order[i]])
  <2>1. TAKE i \in 1..n
  <2>2. seqs[i] = WireWrites(m, persisted, order[i], wire[order[i]]) /\ order[i] \in edges
    BY <1>00, <1>0b, <1>2
  <2>3. IsFiniteSet(order[i].taken)
    BY <2>2
  <2> DEFINE e == order[i]
             w == wire[order[i]]
  <2>4. IsFiniteSet(e.taken) /\ seqs[i] = WireWrites(m, persisted, e, w)
    BY <2>2, <2>3
  <2> HIDE DEF e, w
  <2>5. \A x : IsFiniteSet(Reached(m, x, "taken"))
    BY DEF Bounded
  <2>6. IsSeq(WireWrites(m, persisted, e, w)) /\ Range(WireWrites(m, persisted, e, w)) = Requests(m, persisted, e, w)
    BY <2>4, <2>5, WireWritesRange
  <2>7. QED
    BY <2>4, <2>6 DEF e, w
<1> HIDE DEF wire
<1>5. IsSeq(FlattenSeq(seqs)) /\ Range(FlattenSeq(seqs)) = UNION {Range(seqs[i]) : i \in 1..n}
  <2>1. IsSeq(seqs) /\ Len(seqs) = n
    BY <1>00, <1>0b
  <2>2. \A i \in 1..Len(seqs) : IsSeq(seqs[i])
    BY <1>4, <2>1
  <2>3. QED
    BY <2>1, <2>2, FlattenSeqs
<1>6. UNION {Range(seqs[i]) : i \in 1..n} = UNION {Requests(m, persisted, e, wire[e]) : e \in edges}
  <2>1. \A i \in 1..n : order[i] \in edges /\ Range(seqs[i]) = Requests(m, persisted, order[i], wire[order[i]])
    BY <1>0, <1>4
  <2>2. \A e \in edges : \E i \in 1..n : Range(seqs[i]) = Requests(m, persisted, e, wire[e])
    BY <1>0, <1>4
  <2>3. QED
    BY <2>1, <2>2
<1>7. QED
  BY <1>3, <1>5, <1>6

\* The requests of a save, as a set.
LEMMA WritesRange ==
  ASSUME NEW m, Bounded(m), NEW d, IsFiniteSet(d.edges), \A e \in d.edges : IsFiniteSet(e.taken),
         NEW p, NEW known, NEW free \in Nat
  PROVE  /\ IsSeq(Writes(d, m, p, known, free))
         /\ \E wire \in Numbering(d.edges, free) :
              Range(Writes(d, m, p, known, free)) = Requested(d, m, p, persistedNodeIds(m, p, known), wire)
<1> DEFINE nodes == persistedNodeIds(m, p, known)
           persisted == PersistedWires(m, nodes)
           order == SetToSeq(d.edges)
           A == [i \in 1..Len(order) |-> WireWrites(m, persisted, order[i], free + i)]
           U == Undesired(d, m, persisted)
           gone == SetToSeq(GoneNodes(d, nodes))
           G == [i \in 1..Len(gone) |-> RemovesAll(OwnPorts(m, gone[i])) \o <<Removes(gone[i])>>]
<1>1. Writes(d, m, p, known, free) = <<Fragment(d, p)>> \o FlattenSeq(A) \o RemovesAll(U) \o FlattenSeq(G)
  BY Zenon DEF Writes, Undesired, GoneNodes, OwnPorts
<1>2. nodes \subseteq m.nodes
  BY DEF persistedNodeIds, NodesOf
<1>3. IsFiniteSet(GoneNodes(d, nodes))
  BY <1>2, FS_Subset DEF GoneNodes, Bounded
<1>4. \A k \in persisted : k[2] \in m.wires
  BY DEF PersistedWires, outgoingWires
<1>5. IsFiniteSet(U)
  <2>1. U \subseteq m.wires
    BY <1>4 DEF Undesired
  <2>2. QED
    BY <2>1, FS_Subset DEF Bounded
<1> HIDE DEF nodes, persisted, U
<1>6. Len(order) \in Nat /\ Len(gone) \in Nat
  BY <1>3, SetToSeqIs
<1>7. IsSeq(A) /\ Len(A) = Len(order) /\ \A i \in 1..Len(order) : A[i] = WireWrites(m, persisted, order[i], free + i)
  <2>1. A = [i \in 1..Len(order) |-> A[i]] /\ \A i \in 1..Len(order) : A[i] = WireWrites(m, persisted, order[i], free + i)
    OBVIOUS
  <2> HIDE DEF A, order
  <2>2. QED
    BY <1>6, <2>1, SeqBuilt
<1>8. IsSeq(G) /\ Len(G) = Len(gone)
      /\ \A i \in 1..Len(gone) : G[i] = RemovesAll(OwnPorts(m, gone[i])) \o <<Removes(gone[i])>>
  <2>1. G = [i \in 1..Len(gone) |-> G[i]]
        /\ \A i \in 1..Len(gone) : G[i] = RemovesAll(OwnPorts(m, gone[i])) \o <<Removes(gone[i])>>
    OBVIOUS
  <2> HIDE DEF G, gone
  <2>2. QED
    BY <1>6, <2>1, SeqBuilt
<1> HIDE DEF A, G
<1>9. PICK wire \in Numbering(d.edges, free) :
           /\ IsSeq(FlattenSeq(A))
           /\ Range(FlattenSeq(A)) = UNION {Requests(m, persisted, e, wire[e]) : e \in d.edges}
  <2>1. WritesOfEach(A, m, persisted, SetToSeq(d.edges), free)
    BY <1>7, Zenon DEF WritesOfEach
  <2> HIDE DEF order
  <2>2. QED
    BY <2>1, WiresRange
<1>10. /\ IsSeq(FlattenSeq(G))
       /\ Range(FlattenSeq(G)) = {Removes(x) : x \in Goes(d, m, nodes)}
  <2>1. IsFiniteSet(m.ports)
    BY DEF Bounded
  <2> DEFINE S == GoneNodes(d, nodes)
  <2>2. Range(FlattenSeq(G)) = {Removes(x) : x \in S \union UNION {OwnPorts(m, n) : n \in S}} /\ IsSeq(FlattenSeq(G))
    <3> HIDE DEF S
    <3>1. gone = SetToSeq(S)
      BY DEF S
    <3>2. IsFiniteSet(S)
      BY <1>3 DEF S
    <3>3. RemovesOfEach(G, m, gone)
      BY <1>8, Zenon DEF RemovesOfEach
    <3> HIDE DEF gone
    <3>4. QED
      BY <2>1, <3>1, <3>2, <3>3, GoneRange
  <2>3. QED
    BY <2>2 DEF Goes
<1>11. IsSeq(RemovesAll(U)) /\ Range(RemovesAll(U)) = {Removes(x) : x \in U}
  BY <1>5, RemovesRange
<1>12. IsSeq(<<Fragment(d, p)>>) /\ Range(<<Fragment(d, p)>>) = {Fragment(d, p)}
  <2>1. \A a : IsSeq(<<a>>) /\ Range(<<a>>) = {a}
    BY DEF IsSeq, Range
  <2>2. QED
    BY <2>1, Zenon
<1> DEFINE f == <<Fragment(d, p)>>
           a == FlattenSeq(A)
           u == RemovesAll(U)
           g == FlattenSeq(G)
<1> HIDE DEF f, a, u, g
<1>13. /\ IsSeq(f \o a) /\ Range(f \o a) = Range(f) \union Range(a)
  BY <1>9, <1>12, ConcatSeqs DEF f, a
<1>14. /\ IsSeq((f \o a) \o u) /\ Range((f \o a) \o u) = Range(f \o a) \union Range(u)
  BY <1>11, <1>13, ConcatSeqs DEF u
<1>15. /\ IsSeq(((f \o a) \o u) \o g) /\ Range(((f \o a) \o u) \o g) = Range((f \o a) \o u) \union Range(g)
  BY <1>10, <1>14, ConcatSeqs DEF g
<1>16. Writes(d, m, p, known, free) = ((f \o a) \o u) \o g
  BY <1>1 DEF f, a, u, g
<1>17. Range(Writes(d, m, p, known, free)) = Requested(d, m, p, nodes, wire)
  <2> DEFINE X == UNION {Requests(m, persisted, e, wire[e]) : e \in d.edges}
             Y == {Removes(x) : x \in U}
             Z == {Removes(x) : x \in Goes(d, m, nodes)}
             V == {Removes(x) : x \in U \union Goes(d, m, nodes)}
  <2>1. Requested(d, m, p, nodes, wire) = {Fragment(d, p)} \union X \union V
    BY DEF Requested, persisted, U
  <2>2. V = Y \union Z
    OBVIOUS
  <2>3. Range(f) = {Fragment(d, p)} /\ Range(a) = X
    BY <1>9, <1>12 DEF f, a
  <2>4. Range(u) = Y /\ Range(g) = Z
    BY <1>10, <1>11 DEF u, g
  <2> HIDE DEF X, Y, Z, V
  <2>5. QED
    BY <1>13, <1>14, <1>15, <1>16, <2>1, <2>2, <2>3, <2>4
<1>18. QED
  BY <1>9, <1>15, <1>16, <1>17 DEF nodes

-----------------------------------------------------------------------------
\* What a request does to the model, and the kinds of Things: each keeps to the archetype it was made of.

\* A sequence is its first element and the rest.
LEMMA HeadTail ==
  ASSUME NEW s, IsSeq(s), s # <<>>
  PROVE  /\ Head(s) \in Range(s)
         /\ IsSeq(Tail(s))
         /\ Range(s) = {Head(s)} \union Range(Tail(s))
<1> DEFINE n == Len(s)
<1>1. n \in Nat /\ n # 0 /\ DOMAIN s = 1..n
  BY DEF IsSeq
<1>2. Head(s) = s[1] /\ Tail(s) \in Seq(Range(s)) /\ Len(Tail(s)) = n - 1
  BY <1>1 DEF IsSeq
<1>3. \A i \in 1..(n - 1) : Tail(s)[i] = s[i + 1]
  BY <1>1 DEF IsSeq
<1>4. IsSeq(Tail(s)) /\ Range(Tail(s)) \subseteq Range(s)
  BY <1>2, SeqIsOfRange
<1>5. DOMAIN Tail(s) = 1..(n - 1)
  BY <1>2
<1>6. ASSUME NEW i \in 1..n
      PROVE  s[i] \in {Head(s)} \union Range(Tail(s))
  <2>1. CASE i = 1
    BY <1>2, <2>1
  <2>2. CASE i # 1
    <3>1. i - 1 \in 1..(n - 1) /\ (i - 1) + 1 = i
      BY <1>1, <2>2
    <3>2. Tail(s)[i - 1] = s[i]
      BY <1>3, <3>1
    <3>3. QED
      BY <1>5, <3>1, <3>2 DEF Range
  <2>3. QED
    BY <2>1, <2>2
<1>7. Range(s) \subseteq {Head(s)} \union Range(Tail(s))
  BY <1>1, <1>6 DEF Range
<1>8. Head(s) \in Range(s)
  BY <1>1, <1>2 DEF Range
<1>9. QED
  BY <1>4, <1>7, <1>8

\* What a request leaves.
LEMMA AppliedIs ==
  ASSUME NEW m, NEW w, NEW x, x = Applied(m, w)
  PROVE  /\ x.pipelines = (m.pipelines \ w.removed) \union w.added.pipelines
         /\ x.nodes = (m.nodes \ w.removed) \union w.added.nodes
         /\ x.starts = (m.starts \ w.removed) \union w.added.starts
         /\ x.wires = (m.wires \ w.removed) \union w.added.wires
         /\ x.ports = (m.ports \ w.removed) \union w.added.ports
         /\ x.rels = {r \in m.rels : r[1] \notin w.removed /\ r[3] \notin w.removed /\ r \notin w.retracted}
                       \union w.added.rels
<1> DEFINE a == Without(m, w.removed)
           b == [a EXCEPT !.rels = @ \ w.retracted]
<1>1. x = With(b, w.added)
  BY DEF Applied
<1>2. /\ a.pipelines = m.pipelines \ w.removed /\ a.nodes = m.nodes \ w.removed
      /\ a.starts = m.starts \ w.removed /\ a.wires = m.wires \ w.removed /\ a.ports = m.ports \ w.removed
      /\ a.rels = {r \in m.rels : r[1] \notin w.removed /\ r[3] \notin w.removed}
      /\ DOMAIN a = {"pipelines", "nodes", "starts", "wires", "ports", "rels"}
  BY DEF Without
<1> HIDE DEF a
<1>3. /\ b.pipelines = a.pipelines /\ b.nodes = a.nodes /\ b.starts = a.starts /\ b.wires = a.wires
      /\ b.ports = a.ports /\ b.rels = a.rels \ w.retracted
  BY <1>2
<1> HIDE DEF b
<1>4. /\ x.pipelines = b.pipelines \union w.added.pipelines /\ x.nodes = b.nodes \union w.added.nodes
      /\ x.starts = b.starts \union w.added.starts /\ x.wires = b.wires \union w.added.wires
      /\ x.ports = b.ports \union w.added.ports /\ x.rels = b.rels \union w.added.rels
  BY <1>1 DEF With
<1>5. a.rels \ w.retracted = {r \in m.rels : r[1] \notin w.removed /\ r[3] \notin w.removed /\ r \notin w.retracted}
  BY <1>2
<1>6. QED
  BY <1>2, <1>3, <1>4, <1>5

Kinds == {"pipeline", "start", "call", "wire", "port"}

\* The Things of a kind, where kind[x] is what the Thing x is.
Of(kind, k)   == {x \in DOMAIN kind : kind[x] = k}
NodesIn(kind) == Of(kind, "start") \union Of(kind, "call")
RelsIn(kind)  == Relationships(Of(kind, "pipeline"), NodesIn(kind), Of(kind, "start"), Of(kind, "wire"),
                               Of(kind, "port"))

\* A model, or what a request adds, keeps to the kinds; a port comes with what says whose it is.
Fits(m, kind) ==
  /\ m.pipelines \subseteq Of(kind, "pipeline")
  /\ m.nodes \subseteq NodesIn(kind)
  /\ m.starts = m.nodes \intersect Of(kind, "start")
  /\ m.wires \subseteq Of(kind, "wire")
  /\ m.ports \subseteq Of(kind, "port")
  /\ m.rels \subseteq RelsIn(kind)
  /\ \A r \in m.rels : r[2] = "has" /\ r[3] \in Of(kind, "port") => r[3] \in m.ports

Takens(kind) == Of(kind, "wire") \X {"taken"} \X {Success, Fail}

RequestFits(w, kind) ==
  /\ Fits(w.added, kind)
  /\ w.removed \subseteq NodesIn(kind) \union Of(kind, "wire") \union Of(kind, "port")
  /\ w.retracted \subseteq Takens(kind)

\* A request that keeps to the kinds leaves a model that does.
LEMMA AppliedFits ==
  ASSUME NEW kind, NEW m, NEW w, Fits(m, kind), RequestFits(w, kind)
  PROVE  Fits(Applied(m, w), kind)
<1> DEFINE x == Applied(m, w)
<1>1. /\ x.pipelines = (m.pipelines \ w.removed) \union w.added.pipelines
      /\ x.nodes = (m.nodes \ w.removed) \union w.added.nodes
      /\ x.starts = (m.starts \ w.removed) \union w.added.starts
      /\ x.wires = (m.wires \ w.removed) \union w.added.wires
      /\ x.ports = (m.ports \ w.removed) \union w.added.ports
      /\ x.rels = {r \in m.rels : r[1] \notin w.removed /\ r[3] \notin w.removed /\ r \notin w.retracted}
                    \union w.added.rels
  BY AppliedIs
<1> HIDE DEF x
<1>2. /\ x.pipelines \subseteq Of(kind, "pipeline") /\ x.nodes \subseteq NodesIn(kind)
      /\ x.wires \subseteq Of(kind, "wire") /\ x.ports \subseteq Of(kind, "port")
  BY <1>1 DEF Fits, RequestFits
<1>3. x.starts = x.nodes \intersect Of(kind, "start")
  BY <1>1 DEF Fits, RequestFits
<1>4. x.rels \subseteq RelsIn(kind)
  BY <1>1 DEF Fits, RequestFits
<1>5. ASSUME NEW r \in x.rels, r[2] = "has", r[3] \in Of(kind, "port")
      PROVE  r[3] \in x.ports
  BY <1>1, <1>5 DEF Fits, RequestFits
<1>6. QED
  BY <1>2, <1>3, <1>4, <1>5 DEF Fits, x

-----------------------------------------------------------------------------
\* Drawings, and what is read from a model that keeps to the kinds.

\* What is drawn: a node that is a Thing is one of its kind, another has been placed; a start node has ports of
\* its own; a wire goes from a port to the service's.
NodeFits(n, kind, placed) ==
  /\ n \in [id : Int, start : BOOLEAN, ports : SUBSET (Of(kind, "port") \union {Service})]
  /\ n.id > 0 => n.id \in Of(kind, IF n.start THEN "start" ELSE "call")
  /\ n.id <= 0 => n.id < 0 /\ -n.id <= placed
  /\ IF n.start THEN n.ports \subseteq Of(kind, "port") ELSE n.ports = {Service}

Ids(c) == {n.id : n \in c.nodes}

EdgeFits(e, kind, ids) ==
  /\ e \in [source : ids, outPort : Of(kind, "port") \union {Service}, target : ids, inPort : {Service},
            taken : SUBSET {Success, Fail}]

CanvasFits(c, kind, placed) ==
  /\ c = [nodes |-> c.nodes, edges |-> c.edges]
  /\ IsFiniteSet(c.nodes) /\ IsFiniteSet(c.edges)
  /\ \A n \in c.nodes : NodeFits(n, kind, placed)
  /\ \A n, k \in c.nodes : n.id = k.id => n = k
  /\ \A e \in c.edges : EdgeFits(e, kind, Ids(c))

\* One kind-map extends another.
Extends(kind2, kind) == /\ DOMAIN kind \subseteq DOMAIN kind2
                        /\ \A x \in DOMAIN kind : kind2[x] = kind[x]

\* What is of a kind stays of it, and no other Thing with a kind becomes so.
LEMMA OfExtends ==
  ASSUME NEW kind, NEW kind2, Extends(kind2, kind)
  PROVE  /\ \A k : Of(kind, k) \subseteq Of(kind2, k)
         /\ NodesIn(kind) \subseteq NodesIn(kind2)
         /\ RelsIn(kind) \subseteq RelsIn(kind2)
         /\ \A x \in DOMAIN kind : \A k : x \in Of(kind2, k) <=> x \in Of(kind, k)
<1>1. \A k : Of(kind, k) \subseteq Of(kind2, k)
  BY DEF Extends, Of
<1>2. \A x \in DOMAIN kind : \A k : x \in Of(kind2, k) <=> x \in Of(kind, k)
  BY DEF Extends, Of
<1>3. NodesIn(kind) \subseteq NodesIn(kind2)
  BY <1>1 DEF NodesIn
<1>4. RelsIn(kind) \subseteq RelsIn(kind2)
  BY <1>1, <1>3 DEF RelsIn, Relationships
<1>5. QED
  BY <1>1, <1>2, <1>3, <1>4

\* A Thing is of one kind.
LEMMA KindOf ==
  ASSUME NEW kind
  PROVE  /\ \A k : Of(kind, k) \subseteq DOMAIN kind
         /\ NodesIn(kind) \subseteq DOMAIN kind
         /\ \A k, l : k # l => Of(kind, k) \intersect Of(kind, l) = {}
         /\ NodesIn(kind) \intersect Of(kind, "wire") = {}
         /\ NodesIn(kind) \intersect Of(kind, "port") = {}
         /\ NodesIn(kind) \intersect Of(kind, "pipeline") = {}
BY DEF Of, NodesIn

\* What a relationship that keeps to the kinds joins.
LEMMA RelParts ==
  ASSUME NEW kind, NEW r \in RelsIn(kind), DOMAIN kind \subseteq Int
  PROVE  /\ r = <<r[1], r[2], r[3]>>
         /\ r[1] \in DOMAIN kind
         /\ r[3] \in DOMAIN kind \union {Service, Success, Fail}
         /\ \/ r[2] = "has" /\ r[1] \in Of(kind, "pipeline") /\ r[3] \in NodesIn(kind)
            \/ r[2] = "has" /\ r[1] \in NodesIn(kind) /\ r[3] \in Of(kind, "wire")
            \/ r[2] = "has" /\ r[1] \in Of(kind, "start") /\ r[3] \in Of(kind, "port")
            \/ r[2] = "wire" /\ r[1] \in Of(kind, "wire") /\ r[3] \in NodesIn(kind)
            \/ r[2] = "in" /\ r[1] \in Of(kind, "wire") /\ r[3] \in Of(kind, "port") \union {Service}
            \/ r[2] = "out" /\ r[1] \in Of(kind, "wire") /\ r[3] = Service
            \/ r[2] = "taken" /\ r[1] \in Of(kind, "wire") /\ r[3] \in {Success, Fail}
<1>1. \/ r \in Of(kind, "pipeline") \X {"has"} \X NodesIn(kind)
      \/ r \in NodesIn(kind) \X {"has"} \X Of(kind, "wire")
      \/ r \in Of(kind, "start") \X {"has"} \X Of(kind, "port")
      \/ r \in Of(kind, "wire") \X {"wire"} \X NodesIn(kind)
      \/ r \in Of(kind, "wire") \X {"in"} \X (Of(kind, "port") \union {Service})
      \/ r \in Of(kind, "wire") \X {"out"} \X {Service}
      \/ r \in Of(kind, "wire") \X {"taken"} \X {Success, Fail}
  BY DEF RelsIn, Relationships
<1>2. r = <<r[1], r[2], r[3]>>
      /\ \/ r[2] = "has" /\ r[1] \in Of(kind, "pipeline") /\ r[3] \in NodesIn(kind)
         \/ r[2] = "has" /\ r[1] \in NodesIn(kind) /\ r[3] \in Of(kind, "wire")
         \/ r[2] = "has" /\ r[1] \in Of(kind, "start") /\ r[3] \in Of(kind, "port")
         \/ r[2] = "wire" /\ r[1] \in Of(kind, "wire") /\ r[3] \in NodesIn(kind)
         \/ r[2] = "in" /\ r[1] \in Of(kind, "wire") /\ r[3] \in Of(kind, "port") \union {Service}
         \/ r[2] = "out" /\ r[1] \in Of(kind, "wire") /\ r[3] = Service
         \/ r[2] = "taken" /\ r[1] \in Of(kind, "wire") /\ r[3] \in {Success, Fail}
  BY <1>1
<1>3. QED
  BY <1>2, KindOf

\* The relationships that keep to the kinds.
LEMMA RelOfParts ==
  ASSUME NEW kind
  PROVE  /\ \A a \in Of(kind, "pipeline"), b \in NodesIn(kind) : <<a, "has", b>> \in RelsIn(kind)
         /\ \A a \in NodesIn(kind), b \in Of(kind, "wire") : <<a, "has", b>> \in RelsIn(kind)
         /\ \A a \in Of(kind, "start"), b \in Of(kind, "port") : <<a, "has", b>> \in RelsIn(kind)
         /\ \A a \in Of(kind, "wire"), b \in NodesIn(kind) : <<a, "wire", b>> \in RelsIn(kind)
         /\ \A a \in Of(kind, "wire"), b \in Of(kind, "port") \union {Service} : <<a, "in", b>> \in RelsIn(kind)
         /\ \A a \in Of(kind, "wire") : <<a, "out", Service>> \in RelsIn(kind)
         /\ \A a \in Of(kind, "wire"), b \in {Success, Fail} : <<a, "taken", b>> \in RelsIn(kind)
BY DEF RelsIn, Relationships

\* A model keeps to the kinds when more Things are named.
LEMMA FitsExtends ==
  ASSUME NEW kind, NEW kind2, Extends(kind2, kind), DOMAIN kind \subseteq Int, NEW m, Fits(m, kind)
  PROVE  Fits(m, kind2)
<1>1. /\ \A k : Of(kind, k) \subseteq Of(kind2, k)
      /\ NodesIn(kind) \subseteq NodesIn(kind2)
      /\ RelsIn(kind) \subseteq RelsIn(kind2)
      /\ \A x \in DOMAIN kind : \A k : x \in Of(kind2, k) <=> x \in Of(kind, k)
  BY OfExtends
<1>2. m.starts = m.nodes \intersect Of(kind2, "start")
  BY <1>1, KindOf DEF Fits
<1>3. ASSUME NEW r \in m.rels, r[2] = "has", r[3] \in Of(kind2, "port")
      PROVE  r[3] \in m.ports
  <2>1. r \in RelsIn(kind)
    BY DEF Fits
  <2>2. r[3] \in DOMAIN kind
    BY <1>3, <2>1, RelParts, KindOf
  <2>3. QED
    BY <1>1, <1>3, <2>2 DEF Fits
<1>4. QED
  BY <1>1, <1>2, <1>3 DEF Fits

\* So does a request.
LEMMA RequestFitsExtends ==
  ASSUME NEW kind, NEW kind2, Extends(kind2, kind), DOMAIN kind \subseteq Int, NEW w, RequestFits(w, kind)
  PROVE  RequestFits(w, kind2)
<1>1. Fits(w.added, kind2)
  BY FitsExtends DEF RequestFits
<1>2. /\ \A k : Of(kind, k) \subseteq Of(kind2, k)
      /\ NodesIn(kind) \subseteq NodesIn(kind2)
  BY OfExtends
<1>3. Takens(kind) \subseteq Takens(kind2)
  BY <1>2 DEF Takens
<1>4. QED
  BY <1>1, <1>2, <1>3 DEF RequestFits

\* So does a drawing, when more nodes are placed as well.
LEMMA CanvasFitsExtends ==
  ASSUME NEW kind, NEW kind2, Extends(kind2, kind), NEW placed \in Nat, NEW placed2 \in Nat, placed <= placed2,
         NEW c, CanvasFits(c, kind, placed)
  PROVE  CanvasFits(c, kind2, placed2)
<1>1. \A k : Of(kind, k) \subseteq Of(kind2, k)
  BY OfExtends
<1>2. ASSUME NEW n \in c.nodes
      PROVE  NodeFits(n, kind2, placed2)
  <2>1. NodeFits(n, kind, placed)
    BY DEF CanvasFits
  <2>2. n \in [id : Int, start : BOOLEAN, ports : SUBSET (Of(kind2, "port") \union {Service})]
    <3>1. n \in [id : Int, start : BOOLEAN, ports : SUBSET (Of(kind, "port") \union {Service})]
      BY <2>1 DEF NodeFits
    <3>2. QED
      BY <1>1, <3>1
  <2>3. n.id \in Int
    BY <2>2
  <2>4. n.id <= 0 => n.id < 0 /\ -n.id <= placed2
    BY <2>1, <2>3 DEF NodeFits
  <2>5. n.id > 0 => n.id \in Of(kind2, IF n.start THEN "start" ELSE "call")
    BY <1>1, <2>1 DEF NodeFits
  <2>6. IF n.start THEN n.ports \subseteq Of(kind2, "port") ELSE n.ports = {Service}
    BY <1>1, <2>1 DEF NodeFits
  <2>7. QED
    BY <2>2, <2>4, <2>5, <2>6 DEF NodeFits
<1>3. ASSUME NEW e \in c.edges
      PROVE  EdgeFits(e, kind2, Ids(c))
  BY <1>1 DEF CanvasFits, EdgeFits
<1>4. QED
  BY <1>2, <1>3 DEF CanvasFits

\* The image of a finite set.
LEMMA ImageFinite ==
  ASSUME NEW S, IsFiniteSet(S), NEW f, DOMAIN f = S, NEW T, T \subseteq {f[x] : x \in S}
  PROVE  IsFiniteSet(T) /\ Cardinality(T) <= Cardinality(S)
<1> DEFINE R == {f[x] : x \in S}
           g == [x \in S |-> f[x]]
<1>1. g \in Surjection(S, R)
  BY DEF Surjection
<1>2. IsFiniteSet(R) /\ Cardinality(R) <= Cardinality(S)
  BY <1>1, FS_Surjection
<1>3. IsFiniteSet(T) /\ Cardinality(T) <= Cardinality(R)
  BY <1>2, FS_Subset
<1>4. Cardinality(T) \in Nat /\ Cardinality(R) \in Nat /\ Cardinality(S) \in Nat
  BY <1>2, <1>3, FS_CardinalityType
<1>5. QED
  BY <1>2, <1>3, <1>4

\* What is reached from a Thing is what a relationship leads to.
LEMMA ReachedIs ==
  ASSUME NEW m, NEW s, NEW predicate, NEW x
  PROVE  x \in Reached(m, s, predicate) <=> \E r \in m.rels : r[1] = s /\ r[2] = predicate /\ r[3] = x
BY DEF Reached

\* What is reached along a relationship.
LEMMA ReachedFits ==
  ASSUME NEW kind, DOMAIN kind \subseteq Int, NEW m, Fits(m, kind)
  PROVE  /\ \A s, k, x : x \in Reached(m, s, k) <=> <<s, k, x>> \in m.rels
         /\ \A s, k, x : x \in Reached(m, s, k) => s \in DOMAIN kind
         /\ \A s, x : x \in Reached(m, s, "in") => x \in Of(kind, "port") \union {Service}
         /\ \A s, x : x \in Reached(m, s, "out") => x = Service
         /\ \A s, x : x \in Reached(m, s, "wire") => x \in NodesIn(kind)
         /\ \A s : Reached(m, s, "taken") \subseteq {Success, Fail}
<1>1. \A r \in m.rels : r \in RelsIn(kind)
  BY DEF Fits
<1>2. \A r \in m.rels : r = <<r[1], r[2], r[3]>>
  BY <1>1, RelParts
<1>3. \A s, k, x : x \in Reached(m, s, k) => <<s, k, x>> \in m.rels
  BY <1>2, ReachedIs
<1>4. \A s, k, x : <<s, k, x>> \in m.rels => x \in Reached(m, s, k)
  <2>1. TAKE s, k, x
  <2>2. <<s, k, x>>[1] = s /\ <<s, k, x>>[2] = k /\ <<s, k, x>>[3] = x
    OBVIOUS
  <2>3. QED
    BY <2>2, ReachedIs
<1>5. \A s, k, x : <<s, k, x>> \in m.rels =>
        /\ s \in DOMAIN kind
        /\ k = "in" => x \in Of(kind, "port") \union {Service}
        /\ k = "out" => x = Service
        /\ k = "wire" => x \in NodesIn(kind)
        /\ k = "taken" => x \in {Success, Fail}
  <2>1. TAKE s, k, x
  <2> DEFINE r == <<s, k, x>>
  <2>2. r[1] = s /\ r[2] = k /\ r[3] = x
    OBVIOUS
  <2> HIDE DEF r
  <2>3. SUFFICES ASSUME r \in m.rels
                 PROVE  /\ r[1] \in DOMAIN kind
                        /\ r[2] = "in" => r[3] \in Of(kind, "port") \union {Service}
                        /\ r[2] = "out" => r[3] = Service
                        /\ r[2] = "wire" => r[3] \in NodesIn(kind)
                        /\ r[2] = "taken" => r[3] \in {Success, Fail}
    BY <2>2 DEF r
  <2>4. r \in RelsIn(kind)
    BY <1>1, <2>3
  <2>5. QED
    BY <2>4, RelParts
<1>6. QED
  BY <1>3, <1>4, <1>5

\* The fields of a node that is read.
LEMMA NodeRecord ==
  ASSUME NEW n, NEW S, NEW q, NEW x, x = [id |-> n, start |-> n \in S, ports |-> q]
  PROVE  x.id = n /\ (x.start <=> n \in S) /\ x.start \in BOOLEAN /\ x.ports = q
<1>1. x.id = n /\ x.ports = q
  OBVIOUS
<1>2. x.start <=> n \in S
  OBVIOUS
<1>3. x.start \in BOOLEAN
  OBVIOUS
<1>4. QED
  BY <1>1, <1>2, <1>3

\* loadPipeline reads a drawing that keeps to the kinds, of the nodes of the pipeline.
LEMMA LoadFits ==
  ASSUME NEW kind, NEW k \in Nat, DOMAIN kind = 1..k, NEW m, Fits(m, kind), NEW p, NEW placed \in Nat
  PROVE  /\ CanvasFits(loadPipeline(m, p), kind, placed)
         /\ Ids(loadPipeline(m, p)) = NodesOf(m, p)
<1> DEFINE c == loadPipeline(m, p)
           ns == {[id |-> n, start |-> n \in m.starts, ports |-> PortsOf(m, n)] : n \in NodesOf(m, p)}
           es == {e \in UNION {{WireRead(m, n, w) : w \in outgoingWires(m, n)} : n \in NodesOf(m, p)} :
                    e.target \in NodesOf(m, p)}
<1>1. c = [nodes |-> ns, edges |-> es]
  BY DEF loadPipeline
<1>2. c = [nodes |-> c.nodes, edges |-> c.edges] /\ c.nodes = ns /\ c.edges = es
  BY <1>1
<1>3. NodesOf(m, p) \subseteq m.nodes /\ m.nodes \subseteq NodesIn(kind) /\ NodesIn(kind) \subseteq 1..k
  BY KindOf DEF NodesOf, Fits
<1>4. Ids(c) = NodesOf(m, p)
  <2>1. \A n \in ns : n.id \in NodesOf(m, p)
    OBVIOUS
  <2>2. \A n \in NodesOf(m, p) : \E x \in ns : x.id = n
    <3>1. TAKE n \in NodesOf(m, p)
    <3>2. [id |-> n, start |-> n \in m.starts, ports |-> PortsOf(m, n)] \in ns
      OBVIOUS
    <3>3. [id |-> n, start |-> n \in m.starts, ports |-> PortsOf(m, n)].id = n
      OBVIOUS
    <3>4. QED
      BY <3>2, <3>3
  <2> HIDE DEF ns
  <2>3. QED
    BY <1>2, <2>1, <2>2 DEF Ids
<1>5. IsFiniteSet(NodesOf(m, p)) /\ IsFiniteSet(m.wires)
  <2>1. IsFiniteSet(1..k)
    BY FS_Interval
  <2>2. m.wires \subseteq 1..k
    BY KindOf DEF Fits
  <2>3. NodesOf(m, p) \subseteq 1..k
    BY <1>3
  <2>4. QED
    BY <2>1, <2>2, <2>3, FS_Subset
<1>6. IsFiniteSet(ns)
  <2> DEFINE f == [n \in NodesOf(m, p) |-> [id |-> n, start |-> n \in m.starts, ports |-> PortsOf(m, n)]]
  <2>1. ns \subseteq {f[n] : n \in NodesOf(m, p)} /\ DOMAIN f = NodesOf(m, p)
    OBVIOUS
  <2> HIDE DEF f, ns
  <2>2. QED
    BY <1>5, <2>1, ImageFinite
<1>7. IsFiniteSet(es)
  <2> DEFINE S == NodesOf(m, p) \X m.wires
             f == [x \in S |-> WireRead(m, x[1], x[2])]
  <2>1. IsFiniteSet(S)
    BY <1>5, FS_Product
  <2>2. \A n \in NodesOf(m, p), w \in m.wires : WireRead(m, n, w) \in {f[x] : x \in S}
    <3>1. TAKE n \in NodesOf(m, p), w \in m.wires
    <3>2. <<n, w>> \in S /\ f[<<n, w>>] = WireRead(m, n, w)
      OBVIOUS
    <3> HIDE DEF f, S
    <3>3. QED
      BY <3>2
  <2>3. DOMAIN f = S
    OBVIOUS
  <2> HIDE DEF f, S
  <2>4. \A n : outgoingWires(m, n) \subseteq m.wires
    BY DEF outgoingWires
  <2>5. es \subseteq {f[x] : x \in S}
    BY <2>2, <2>4
  <2> HIDE DEF es
  <2>6. QED
    BY <2>1, <2>3, <2>5, ImageFinite
<1>8. ASSUME NEW n \in NodesOf(m, p)
      PROVE  NodeFits([id |-> n, start |-> n \in m.starts, ports |-> PortsOf(m, n)], kind, placed)
  <2> DEFINE x == [id |-> n, start |-> n \in m.starts, ports |-> PortsOf(m, n)]
  <2>1. x.id = n /\ x.start = (n \in m.starts) /\ x.ports = PortsOf(m, n)
        /\ x = [id |-> x.id, start |-> x.start, ports |-> x.ports]
    OBVIOUS
  <2>1a. x.start \in BOOLEAN
    <3>1. x = [id |-> n, start |-> n \in m.starts, ports |-> PortsOf(m, n)]
      BY Zenon
    <3> HIDE DEF x
    <3>2. QED
      BY <3>1, NodeRecord
  <2> HIDE DEF x
  <2>2. n \in 1..k /\ n \in m.nodes
    BY <1>3
  <2>3. PortsOf(m, n) \subseteq Of(kind, "port") \union {Service}
    BY DEF PortsOf, Fits
  <2>4. n \in Of(kind, IF n \in m.starts THEN "start" ELSE "call")
    BY <2>2 DEF Fits, NodesIn
  <2>5. IF n \in m.starts THEN PortsOf(m, n) \subseteq Of(kind, "port") ELSE PortsOf(m, n) = {Service}
    BY DEF PortsOf, Fits
  <2>6. x \in [id : Int, start : BOOLEAN, ports : SUBSET (Of(kind, "port") \union {Service})]
    <3>1. x.id \in Int /\ x.ports \in SUBSET (Of(kind, "port") \union {Service})
      BY <2>1, <2>2, <2>3
    <3>2. x.start \in BOOLEAN
      BY <2>1a
    <3>3. x = [id |-> x.id, start |-> x.start, ports |-> x.ports]
      BY <2>1
    <3> DEFINE P == SUBSET (Of(kind, "port") \union {Service})
    <3> HIDE DEF P
    <3>4. \A a \in Int, b \in BOOLEAN, d \in P : [id |-> a, start |-> b, ports |-> d] \in [id : Int, start : BOOLEAN, ports : P]
      OBVIOUS
    <3>5. x \in [id : Int, start : BOOLEAN, ports : P]
      <4>1. x.ports \in P
        BY <3>1 DEF P
      <4>2. [id |-> x.id, start |-> x.start, ports |-> x.ports] \in [id : Int, start : BOOLEAN, ports : P]
        BY <3>1, <3>2, <3>4, <4>1, Zenon
      <4>3. QED
        BY <3>3, <4>2, Zenon
    <3>6. QED
      BY <3>5 DEF P
  <2>7. x.id > 0
    BY <2>1, <2>2
  <2>8. NodeFits(x, kind, placed)
    BY <2>1, <2>2, <2>4, <2>5, <2>6, <2>7 DEF NodeFits
  <2>9. QED
    BY <2>8 DEF x
<1>9. ASSUME NEW n \in NodesOf(m, p), NEW w \in outgoingWires(m, n), WireRead(m, n, w).target \in NodesOf(m, p)
      PROVE  EdgeFits(WireRead(m, n, w), kind, NodesOf(m, p))
  <2> DEFINE e == WireRead(m, n, w)
  <2>1. DOMAIN kind \subseteq Int
    OBVIOUS
  <2>2. The(Reached(m, w, "in")) \in Reached(m, w, "in") /\ The(Reached(m, w, "out")) \in Reached(m, w, "out")
    BY DEF outgoingWires, The
  <2>3. /\ The(Reached(m, w, "in")) \in Of(kind, "port") \union {Service}
        /\ The(Reached(m, w, "out")) = Service
        /\ Reached(m, w, "taken") \subseteq {Success, Fail}
    BY <2>1, <2>2, ReachedFits
  <2>4. QED
    BY <1>9, <2>3 DEF WireRead, EdgeFits
<1>10. \A n \in ns : NodeFits(n, kind, placed)
  BY <1>8
<1>11. \A n, x \in ns : n.id = x.id => n = x
  OBVIOUS
<1>12. \A e \in es : EdgeFits(e, kind, NodesOf(m, p))
  BY <1>9
<1>13. CanvasFits(c, kind, placed)
  <2> HIDE DEF ns, es, c
  <2>1. QED
    BY <1>2, <1>4, <1>6, <1>7, <1>10, <1>11, <1>12 DEF CanvasFits
<1>14. QED
  BY <1>4, <1>13

-----------------------------------------------------------------------------
\* What a save plans (onSave): the Things it names, what is drawn as Things, and each request of it.

\* A drawing has no more ids than nodes.
LEMMA IdsFinite ==
  ASSUME NEW c, IsFiniteSet(c.nodes)
  PROVE  IsFiniteSet(Ids(c)) /\ Cardinality(Ids(c)) <= Cardinality(c.nodes)
<1> DEFINE f == [n \in c.nodes |-> n.id]
<1>1. Ids(c) \subseteq {f[n] : n \in c.nodes} /\ DOMAIN f = c.nodes
  BY DEF Ids
<1> HIDE DEF f
<1>2. QED
  BY <1>1, ImageFinite

\* The Thing each node becomes: its own where the model holds it, a new one of its own elsewhere.
LEMMA ThingIds ==
  ASSUME NEW m, NEW c, IsFiniteSet(c.nodes), Ids(c) \subseteq Int, NEW k \in Nat, m.nodes \subseteq 1..k,
         NEW to, to = nodeThingId(c, m, k + 1)
  PROVE  /\ Cardinality(c.nodes) \in Nat
         /\ DOMAIN to = Ids(c)
         /\ \A i \in Ids(c) : IF i \in m.nodes THEN to[i] = i ELSE to[i] \in (k + 2)..(k + 1 + Cardinality(c.nodes))
         /\ \A i, j \in Ids(c) : to[i] = to[j] => i = j
<1> DEFINE new == Ids(c) \ m.nodes
           below(i) == {j \in new : j < i}
           N == Cardinality(c.nodes)
<1>1. /\ to = [i \in Ids(c) |-> IF i \in m.nodes THEN i ELSE k + 1 + 1 + Cardinality(below(i))]
  BY Zenon DEF nodeThingId, Ids
<1>2. IsFiniteSet(Ids(c)) /\ Cardinality(Ids(c)) <= N
  BY IdsFinite
<1>3. IsFiniteSet(new) /\ Cardinality(new) <= Cardinality(Ids(c))
  BY <1>2, FS_Subset
<1>4. N \in Nat /\ Cardinality(new) \in Nat /\ Cardinality(Ids(c)) \in Nat
  BY <1>2, <1>3, FS_CardinalityType
<1>5. Cardinality(new) <= N
  BY <1>2, <1>3, <1>4
<1> HIDE DEF new, N
<1>6. \A i : IsFiniteSet(below(i)) /\ Cardinality(below(i)) \in Nat
  <2>1. TAKE i
  <2>2. below(i) \subseteq new
    OBVIOUS
  <2>3. QED
    BY <1>3, <2>2, FS_Subset, FS_CardinalityType
<1>7. ASSUME NEW i \in new
      PROVE  Cardinality(below(i)) < Cardinality(new)
  <2>1. below(i) \subseteq new /\ below(i) # new
    <3>1. i \in Int
      BY DEF new
    <3>2. QED
      BY <3>1
  <2>2. Cardinality(below(i)) <= Cardinality(new) /\ Cardinality(below(i)) # Cardinality(new)
    BY <1>3, <2>1, FS_Subset
  <2> HIDE DEF below
  <2>3. QED
    BY <1>4, <1>6, <2>2
<1>8. ASSUME NEW i \in new, NEW j \in new, i < j
      PROVE  Cardinality(below(i)) < Cardinality(below(j))
  <2>1. i \in Int /\ j \in Int /\ new \subseteq Int
    BY DEF new
  <2>2. below(i) \subseteq below(j) /\ below(i) # below(j)
    <3>1. \A x \in new : x \in Int /\ (x < i => x < j)
      BY <1>8, <2>1
    <3>2. below(i) \subseteq below(j)
      BY <3>1
    <3>3. i \in below(j) /\ i \notin below(i)
      BY <1>8, <2>1
    <3>4. QED
      BY <3>2, <3>3
  <2>3. Cardinality(below(i)) <= Cardinality(below(j)) /\ Cardinality(below(i)) # Cardinality(below(j))
    BY <1>6, <2>2, FS_Subset
  <2> HIDE DEF below
  <2>4. QED
    BY <1>6, <2>3
<1> HIDE DEF below
<1>9. DOMAIN to = Ids(c)
  BY <1>1
<1>10. \A i \in Ids(c) : IF i \in m.nodes THEN to[i] = i ELSE i \in new /\ to[i] = k + 2 + Cardinality(below(i))
  BY <1>1, <1>6 DEF new
<1>11. \A i \in new : k + 2 + Cardinality(below(i)) \in (k + 2)..(k + 1 + N)
  <2>1. TAKE i \in new
  <2>2. Cardinality(below(i)) \in Nat /\ Cardinality(below(i)) < Cardinality(new)
    BY <1>6, <1>7
  <2>3. QED
    BY <1>4, <1>5, <2>2
<1>12. ASSUME NEW i \in Ids(c), NEW j \in Ids(c), to[i] = to[j]
       PROVE  i = j
  <2>1. CASE i \in m.nodes /\ j \in m.nodes
    BY <1>10, <1>12, <2>1
  <2>2. CASE i \in m.nodes /\ j \notin m.nodes
    <3>1. i \in 1..k /\ to[i] = i
      BY <1>10, <2>2
    <3>2. j \in new /\ to[j] = k + 2 + Cardinality(below(j))
      BY <1>10, <2>2
    <3>3. to[j] > k
      BY <1>6, <3>2
    <3>4. QED
      BY <1>12, <3>1, <3>3
  <2>3. CASE i \notin m.nodes /\ j \in m.nodes
    <3>1. j \in 1..k /\ to[j] = j
      BY <1>10, <2>3
    <3>2. i \in new /\ to[i] = k + 2 + Cardinality(below(i))
      BY <1>10, <2>3
    <3>3. to[i] > k
      BY <1>6, <3>2
    <3>4. QED
      BY <1>12, <3>1, <3>3
  <2>4. CASE i \notin m.nodes /\ j \notin m.nodes
    <3>1. i \in new /\ j \in new /\ k + 2 + Cardinality(below(i)) = k + 2 + Cardinality(below(j))
      BY <1>10, <1>12, <2>4
    <3>2. Cardinality(below(i)) = Cardinality(below(j))
      BY <1>6, <3>1
    <3>3. ~(i < j) /\ ~(j < i)
      BY <1>6, <1>8, <3>1, <3>2
    <3>4. i \in Int /\ j \in Int
      OBVIOUS
    <3>5. QED
      BY <3>3, <3>4
  <2>5. QED
    BY <2>1, <2>2, <2>3, <2>4
<1>13. \A i \in Ids(c) : IF i \in m.nodes THEN to[i] = i ELSE to[i] \in (k + 2)..(k + 1 + N)
  BY <1>10, <1>11
<1>14. QED
  BY <1>4, <1>9, <1>12, <1>13 DEF N

\* What the numbers a save takes stand for, after it and before.
Planned(m, c, k, kind, to, free, k2, kind2) ==
  /\ k \in Nat /\ free \in Nat /\ k2 \in Nat /\ k < free
  /\ DOMAIN kind = 1..k /\ kind2 \in [1..k2 -> Kinds] /\ Extends(kind2, kind)
  /\ Fits(m, kind)
  /\ k + 1 \in Of(kind2, "pipeline")
  /\ DOMAIN to = Ids(c)
  /\ \A i, j \in Ids(c) : to[i] = to[j] => i = j
  /\ \A n \in c.nodes : to[n.id] \in Of(kind2, IF n.start THEN "start" ELSE "call")
  /\ \A n \in c.nodes : IF n.id \in m.nodes THEN to[n.id] = n.id ELSE to[n.id] > k + 1
  /\ \A x \in (free + 1)..k2 : x \in Of(kind2, "wire")
  /\ k2 = free + Cardinality(c.edges)

KindAfter(kind, k, c, to, k2) ==
  [x \in 1..k2 |->
     IF x <= k THEN kind[x] ELSE IF x = k + 1 THEN "pipeline"
     ELSE IF \E n \in c.nodes : to[n.id] = x
          THEN IF \E n \in c.nodes : to[n.id] = x /\ n.start THEN "start" ELSE "call"
          ELSE "wire"]

\* The numbers onSave takes are new, and the kinds extend to them.
LEMMA PlanIsPlanned ==
  ASSUME NEW k \in Nat, NEW kind \in [1..k -> Kinds], NEW m, Fits(m, kind), NEW placed \in Nat,
         NEW c, CanvasFits(c, kind, placed),
         NEW to, to = nodeThingId(c, m, k + 1),
         NEW free, free = k + Cardinality(c.nodes) + 1,
         NEW k2, k2 = free + Cardinality(c.edges),
         NEW kind2, kind2 = KindAfter(kind, k, c, to, k2)
  PROVE  Planned(m, c, k, kind, to, free, k2, kind2)
<1>1. IsFiniteSet(c.nodes) /\ IsFiniteSet(c.edges) /\ \A n \in c.nodes : NodeFits(n, kind, placed)
  BY DEF CanvasFits
<1>2. Cardinality(c.nodes) \in Nat /\ Cardinality(c.edges) \in Nat
  BY <1>1, FS_CardinalityType
<1>3. k \in Nat /\ free \in Nat /\ k2 \in Nat /\ k < free /\ free <= k2
  BY <1>2
<1>4. Ids(c) \subseteq Int
  BY <1>1 DEF Ids, NodeFits
<1>5. m.nodes \subseteq 1..k
  BY KindOf DEF Fits
<1>6. /\ DOMAIN to = Ids(c)
      /\ \A i \in Ids(c) : IF i \in m.nodes THEN to[i] = i ELSE to[i] \in (k + 2)..(k + 1 + Cardinality(c.nodes))
      /\ \A i, j \in Ids(c) : to[i] = to[j] => i = j
  BY <1>1, <1>4, <1>5, ThingIds
<1>7. kind2 \in [1..k2 -> Kinds]
  <2>1. \A x \in 1..k2 : kind2[x] \in Kinds
    <3>1. TAKE x \in 1..k2
    <3>2. x <= k => x \in 1..k
      BY <1>3
    <3>3. kind2[x] = IF x <= k THEN kind[x] ELSE IF x = k + 1 THEN "pipeline"
                     ELSE IF \E n \in c.nodes : to[n.id] = x
                          THEN IF \E n \in c.nodes : to[n.id] = x /\ n.start THEN "start" ELSE "call"
                          ELSE "wire"
      BY DEF KindAfter
    <3>4. QED
      BY <3>2, <3>3 DEF Kinds
  <2>2. DOMAIN kind2 = 1..k2 /\ kind2 = [x \in 1..k2 |-> kind2[x]]
    BY DEF KindAfter
  <2>3. QED
    BY <2>1, <2>2
<1>8. Extends(kind2, kind)
  <2>1. \A x \in 1..k : x \in 1..k2 /\ x <= k
    BY <1>3
  <2>2. QED
    BY <2>1 DEF Extends, KindAfter
<1>9. k + 1 \in 1..k2 /\ ~(k + 1 <= k)
  BY <1>3
<1>10. k + 1 \in Of(kind2, "pipeline")
  BY <1>9 DEF Of, KindAfter
<1>11. ASSUME NEW n \in c.nodes
       PROVE  /\ to[n.id] \in Of(kind2, IF n.start THEN "start" ELSE "call")
              /\ IF n.id \in m.nodes THEN to[n.id] = n.id ELSE to[n.id] > k + 1
  <2>1. n.id \in Ids(c) /\ NodeFits(n, kind, placed)
    BY <1>1 DEF Ids
  <2>2. CASE n.id \in m.nodes
    <3>1. to[n.id] = n.id /\ n.id \in 1..k
      BY <1>5, <1>6, <2>1, <2>2
    <3>2. n.id \in Of(kind, IF n.start THEN "start" ELSE "call")
      BY <2>1, <3>1 DEF NodeFits
    <3>3. to[n.id] \in Of(kind2, IF n.start THEN "start" ELSE "call")
      BY <1>8, <3>1, <3>2, OfExtends
    <3>4. QED
      BY <2>2, <3>1, <3>3
  <2>3. CASE n.id \notin m.nodes
    <3>1. to[n.id] \in (k + 2)..(k + 1 + Cardinality(c.nodes))
      BY <1>6, <2>1, <2>3
    <3>2. to[n.id] > k + 1 /\ to[n.id] \in 1..k2 /\ ~(to[n.id] <= k) /\ to[n.id] # k + 1
      BY <1>2, <1>3, <3>1
    <3> DEFINE x == to[n.id]
    <3>3. \A j \in c.nodes : to[j.id] = x => j = n
      <4>1. TAKE j \in c.nodes
      <4>2. j.id \in Ids(c)
        BY DEF Ids
      <4>3. to[j.id] = x => j.id = n.id
        BY <1>6, <2>1, <4>2
      <4>4. QED
        BY <4>3 DEF CanvasFits
    <3>4. kind2[x] = IF \E j \in c.nodes : to[j.id] = x
                     THEN IF \E j \in c.nodes : to[j.id] = x /\ j.start THEN "start" ELSE "call"
                     ELSE "wire"
      BY <3>2 DEF KindAfter
    <3> HIDE DEF x
    <3>5. kind2[x] = IF n.start THEN "start" ELSE "call"
      <4>1. \E j \in c.nodes : to[j.id] = x
        BY DEF x
      <4>2. (\E j \in c.nodes : to[j.id] = x /\ j.start) <=> n.start
        BY <3>3 DEF x
      <4>3. CASE n.start
        BY <3>4, <4>1, <4>2, <4>3
      <4>4. CASE ~n.start
        BY <3>4, <4>1, <4>2, <4>4
      <4>5. QED
        BY <4>3, <4>4
    <3>6. QED
      BY <1>7, <2>3, <3>2, <3>5 DEF Of, x
  <2>4. QED
    BY <2>2, <2>3
<1>12. \A x \in (free + 1)..k2 : x \in Of(kind2, "wire")
  <2>1. TAKE x \in (free + 1)..k2
  <2>2. x \in 1..k2 /\ ~(x <= k) /\ x # k + 1 /\ x > k + 1 + Cardinality(c.nodes)
    BY <1>2, <1>3
  <2>3. ASSUME NEW n \in c.nodes
        PROVE  to[n.id] # x
    <3>1. n.id \in Ids(c)
      BY DEF Ids
    <3>2. to[n.id] <= k + 1 + Cardinality(c.nodes) /\ to[n.id] \in Int
      <4>1. IF n.id \in m.nodes THEN to[n.id] = n.id ELSE to[n.id] \in (k + 2)..(k + 1 + Cardinality(c.nodes))
        BY <1>6, <3>1
      <4>2. CASE n.id \in m.nodes
        <5>1. to[n.id] \in 1..k
          BY <1>5, <4>1, <4>2
        <5>2. QED
          BY <1>2, <5>1
      <4>3. CASE n.id \notin m.nodes
        <5>1. to[n.id] \in (k + 2)..(k + 1 + Cardinality(c.nodes))
          BY <4>1, <4>3
        <5>2. QED
          BY <1>2, <5>1
      <4>4. QED
        BY <4>2, <4>3
    <3>3. QED
      BY <1>2, <2>2, <3>2
  <2>4. kind2[x] = "wire"
    BY <2>2, <2>3 DEF KindAfter
  <2>5. QED
    BY <1>7, <2>2, <2>4 DEF Of
<1>13. QED
  BY <1>3, <1>6, <1>7, <1>8, <1>10, <1>11, <1>12 DEF Planned

\* A node that becomes a Thing is as it was but for its id.
LEMMA NodeMoved ==
  ASSUME NEW kind, NEW placed, NEW n, NodeFits(n, kind, placed), NEW y, NEW x, x = [n EXCEPT !.id = y]
  PROVE  /\ x.id = y /\ x.ports = n.ports /\ x = [id |-> y, start |-> x.start, ports |-> n.ports]
         /\ x.start <=> n.start
         /\ x.start = n.start
         /\ x.start \in BOOLEAN
<1> DEFINE P == SUBSET (Of(kind, "port") \union {Service})
<1>1. n \in [id : Int, start : BOOLEAN, ports : P]
  BY DEF NodeFits
<1> HIDE DEF P
<1>2. x.id = y /\ x.ports = n.ports
  BY <1>1
<1>3. n.start \in BOOLEAN
  BY <1>1
<1>4. x.start = n.start
  BY <1>1
<1>5. x.start <=> n.start
  BY <1>4
<1>6. x.start \in BOOLEAN
  BY <1>3, <1>4
<1>7. DOMAIN x = {"id", "start", "ports"}
  BY <1>1
<1>8. x = [id |-> y, start |-> x.start, ports |-> n.ports]
  <2>1. x = [f \in {"id", "start", "ports"} |-> x[f]]
    BY <1>1, <1>7
  <2>2. QED
    BY <1>1, <1>2
<1>9. QED
  BY <1>2, <1>4, <1>5, <1>6, <1>8

\* A wire between Things is as it was but for its ends, and what it is taken on is told.
LEMMA EdgeMoved ==
  ASSUME NEW kind, NEW ids, NEW e, EdgeFits(e, kind, ids), NEW to, NEW x,
         x = [e EXCEPT !.source = to[@], !.target = to[@], !.taken = takenOnOf(@)]
  PROVE  /\ x = [source |-> to[e.source], outPort |-> e.outPort, target |-> to[e.target], inPort |-> Service,
                 taken |-> takenOnOf(e.taken)]
         /\ e = [source |-> e.source, outPort |-> e.outPort, target |-> e.target, inPort |-> Service,
                 taken |-> e.taken]
         /\ takenOnOf(e.taken) \subseteq {Success, Fail}
         /\ takenOnOf(e.taken) # {}
         /\ IsFiniteSet(e.taken) /\ IsFiniteSet(takenOnOf(e.taken))
<1> DEFINE P == Of(kind, "port") \union {Service}
<1>1. e \in [source : ids, outPort : P, target : ids, inPort : {Service}, taken : SUBSET {Success, Fail}]
  BY DEF EdgeFits
<1> HIDE DEF P
<1>2. x = [source |-> to[e.source], outPort |-> e.outPort, target |-> to[e.target], inPort |-> Service,
                 taken |-> takenOnOf(e.taken)]
  BY <1>1
<1>3. e = [source |-> e.source, outPort |-> e.outPort, target |-> e.target, inPort |-> Service,
                 taken |-> e.taken]
  BY <1>1
<1>4. takenOnOf(e.taken) \subseteq {Success, Fail} /\ takenOnOf(e.taken) # {}
  BY <1>1 DEF takenOnOf
<1>5. IsFiniteSet({Success, Fail})
  <2>1. IsFiniteSet({Success} \union {Fail})
    BY FS_Singleton, FS_Union
  <2>2. {Success, Fail} = {Success} \union {Fail}
    OBVIOUS
  <2>3. QED
    BY <2>1, <2>2
<1>6. e.taken \subseteq {Success, Fail}
  BY <1>1
<1>7. QED
  BY <1>2, <1>3, <1>4, <1>5, <1>6, FS_Subset

\* The node and the wire each becomes.
NodeAt(n, to) == [n EXCEPT !.id = to[n.id]]
EdgeAt(e, to) == [e EXCEPT !.source = to[@], !.target = to[@], !.taken = takenOnOf(@)]

\* What is drawn as Things: each node at its Thing, each wire between them.
LEMMA DrawnParts ==
  ASSUME NEW c, NEW to, DOMAIN to = Ids(c), NEW kind, NEW placed, CanvasFits(c, kind, placed)
  PROVE  /\ Drawn(c, to) = [nodes |-> Drawn(c, to).nodes, edges |-> Drawn(c, to).edges]
         /\ Drawn(c, to).nodes = {NodeAt(n, to) : n \in c.nodes}
         /\ Drawn(c, to).edges = {EdgeAt(e, to) : e \in c.edges}
<1>1. Drawn(c, to) = [nodes |-> {NodeAt(n, to) : n \in c.nodes},
                      edges |-> {EdgeAt(e, to) : e \in {d \in c.edges : {d.source, d.target} \subseteq Ids(c)}}]
  BY Zenon DEF Drawn, NodeAt, EdgeAt
<1>2. ASSUME NEW e \in c.edges
      PROVE  {e.source, e.target} \subseteq Ids(c)
  BY DEF CanvasFits, EdgeFits
<1>3. c.edges = {d \in c.edges : {d.source, d.target} \subseteq Ids(c)}
  BY <1>2
<1> DEFINE A == {NodeAt(n, to) : n \in c.nodes}
           B == {EdgeAt(e, to) : e \in c.edges}
<1>4. Drawn(c, to) = [nodes |-> A, edges |-> B]
  BY <1>1, <1>3, Zenon
<1> HIDE DEF A, B
<1>5. Drawn(c, to).nodes = A /\ Drawn(c, to).edges = B
  BY <1>4
<1>6. QED
  BY <1>4, <1>5 DEF A, B

\* What is drawn as Things keeps to the kinds, is of Things only, and each wire is marked.
LEMMA DrawnFits ==
  ASSUME NEW m, NEW c, NEW k, NEW kind, NEW to, NEW free, NEW k2, NEW kind2,
         Planned(m, c, k, kind, to, free, k2, kind2),
         NEW placed, CanvasFits(c, kind, placed),
         NEW d, d = Drawn(c, to)
  PROVE  /\ CanvasFits(d, kind2, 0)
         /\ Cardinality(d.edges) <= Cardinality(c.edges)
         /\ \A n \in d.nodes : n.id > 0
         /\ \A e \in d.edges : e.taken # {} /\ IsFiniteSet(e.taken)
         /\ Ids(d) = {to[i] : i \in Ids(c)}
<1>1. /\ d = [nodes |-> d.nodes, edges |-> d.edges]
      /\ d.nodes = {NodeAt(n, to) : n \in c.nodes}
      /\ d.edges = {EdgeAt(e, to) : e \in c.edges}
  BY DrawnParts DEF Planned
<1>2. /\ \A n \in c.nodes : NodeFits(n, kind, placed)
      /\ \A e \in c.edges : EdgeFits(e, kind, Ids(c))
      /\ IsFiniteSet(c.nodes) /\ IsFiniteSet(c.edges)
      /\ \A n, l \in c.nodes : n.id = l.id => n = l
  BY DEF CanvasFits
<1>3. Extends(kind2, kind) /\ DOMAIN kind2 = 1..k2 /\ k2 \in Nat /\ k \in Nat /\ DOMAIN kind = 1..k
  BY DEF Planned
<1>4. /\ \A i, j \in Ids(c) : to[i] = to[j] => i = j
      /\ \A n \in c.nodes : to[n.id] \in Of(kind2, IF n.start THEN "start" ELSE "call")
  BY DEF Planned
<1>5. \A l : Of(kind, l) \subseteq Of(kind2, l)
  BY <1>3, OfExtends
<1>6. \A n \in c.nodes : to[n.id] \in 1..k2 /\ to[n.id] > 0 /\ to[n.id] \in Int
  <2>1. TAKE n \in c.nodes
  <2>2. to[n.id] \in 1..k2
    BY <1>3, <1>4, KindOf
  <2>3. \A i \in 1..k2 : i > 0 /\ i \in Int
    BY <1>3
  <2>4. QED
    BY <2>2, <2>3
<1>7. ASSUME NEW n \in c.nodes
      PROVE  /\ NodeFits(NodeAt(n, to), kind2, 0)
             /\ NodeAt(n, to).id = to[n.id]
             /\ NodeAt(n, to).id > 0
  <2> DEFINE x == NodeAt(n, to)
  <2>0. NodeFits(n, kind, placed)
    BY <1>2
  <2>1. /\ x.id = to[n.id] /\ x.ports = n.ports /\ x = [id |-> to[n.id], start |-> x.start, ports |-> n.ports]
        /\ x.start <=> n.start
        /\ x.start \in BOOLEAN
    BY <2>0, NodeMoved DEF NodeAt
  <2> HIDE DEF x
  <2>2. to[n.id] \in Int /\ to[n.id] > 0 /\ ~(to[n.id] <= 0)
    BY <1>6
  <2> DEFINE P == SUBSET (Of(kind2, "port") \union {Service})
  <2>3. n.ports \in P
    <3>1. n.ports \in SUBSET (Of(kind, "port") \union {Service})
      BY <2>0 DEF NodeFits
    <3>2. QED
      BY <1>5, <3>1
  <2>4. x \in [id : Int, start : BOOLEAN, ports : P]
    <3> HIDE DEF P
    <3>1. \A a \in Int, b \in BOOLEAN, q \in P : [id |-> a, start |-> b, ports |-> q] \in [id : Int, start : BOOLEAN, ports : P]
      OBVIOUS
    <3>2. [id |-> to[n.id], start |-> x.start, ports |-> n.ports] \in [id : Int, start : BOOLEAN, ports : P]
      BY <2>1, <2>2, <2>3, <3>1, Zenon
    <3>3. QED
      BY <2>1, <3>2, Zenon
  <2>5. x.id \in Of(kind2, IF x.start THEN "start" ELSE "call")
    <3>1. CASE n.start
      BY <1>4, <2>1, <3>1
    <3>2. CASE ~n.start
      BY <1>4, <2>1, <3>2
    <3>3. QED
      BY <3>1, <3>2
  <2>6. IF x.start THEN x.ports \subseteq Of(kind2, "port") ELSE x.ports = {Service}
    <3>1. IF n.start THEN n.ports \subseteq Of(kind, "port") ELSE n.ports = {Service}
      BY <2>0 DEF NodeFits
    <3>2. CASE n.start
      BY <1>5, <2>1, <3>1, <3>2
    <3>3. CASE ~n.start
      BY <2>1, <3>1, <3>3
    <3>4. QED
      BY <3>2, <3>3
  <2>7. NodeFits(x, kind2, 0)
    BY <2>1, <2>2, <2>4, <2>5, <2>6 DEF NodeFits
  <2>8. QED
    BY <2>1, <2>2, <2>7 DEF x
<1>8. Ids(d) = {to[i] : i \in Ids(c)}
  <2>1. \A x \in d.nodes : \E i \in Ids(c) : x.id = to[i]
    BY <1>1, <1>7 DEF Ids
  <2>2. \A i \in Ids(c) : \E x \in d.nodes : x.id = to[i]
    BY <1>1, <1>7 DEF Ids
  <2>3. QED
    BY <2>1, <2>2 DEF Ids
<1>9. IsFiniteSet(d.nodes)
  <2> DEFINE f == [n \in c.nodes |-> NodeAt(n, to)]
  <2>1. d.nodes \subseteq {f[n] : n \in c.nodes} /\ DOMAIN f = c.nodes
    BY <1>1
  <2> HIDE DEF f
  <2>2. QED
    BY <1>2, <2>1, ImageFinite
<1>10. IsFiniteSet(d.edges) /\ Cardinality(d.edges) <= Cardinality(c.edges)
  <2> DEFINE f == [e \in c.edges |-> EdgeAt(e, to)]
  <2>1. d.edges \subseteq {f[n] : n \in c.edges} /\ DOMAIN f = c.edges
    BY <1>1
  <2> HIDE DEF f
  <2>2. QED
    BY <1>2, <2>1, ImageFinite
<1>11. ASSUME NEW n \in d.nodes, NEW l \in d.nodes, n.id = l.id
       PROVE  n = l
  <2>1. PICK a \in c.nodes : n = NodeAt(a, to)
    BY <1>1
  <2>2. PICK b \in c.nodes : l = NodeAt(b, to)
    BY <1>1
  <2>3. to[a.id] = to[b.id] /\ a.id \in Ids(c) /\ b.id \in Ids(c)
    BY <1>7, <1>11, <2>1, <2>2 DEF Ids
  <2>4. a = b
    BY <1>2, <1>4, <2>3
  <2>5. QED
    BY <2>1, <2>2, <2>4
<1>12. ASSUME NEW x \in d.edges
       PROVE  EdgeFits(x, kind2, Ids(d)) /\ x.taken # {} /\ IsFiniteSet(x.taken)
  <2>1. PICK e \in c.edges : x = EdgeAt(e, to)
    BY <1>1
  <2>2. EdgeFits(e, kind, Ids(c))
    BY <1>2
  <2>3. /\ x = [source |-> to[e.source], outPort |-> e.outPort, target |-> to[e.target], inPort |-> Service,
                 taken |-> takenOnOf(e.taken)]
        /\ takenOnOf(e.taken) \subseteq {Success, Fail}
        /\ takenOnOf(e.taken) # {}
        /\ IsFiniteSet(takenOnOf(e.taken))
    BY <2>1, <2>2, EdgeMoved DEF EdgeAt
  <2>4. to[e.source] \in Ids(d) /\ to[e.target] \in Ids(d)
    BY <1>8, <2>2 DEF EdgeFits
  <2>5. e.outPort \in Of(kind2, "port") \union {Service}
    BY <1>5, <2>2 DEF EdgeFits
  <2>6. QED
    BY <2>3, <2>4, <2>5 DEF EdgeFits
<1>13. \A n \in d.nodes : NodeFits(n, kind2, 0) /\ n.id > 0
  BY <1>1, <1>7
<1>14. CanvasFits(d, kind2, 0)
  BY <1>1, <1>9, <1>10, <1>11, <1>12, <1>13 DEF CanvasFits
<1>15. QED
  BY <1>8, <1>10, <1>12, <1>13, <1>14

\* What a request that adds Things does.
LEMMA AddsIs ==
  ASSUME NEW n
  PROVE  Adds(n).added = n /\ Adds(n).removed = {} /\ Adds(n).retracted = {}
BY DEF Adds

\* What a request that relates two Things does.
LEMMA RelatesIs ==
  ASSUME NEW r
  PROVE  /\ Relates(r).removed = {} /\ Relates(r).retracted = {}
         /\ Relates(r).added.pipelines = {} /\ Relates(r).added.nodes = {} /\ Relates(r).added.starts = {}
         /\ Relates(r).added.wires = {} /\ Relates(r).added.ports = {} /\ Relates(r).added.rels = {r}
BY DEF Relates, Adds, Nothing

\* What a request that ends a relationship does.
LEMMA RetractsIs ==
  ASSUME NEW r
  PROVE  /\ Retracts(r).removed = {} /\ Retracts(r).retracted = {r}
         /\ Retracts(r).added.pipelines = {} /\ Retracts(r).added.nodes = {} /\ Retracts(r).added.starts = {}
         /\ Retracts(r).added.wires = {} /\ Retracts(r).added.ports = {} /\ Retracts(r).added.rels = {}
BY DEF Retracts, Nothing

\* What a request that removes a Thing does.
LEMMA RemovesIs ==
  ASSUME NEW x
  PROVE  /\ Removes(x).removed = {x} /\ Removes(x).retracted = {}
         /\ Removes(x).added.pipelines = {} /\ Removes(x).added.nodes = {} /\ Removes(x).added.starts = {}
         /\ Removes(x).added.wires = {} /\ Removes(x).added.ports = {} /\ Removes(x).added.rels = {}
BY DEF Removes, Nothing

\* What the request that adds the Thing of a wire does.
LEMMA WireAddIs ==
  ASSUME NEW x, NEW w, w = Adds([Nothing EXCEPT !.wires = {x}])
  PROVE  /\ w.removed = {} /\ w.retracted = {}
         /\ w.added.pipelines = {} /\ w.added.nodes = {} /\ w.added.starts = {}
         /\ w.added.wires = {x} /\ w.added.ports = {} /\ w.added.rels = {}
BY DEF Adds, Nothing

Started(d) == {n \in d.nodes : n.start}

\* What the first request of a save adds: the pipeline, its nodes and the ports of those that start.
LEMMA FragmentIs ==
  ASSUME NEW d, NEW p, NEW w, w = Fragment(d, p)
  PROVE  /\ w.removed = {} /\ w.retracted = {}
         /\ w.added.pipelines = {p} /\ w.added.nodes = Ids(d)
         /\ w.added.starts = {n.id : n \in Started(d)}
         /\ w.added.wires = {}
         /\ w.added.ports = UNION {n.ports : n \in Started(d)}
         /\ w.added.rels = {<<p, "has", n.id>> : n \in d.nodes}
                             \union (UNION {{<<n.id, "has", q>> : q \in n.ports} : n \in Started(d)})
<1> DEFINE A == {n.id : n \in d.nodes}
           B == {n.id : n \in Started(d)}
           C == UNION {n.ports : n \in Started(d)}
           R == {<<p, "has", n.id>> : n \in d.nodes}
                  \union (UNION {{<<n.id, "has", q>> : q \in n.ports} : n \in Started(d)})
<1>1. w = Adds([Nothing EXCEPT !.pipelines = {p}, !.nodes = A, !.starts = B, !.ports = C, !.rels = R])
  BY Zenon DEF Fragment, Started
<1> HIDE DEF A, B, C, R
<1> DEFINE x == [Nothing EXCEPT !.pipelines = {p}, !.nodes = A, !.starts = B, !.ports = C, !.rels = R]
<1>1a. /\ x.pipelines = {p} /\ x.nodes = A /\ x.starts = B /\ x.wires = {}
       /\ x.ports = C /\ x.rels = R
  BY DEF Nothing
<1>1b. w = Adds(x)
  BY <1>1
<1> HIDE DEF x
<1>2. /\ w.removed = {} /\ w.retracted = {}
      /\ w.added.pipelines = {p} /\ w.added.nodes = A /\ w.added.starts = B /\ w.added.wires = {}
      /\ w.added.ports = C /\ w.added.rels = R
  BY <1>1a, <1>1b, AddsIs
<1>3. QED
  BY <1>2 DEF A, B, C, R, Ids

\* What a request of a save is.
LEMMA RequestedIs ==
  ASSUME NEW d, NEW m, NEW p, NEW nodes, NEW wire, NEW w \in Requested(d, m, p, nodes, wire)
  PROVE  \/ w = Fragment(d, p)
         \/ \E e \in d.edges : /\ Known(m, PersistedWires(m, nodes), e) = {}
                               /\ w \in Pieces(wire[e], e)
         \/ \E e \in d.edges : \E k \in Known(m, PersistedWires(m, nodes), e) : w \in Changes(m, k[2], e)
         \/ \E x \in Undesired(d, m, PersistedWires(m, nodes)) \union Goes(d, m, nodes) : w = Removes(x)
<1> DEFINE P == PersistedWires(m, nodes)
           G == Undesired(d, m, P) \union Goes(d, m, nodes)
<1>1. \/ w = Fragment(d, p)
      \/ \E e \in d.edges : w \in Requests(m, P, e, wire[e])
      \/ \E x \in G : w = Removes(x)
  BY DEF Requested
<1>2. ASSUME NEW e \in d.edges, w \in Requests(m, P, e, wire[e])
      PROVE  \/ Known(m, P, e) = {} /\ w \in Pieces(wire[e], e)
             \/ \E k \in Known(m, P, e) : w \in Changes(m, k[2], e)
  <2>1. CASE Known(m, P, e) = {}
    BY <1>2, <2>1 DEF Requests
  <2>2. CASE Known(m, P, e) # {}
    <3>1. The(Known(m, P, e)) \in Known(m, P, e)
      BY <2>2 DEF The
    <3>2. w \in Changes(m, The(Known(m, P, e))[2], e)
      BY <1>2, <2>2 DEF Requests
    <3>3. QED
      BY <3>1, <3>2
  <2>3. QED
    BY <2>1, <2>2
<1> HIDE DEF P, G
<1>3. QED
  BY <1>1, <1>2 DEF P, G

\* A piece of a new wire is its Thing or one of its relationships.
LEMMA PiecesAre ==
  ASSUME NEW x, NEW e, NEW w \in Pieces(x, e)
  PROVE  \/ w = Adds([Nothing EXCEPT !.wires = {x}])
         \/ \E r \in {<<e.source, "has", x>>, <<x, "wire", e.target>>, <<x, "in", e.outPort>>, <<x, "out", e.inPort>>}
                       \union {<<x, "taken", t>> : t \in e.taken} : w = Relates(r)
<1> DEFINE a == Adds([Nothing EXCEPT !.wires = {x}])
<1>1. \/ w = a
      \/ w = Relates(<<e.source, "has", x>>) \/ w = Relates(<<x, "wire", e.target>>)
      \/ w = Relates(<<x, "in", e.outPort>>) \/ w = Relates(<<x, "out", e.inPort>>)
      \/ \E t \in e.taken : w = Relates(<<x, "taken", t>>)
  BY DEF Pieces
<1> HIDE DEF a
<1>2. QED
  BY <1>1, Zenon DEF a

\* A wire the page knows is one of a node the model holds.
LEMMA KnownIn ==
  ASSUME NEW m, NEW nodes, NEW e, NEW k \in PersistedWires(m, nodes)
  PROVE  /\ k = <<k[1], k[2]>> /\ k[1] \in nodes /\ k[2] \in outgoingWires(m, k[1])
         /\ k[2] \in m.wires
BY DEF PersistedWires, outgoingWires

\* A request that relates what the kinds let be related keeps to the kinds.
LEMMA RelatesFits ==
  ASSUME NEW kind, NEW r \in RelsIn(kind), r[2] # "has" \/ r[3] \notin Of(kind, "port")
  PROVE  RequestFits(Relates(r), kind)
<1> DEFINE w == Relates(r)
<1>1. /\ w.removed = {} /\ w.retracted = {}
      /\ w.added.pipelines = {} /\ w.added.nodes = {} /\ w.added.starts = {}
      /\ w.added.wires = {} /\ w.added.ports = {} /\ w.added.rels = {r}
  BY RelatesIs
<1> HIDE DEF w
<1>2. Fits(w.added, kind)
  BY <1>1 DEF Fits
<1>3. RequestFits(w, kind)
  BY <1>1, <1>2 DEF RequestFits
<1>4. QED
  BY <1>3 DEF w

\* Every request of a save keeps to the kinds.
LEMMA RequestedFits ==
  ASSUME NEW k2 \in Nat, NEW kind, DOMAIN kind = 1..k2, NEW m, Fits(m, kind),
         NEW d, CanvasFits(d, kind, 0), \A n \in d.nodes : n.id > 0,
         NEW p \in Of(kind, "pipeline"), NEW nodes, nodes \subseteq m.nodes,
         NEW wire, \A e \in d.edges : wire[e] \in Of(kind, "wire"),
         NEW w \in Requested(d, m, p, nodes, wire)
  PROVE  RequestFits(w, kind)
<1>1. /\ \A n \in d.nodes : NodeFits(n, kind, 0) /\ n.id \in Of(kind, IF n.start THEN "start" ELSE "call")
      /\ \A e \in d.edges : EdgeFits(e, kind, Ids(d))
  BY DEF CanvasFits, NodeFits
<1>2. \A n \in d.nodes : n.id \in NodesIn(kind)
  <2>1. TAKE n \in d.nodes
  <2>2. n.id \in Of(kind, "start") \/ n.id \in Of(kind, "call")
    BY <1>1
  <2>3. QED
    BY <2>2 DEF NodesIn
<1>2a. Ids(d) \subseteq NodesIn(kind)
  BY <1>2 DEF Ids
<1>3. CASE w = Fragment(d, p)
  <2>1. /\ w.removed = {} /\ w.retracted = {}
        /\ w.added.pipelines = {p} /\ w.added.nodes = Ids(d)
        /\ w.added.starts = {n.id : n \in Started(d)}
        /\ w.added.wires = {}
        /\ w.added.ports = UNION {n.ports : n \in Started(d)}
        /\ w.added.rels = {<<p, "has", n.id>> : n \in d.nodes}
                             \union (UNION {{<<n.id, "has", q>> : q \in n.ports} : n \in Started(d)})
    BY <1>3, FragmentIs
  <2>2. \A n \in Started(d) : n \in d.nodes /\ n.id \in Of(kind, "start") /\ n.ports \subseteq Of(kind, "port")
    BY <1>1 DEF Started, NodeFits
  <2>3. w.added.starts = w.added.nodes \intersect Of(kind, "start")
    <3>1. w.added.starts \subseteq w.added.nodes \intersect Of(kind, "start")
      BY <2>1, <2>2 DEF Ids
    <3>2. ASSUME NEW n \in d.nodes, n.id \in Of(kind, "start")
          PROVE  n \in Started(d)
      <4>1. n.start \/ n.id \in Of(kind, "call")
        BY <1>1
      <4>2. QED
        BY <3>2, <4>1, KindOf DEF Started
    <3>3. QED
      BY <2>1, <3>1, <3>2 DEF Ids
  <2>4. w.added.ports \subseteq Of(kind, "port")
    BY <2>1, <2>2
  <2>5. ASSUME NEW r \in w.added.rels
        PROVE  r \in RelsIn(kind) /\ (r[2] = "has" /\ r[3] \in Of(kind, "port") => r[3] \in w.added.ports)
    <3>1. CASE \E n \in d.nodes : r = <<p, "has", n.id>>
      <4>1. PICK n \in d.nodes : r = <<p, "has", n.id>>
        BY <3>1
      <4>2. r[3] = n.id /\ n.id \in NodesIn(kind)
        BY <1>2, <4>1
      <4>3. <<p, "has", n.id>> \in RelsIn(kind)
        BY <4>2, RelOfParts
      <4>4. r[3] \notin Of(kind, "port")
        BY <4>2, KindOf
      <4>5. QED
        BY <4>1, <4>3, <4>4
    <3>2. CASE \E n \in Started(d) : \E q \in n.ports : r = <<n.id, "has", q>>
      <4>1. PICK n \in Started(d) : \E q \in n.ports : r = <<n.id, "has", q>>
        BY <3>2
      <4>1a. PICK q \in n.ports : r = <<n.id, "has", q>>
        BY <4>1
      <4>2. <<n.id, "has", q>> \in RelsIn(kind)
        BY <2>2, RelOfParts
      <4>3. r[3] \in w.added.ports
        BY <2>1, <4>1a
      <4>4. QED
        BY <4>1a, <4>2, <4>3
    <3>3. QED
      BY <2>1, <3>1, <3>2
  <2>6. Fits(w.added, kind)
    BY <1>2a, <2>1, <2>3, <2>4, <2>5 DEF Fits
  <2>7. QED
    BY <2>1, <2>6 DEF RequestFits
<1>4. ASSUME NEW e \in d.edges, w \in Pieces(wire[e], e)
      PROVE  RequestFits(w, kind)
  <2> DEFINE x == wire[e]
  <2>0. x \in Of(kind, "wire") /\ w \in Pieces(x, e)
    BY <1>4
  <2> HIDE DEF x
  <2>1. /\ e.source \in NodesIn(kind) /\ e.target \in NodesIn(kind)
        /\ e.outPort \in Of(kind, "port") \union {Service} /\ e.inPort = Service /\ e.taken \subseteq {Success, Fail}
    BY <1>1, <1>2a DEF EdgeFits
  <2>2. CASE w = Adds([Nothing EXCEPT !.wires = {x}])
    <3>1. /\ w.removed = {} /\ w.retracted = {}
          /\ w.added.pipelines = {} /\ w.added.nodes = {} /\ w.added.starts = {}
          /\ w.added.wires = {x} /\ w.added.ports = {} /\ w.added.rels = {}
      BY <2>2, WireAddIs
    <3>2. Fits(w.added, kind)
      BY <2>0, <3>1 DEF Fits
    <3>3. QED
      BY <3>1, <3>2 DEF RequestFits
  <2>3. ASSUME NEW r \in {<<e.source, "has", x>>, <<x, "wire", e.target>>, <<x, "in", e.outPort>>, <<x, "out", e.inPort>>}
                       \union {<<x, "taken", t>> : t \in e.taken}
        PROVE  r \in RelsIn(kind) /\ (r[2] # "has" \/ r[3] \notin Of(kind, "port"))
    <3>1. CASE r = <<e.source, "has", x>>
      <4>1. <<e.source, "has", x>> \in RelsIn(kind)
        BY <2>0, <2>1, RelOfParts
      <4>2. r[3] = x
        BY <3>1
      <4>3. x \notin Of(kind, "port")
        BY <2>0, KindOf
      <4>4. QED
        BY <3>1, <4>1, <4>2, <4>3
    <3>2. CASE r = <<x, "wire", e.target>>
      BY <2>0, <2>1, <3>2, RelOfParts
    <3>3. CASE r = <<x, "in", e.outPort>>
      BY <2>0, <2>1, <3>3, RelOfParts
    <3>4. CASE r = <<x, "out", e.inPort>>
      BY <2>0, <2>1, <3>4, RelOfParts
    <3>5. CASE \E t \in e.taken : r = <<x, "taken", t>>
      <4>1. PICK t \in e.taken : r = <<x, "taken", t>>
        BY <3>5
      <4>2. t \in {Success, Fail}
        BY <2>1
      <4>3. <<x, "taken", t>> \in RelsIn(kind)
        BY <2>0, <4>2, RelOfParts
      <4>4. QED
        BY <4>1, <4>3
    <3>6. QED
      BY <3>1, <3>2, <3>3, <3>4, <3>5
  <2>4. QED
    BY <2>0, <2>2, <2>3, PiecesAre, RelatesFits
<1>5. ASSUME NEW e \in d.edges, NEW k \in Known(m, PersistedWires(m, nodes), e), w \in Changes(m, k[2], e)
      PROVE  RequestFits(w, kind)
  <2>1. k[2] \in Of(kind, "wire")
    <3>1. k \in PersistedWires(m, nodes)
      BY DEF Known
    <3>2. k[2] \in m.wires
      BY <3>1, KnownIn
    <3>3. QED
      BY <3>2 DEF Fits
  <2>2. e.taken \subseteq {Success, Fail}
    BY <1>1 DEF EdgeFits
  <2> DEFINE x == k[2]
  <2>3. x \in Of(kind, "wire") /\ w \in Changes(m, x, e)
    BY <1>5, <2>1
  <2> HIDE DEF x
  <2>4. Reached(m, x, "taken") \subseteq {Success, Fail}
    BY ReachedFits
  <2>5. ASSUME NEW t \in {Success, Fail}
        PROVE  RequestFits(Relates(<<x, "taken", t>>), kind) /\ RequestFits(Retracts(<<x, "taken", t>>), kind)
    <3> DEFINE r == <<x, "taken", t>>
    <3>1. r \in RelsIn(kind) /\ r \in Takens(kind) /\ r[2] # "has"
      BY <2>3, RelOfParts DEF Takens
    <3> HIDE DEF r
    <3>2. RequestFits(Relates(r), kind)
      BY <3>1, RelatesFits
    <3> DEFINE y == Retracts(r)
    <3>3. /\ y.removed = {} /\ y.retracted = {r}
          /\ y.added.pipelines = {} /\ y.added.nodes = {} /\ y.added.starts = {}
          /\ y.added.wires = {} /\ y.added.ports = {} /\ y.added.rels = {}
      BY RetractsIs
    <3> HIDE DEF y
    <3>4. Fits(y.added, kind)
      BY <3>3 DEF Fits
    <3>5. RequestFits(y, kind)
      BY <3>1, <3>3, <3>4 DEF RequestFits
    <3>6. QED
      BY <3>2, <3>5 DEF y, r
  <2>6. CASE \E t \in e.taken \ Reached(m, x, "taken") : w = Relates(<<x, "taken", t>>)
    <3>1. PICK t \in e.taken : w = Relates(<<x, "taken", t>>)
      BY <2>6
    <3>2. t \in {Success, Fail}
      BY <2>2
    <3>3. QED
      BY <2>5, <3>1, <3>2, Zenon
  <2>7. CASE \E t \in Reached(m, x, "taken") \ e.taken : w = Retracts(<<x, "taken", t>>)
    <3>1. PICK t \in Reached(m, x, "taken") : w = Retracts(<<x, "taken", t>>)
      BY <2>7
    <3>2. t \in {Success, Fail}
      BY <2>4
    <3>3. QED
      BY <2>5, <3>1, <3>2, Zenon
  <2>8. \/ \E t \in e.taken \ Reached(m, x, "taken") : w = Relates(<<x, "taken", t>>)
        \/ \E t \in Reached(m, x, "taken") \ e.taken : w = Retracts(<<x, "taken", t>>)
    <3>1. w \in Changes(m, x, e)
      BY <2>3
    <3>2. QED
      BY <3>1 DEF Changes
  <2>9. QED
    BY <2>6, <2>7, <2>8
<1>6. ASSUME NEW x \in Undesired(d, m, PersistedWires(m, nodes)) \union Goes(d, m, nodes), w = Removes(x)
      PROVE  RequestFits(w, kind)
  <2>1. x \in NodesIn(kind) \union Of(kind, "wire") \union Of(kind, "port")
    <3>1. ASSUME NEW y \in Undesired(d, m, PersistedWires(m, nodes))
          PROVE  y \in m.wires
      <4>1. PICK k \in PersistedWires(m, nodes) : y = k[2]
        BY DEF Undesired
      <4>2. QED
        BY <4>1, KnownIn
    <3>2. Goes(d, m, nodes) \subseteq m.nodes \union m.ports
      BY DEF Goes, GoneNodes, OwnPorts
    <3>3. QED
      BY <3>1, <3>2 DEF Fits
  <2>2. /\ w.removed = {x} /\ w.retracted = {}
        /\ w.added.pipelines = {} /\ w.added.nodes = {} /\ w.added.starts = {}
        /\ w.added.wires = {} /\ w.added.ports = {} /\ w.added.rels = {}
    BY <1>6, RemovesIs
  <2>3. Fits(w.added, kind)
    BY <2>2 DEF Fits
  <2>4. QED
    BY <2>1, <2>2, <2>3 DEF RequestFits
<1>7. QED
  BY <1>3, <1>4, <1>5, <1>6, RequestedIs

-----------------------------------------------------------------------------
\* Each Thing keeps to its kind.

Drawings == {canvas, baseline, save.attempt} \union Range(past)

\* Each Thing keeps to its kind, in the model, in what the page heard, and in what a save has yet to write.
Kinded(kind) ==
  /\ minted \in Nat /\ kind \in [1..minted -> Kinds]
  /\ Fits(model, kind) /\ Fits(heard, kind)
  /\ IsSeq(todo)
  /\ \A w \in Range(todo) : RequestFits(w, kind)
  /\ nodeSequence \in Nat /\ nodeSequence <= MaxPlaced
  /\ CanvasFits(canvas, kind, nodeSequence) /\ CanvasFits(baseline, kind, nodeSequence)
  /\ CanvasFits(save.attempt, kind, nodeSequence)
  /\ \A c \in Range(past) : CanvasFits(c, kind, nodeSequence)
  /\ IsSeq(past) /\ Len(past) <= MAX_HISTORY
  /\ {savedId, editingPipelineId, save.pipeline, save.captured} \subseteq Of(kind, "pipeline") \union {NoPipeline}
  /\ {canUndo, dirty, busy, touched, crossed, mingled, confirmed} \subseteq BOOLEAN
  /\ ~busy => save = NoSave /\ todo = <<>>
  /\ busy => save.pipeline # NoPipeline
  /\ busy /\ save.captured # NoPipeline => save.pipeline = save.captured

HeldKind == [x \in 1..Cardinality(ThingsOf(Held)) |->
               IF x \in Held.pipelines THEN "pipeline"
               ELSE IF x \in Held.starts THEN "start" ELSE IF x \in Held.nodes THEN "call"
               ELSE IF x \in Held.wires THEN "wire" ELSE "port"]

\* The empty drawing keeps to any kinds.
LEMMA EmptyFits ==
  ASSUME NEW kind, NEW placed
  PROVE  CanvasFits(Empty, kind, placed)
<1>1. Empty.nodes = {} /\ Empty.edges = {} /\ Empty = [nodes |-> {}, edges |-> {}]
  BY DEF Empty
<1>2. Empty = [nodes |-> Empty.nodes, edges |-> Empty.edges]
  BY <1>1, Zenon
<1>3. QED
  BY <1>1, <1>2, FS_EmptySet DEF CanvasFits

\* What earlier saves left keeps to the kinds its archetypes say.
LEMMA HeldFits ==
  /\ Cardinality(ThingsOf(Held)) \in Nat
  /\ HeldKind \in [1..Cardinality(ThingsOf(Held)) -> Kinds]
  /\ Fits(Held, HeldKind)
<1> DEFINE n == Cardinality(ThingsOf(Held))
<1>1. n \in Nat /\ ThingsOf(Held) = 1..n
  BY HeldAssumption, FS_CardinalityType
<1>2. Held.pipelines \subseteq 1..n /\ Held.nodes \subseteq 1..n /\ Held.wires \subseteq 1..n /\ Held.ports \subseteq 1..n
  BY <1>1 DEF ThingsOf
<1>3. /\ Held.pipelines \intersect (Held.nodes \union Held.wires \union Held.ports) = {}
      /\ Held.nodes \intersect (Held.wires \union Held.ports) = {}
      /\ Held.wires \intersect Held.ports = {}
      /\ Held.starts \subseteq Held.nodes
      /\ Held.rels \subseteq Relationships(Held.pipelines, Held.nodes, Held.starts, Held.wires, Held.ports)
  BY HeldAssumption
<1>4. \A x \in 1..n : x \in Held.pipelines \/ x \in Held.nodes \/ x \in Held.wires \/ x \in Held.ports
  BY <1>1 DEF ThingsOf
<1>5. HeldKind = [x \in 1..n |->
               IF x \in Held.pipelines THEN "pipeline"
               ELSE IF x \in Held.starts THEN "start" ELSE IF x \in Held.nodes THEN "call"
               ELSE IF x \in Held.wires THEN "wire" ELSE "port"]
  BY DEF HeldKind
<1> HIDE DEF n
<1>6. HeldKind \in [1..n -> Kinds]
  BY <1>5 DEF Kinds
<1>7. /\ Of(HeldKind, "pipeline") = Held.pipelines
      /\ Of(HeldKind, "start") = Held.starts
      /\ Of(HeldKind, "call") = Held.nodes \ Held.starts
      /\ Of(HeldKind, "wire") = Held.wires
      /\ Of(HeldKind, "port") = Held.ports
  <2>1. \A x \in 1..n : HeldKind[x] = IF x \in Held.pipelines THEN "pipeline"
               ELSE IF x \in Held.starts THEN "start" ELSE IF x \in Held.nodes THEN "call"
               ELSE IF x \in Held.wires THEN "wire" ELSE "port"
    BY <1>5
  <2>2. DOMAIN HeldKind = 1..n
    BY <1>5
  <2>3. \A x : x \in Of(HeldKind, "pipeline") <=> x \in Held.pipelines
    BY <1>2, <1>3, <2>1, <2>2 DEF Of
  <2>4. \A x : x \in Of(HeldKind, "start") <=> x \in Held.starts
    BY <1>2, <1>3, <2>1, <2>2 DEF Of
  <2>5. \A x : x \in Of(HeldKind, "call") <=> x \in Held.nodes \ Held.starts
    BY <1>2, <1>3, <2>1, <2>2 DEF Of
  <2>6. \A x : x \in Of(HeldKind, "wire") <=> x \in Held.wires
    BY <1>2, <1>3, <2>1, <2>2 DEF Of
  <2>7. \A x : x \in Of(HeldKind, "port") <=> x \in Held.ports
    BY <1>2, <1>3, <1>4, <2>1, <2>2 DEF Of
  <2>8. QED
    BY <2>3, <2>4, <2>5, <2>6, <2>7
<1>8. NodesIn(HeldKind) = Held.nodes
  BY <1>3, <1>7 DEF NodesIn
<1>9. RelsIn(HeldKind) = Relationships(Held.pipelines, Held.nodes, Held.starts, Held.wires, Held.ports)
  BY <1>7, <1>8 DEF RelsIn
<1>10. Fits(Held, HeldKind)
  BY <1>3, <1>7, <1>8, <1>9 DEF Fits
<1>11. QED
  BY <1>1, <1>6, <1>10 DEF n

\* At first each Thing is of the kind its archetype says.
LEMMA InitKinded == Init => Kinded(HeldKind)
<1> SUFFICES ASSUME Init
             PROVE  Kinded(HeldKind)
  OBVIOUS
<1>1. \A S : <<>> \in Seq(S)
  OBVIOUS
<1>2. IsSeq(<<>>) /\ Range(<<>>) = {} /\ Len(<<>>) = 0
  BY <1>1 DEF IsSeq, Range
<1>3. IsSeq(todo) /\ Range(todo) = {} /\ IsSeq(past) /\ Range(past) = {} /\ Len(past) <= MAX_HISTORY
  BY <1>2, EditorAssumption DEF Init
<1>4. minted \in Nat /\ HeldKind \in [1..minted -> Kinds] /\ Fits(model, HeldKind) /\ Fits(heard, HeldKind)
  BY HeldFits DEF Init
<1>5. nodeSequence \in Nat /\ nodeSequence <= MaxPlaced
  BY EditorAssumption DEF Init
<1>6. canvas = Empty /\ baseline = Empty /\ save.attempt = Empty
  BY DEF Init, NoSave
<1>7. /\ CanvasFits(canvas, HeldKind, nodeSequence) /\ CanvasFits(baseline, HeldKind, nodeSequence)
      /\ CanvasFits(save.attempt, HeldKind, nodeSequence)
  BY <1>6, EmptyFits
<1>8. {savedId, editingPipelineId, save.pipeline, save.captured} \subseteq Of(HeldKind, "pipeline") \union {NoPipeline}
  BY DEF Init, NoSave
<1>9. {canUndo, dirty, busy, touched, crossed, mingled, confirmed} \subseteq BOOLEAN
  BY DEF Init
<1>10. ~busy /\ save = NoSave /\ todo = <<>>
  BY DEF Init
<1>11. QED
  BY <1>3, <1>4, <1>5, <1>7, <1>8, <1>9, <1>10 DEF Kinded

\* An element more at the end of a sequence.
LEMMA AppendIs ==
  ASSUME NEW s, IsSeq(s), NEW x
  PROVE  /\ IsSeq(Append(s, x)) /\ Len(Append(s, x)) = Len(s) + 1
         /\ Range(Append(s, x)) \subseteq Range(s) \union {x}
<1> DEFINE S == Range(s) \union {x}
<1>1. s \in Seq(S)
  BY DEF IsSeq
<1>2. x \in S
  OBVIOUS
<1> HIDE DEF S
<1>3. Append(s, x) \in Seq(S) /\ Len(Append(s, x)) = Len(s) + 1
  BY <1>1, <1>2
<1>4. QED
  BY <1>3, SeqIsOfRange DEF S

\* A sequence without its first element.
LEMMA TailLen ==
  ASSUME NEW s, IsSeq(s), s # <<>>
  PROVE  Len(s) \in Nat /\ Len(s) > 0 /\ Len(Tail(s)) = Len(s) - 1
BY DEF IsSeq

\* A sequence without its last element, and that element.
LEMMA FrontLast ==
  ASSUME NEW s, IsSeq(s), s # <<>>
  PROVE  /\ Last(s) \in Range(s)
         /\ IsSeq(Front(s)) /\ Range(Front(s)) \subseteq Range(s) /\ Len(Front(s)) <= Len(s)
<1> DEFINE n == Len(s)
<1>1. n \in Nat /\ n > 0 /\ DOMAIN s = 1..n
  BY DEF IsSeq
<1>2. Last(s) \in Range(s)
  BY <1>1 DEF Last, Range
<1>3. Front(s) \in Seq(Range(s)) /\ Len(Front(s)) <= n
  BY <1>1 DEF Front, IsSeq
<1>4. QED
  BY <1>2, <1>3, SeqIsOfRange

\* Recording the canvas keeps no more of the past than undo may return to.
LEMMA RecordedIs ==
  ASSUME NEW s, IsSeq(s), Len(s) <= MAX_HISTORY
  PROVE  /\ IsSeq(Recorded(s)) /\ Len(Recorded(s)) <= MAX_HISTORY
         /\ Range(Recorded(s)) \subseteq Range(s) \union {canvas}
<1>0. MAX_HISTORY \in Nat /\ MAX_HISTORY > 0 /\ Len(s) \in Nat
  BY EditorAssumption DEF IsSeq
<1>1. CASE Len(s) < MAX_HISTORY
  <2>1. Recorded(s) = Append(s, canvas)
    BY <1>1 DEF Recorded
  <2>2. /\ IsSeq(Append(s, canvas)) /\ Len(Append(s, canvas)) = Len(s) + 1
        /\ Range(Append(s, canvas)) \subseteq Range(s) \union {canvas}
    BY AppendIs
  <2>3. QED
    BY <1>0, <1>1, <2>1, <2>2
<1>2. CASE ~(Len(s) < MAX_HISTORY)
  <2>1. Recorded(s) = Append(Tail(s), canvas)
    BY <1>2 DEF Recorded
  <2>2. s # <<>>
    BY <1>0, <1>2
  <2>3. IsSeq(Tail(s)) /\ Range(Tail(s)) \subseteq Range(s) /\ Len(Tail(s)) = Len(s) - 1
    BY <2>2, HeadTail, TailLen
  <2>4. /\ IsSeq(Append(Tail(s), canvas)) /\ Len(Append(Tail(s), canvas)) = Len(Tail(s)) + 1
        /\ Range(Append(Tail(s), canvas)) \subseteq Range(Tail(s)) \union {canvas}
    BY <2>3, AppendIs
  <2>5. QED
    BY <1>0, <1>2, <2>1, <2>3, <2>4
<1>3. QED
  BY <1>1, <1>2

\* What an edit changes, and what it leaves alone.
LEMMA OnceIs ==
  ASSUME NEW c, NEW records, Edited(c, records) \/ EditedUnmarked(c, records),
         IsSeq(past), Len(past) <= MAX_HISTORY
  PROVE  /\ canvas' = c /\ savedId' \in {savedId, NoPipeline}
         /\ canUndo' = TRUE /\ dirty' = TRUE /\ touched' = TRUE
         /\ IsSeq(past') /\ Len(past') <= MAX_HISTORY
         /\ Range(past') \subseteq Range(past) \union {canvas}
         /\ baseline' = baseline /\ editingPipelineId' = editingPipelineId
         /\ busy' = busy /\ save' = save /\ todo' = todo /\ model' = model /\ heard' = heard
         /\ crossed' = crossed /\ mingled' = mingled /\ left' = left /\ confirmed' = confirmed
         /\ written' = written
<1>1. EditedOnce(c, records) /\ savedId' \in {savedId, NoPipeline}
  BY DEF Edited, EditedUnmarked
<1>2. past' = Recorded(past) \/ past' = Recorded(Recorded(past))
  BY <1>1, Zenon DEF EditedOnce
<1>3. /\ IsSeq(Recorded(past)) /\ Len(Recorded(past)) <= MAX_HISTORY
      /\ Range(Recorded(past)) \subseteq Range(past) \union {canvas}
  BY RecordedIs
<1>4. /\ IsSeq(Recorded(Recorded(past))) /\ Len(Recorded(Recorded(past))) <= MAX_HISTORY
      /\ Range(Recorded(Recorded(past))) \subseteq Range(Recorded(past)) \union {canvas}
  BY <1>3, RecordedIs
<1>5. /\ IsSeq(past') /\ Len(past') <= MAX_HISTORY
      /\ Range(past') \subseteq Range(past) \union {canvas}
  BY <1>2, <1>3, <1>4
<1>6. QED
  BY <1>1, <1>5 DEF EditedOnce, saving

\* An edit whose drawing keeps to the kinds leaves everything kept to them.
LEMMA EditedKinded ==
  ASSUME NEW kind, Kinded(kind), NEW c, NEW records, Edited(c, records) \/ EditedUnmarked(c, records),
         NEW kind2, minted' \in Nat, kind2 \in [1..minted' -> Kinds], Extends(kind2, kind),
         nodeSequence' \in Nat, nodeSequence <= nodeSequence', nodeSequence' <= MaxPlaced,
         CanvasFits(c, kind2, nodeSequence')
  PROVE  Kinded(kind2)'
<1>1. /\ canvas' = c /\ savedId' \in {savedId, NoPipeline}
      /\ canUndo' = TRUE /\ dirty' = TRUE /\ touched' = TRUE
      /\ IsSeq(past') /\ Len(past') <= MAX_HISTORY
      /\ Range(past') \subseteq Range(past) \union {canvas}
      /\ baseline' = baseline /\ editingPipelineId' = editingPipelineId
      /\ busy' = busy /\ save' = save /\ todo' = todo /\ model' = model /\ heard' = heard
      /\ crossed' = crossed /\ mingled' = mingled /\ left' = left /\ confirmed' = confirmed
  BY OnceIs DEF Kinded
<1>2. DOMAIN kind \subseteq Int
  BY DEF Kinded
<1>3. Fits(model', kind2) /\ Fits(heard', kind2)
  BY <1>1, <1>2, FitsExtends DEF Kinded
<1>4. IsSeq(todo') /\ \A w \in Range(todo') : RequestFits(w, kind2)
  BY <1>1, <1>2, RequestFitsExtends DEF Kinded
<1>5. \A x : CanvasFits(x, kind, nodeSequence) => CanvasFits(x, kind2, nodeSequence')
  BY CanvasFitsExtends DEF Kinded
<1>6. /\ CanvasFits(canvas', kind2, nodeSequence') /\ CanvasFits(baseline', kind2, nodeSequence')
      /\ CanvasFits(save'.attempt, kind2, nodeSequence')
      /\ \A x \in Range(past') : CanvasFits(x, kind2, nodeSequence')
  BY <1>1, <1>5 DEF Kinded
<1>7. Of(kind, "pipeline") \subseteq Of(kind2, "pipeline")
  BY OfExtends
<1>8. {savedId', editingPipelineId', save'.pipeline, save'.captured} \subseteq Of(kind2, "pipeline") \union {NoPipeline}
  BY <1>1, <1>7 DEF Kinded
<1>9. {canUndo', dirty', busy', touched', crossed', mingled', confirmed'} \subseteq BOOLEAN
  BY <1>1 DEF Kinded
<1>10. /\ ~busy' => save' = NoSave /\ todo' = <<>>
       /\ busy' => save'.pipeline # NoPipeline
       /\ busy' /\ save'.captured # NoPipeline => save'.pipeline = save'.captured
  BY <1>1 DEF Kinded
<1>11. QED
  BY <1>1, <1>3, <1>4, <1>6, <1>8, <1>9, <1>10 DEF Kinded

\* Kinds extend themselves.
LEMMA SameKinds ==
  ASSUME NEW kind
  PROVE  Extends(kind, kind)
BY DEF Extends

\* What the canvas becomes at each edit.
LEMMA Redrawn ==
  ASSUME NEW kind, NEW placed \in Nat, NEW c, CanvasFits(c, kind, placed), NEW ns, NEW es, NEW d,
         d = [nodes |-> ns, edges |-> es], ns \subseteq c.nodes, IsFiniteSet(es),
         \A e \in es : EdgeFits(e, kind, {n.id : n \in ns})
  PROVE  CanvasFits(d, kind, placed)
<1>1. d.nodes = ns /\ d.edges = es /\ d = [nodes |-> d.nodes, edges |-> d.edges] /\ Ids(d) = {n.id : n \in ns}
  BY DEF Ids
<1>2. IsFiniteSet(ns)
  BY FS_Subset DEF CanvasFits
<1>3. /\ \A n \in ns : NodeFits(n, kind, placed)
      /\ \A n, k \in ns : n.id = k.id => n = k
  BY DEF CanvasFits
<1>4. \A e \in es : EdgeFits(e, kind, Ids(d))
  BY <1>1
<1>5. QED
  BY <1>1, <1>2, <1>3, <1>4 DEF CanvasFits

\* A wire marked otherwise keeps to the kinds.
LEMMA EdgeRecord ==
  ASSUME NEW kind, NEW ids, NEW e, EdgeFits(e, kind, ids), NEW taken, taken \subseteq {Success, Fail}
  PROVE  EdgeFits([e EXCEPT !.taken = taken], kind, ids)
<1> DEFINE P == Of(kind, "port") \union {Service}
<1>1. e \in [source : ids, outPort : P, target : ids, inPort : {Service}, taken : SUBSET {Success, Fail}]
  BY DEF EdgeFits
<1> HIDE DEF P
<1>2. [e EXCEPT !.taken = taken] \in [source : ids, outPort : P, target : ids, inPort : {Service}, taken : SUBSET {Success, Fail}]
  BY <1>1
<1>3. QED
  BY <1>2 DEF EdgeFits, P

\* A wire drawn between two nodes of the canvas keeps to the kinds.
LEMMA NewEdge ==
  ASSUME NEW kind, NEW ids, NEW a \in ids, NEW b \in ids, NEW o \in Of(kind, "port") \union {Service}
  PROVE  EdgeFits([source |-> a, outPort |-> o, target |-> b, inPort |-> Service, taken |-> {}], kind, ids)
<1> DEFINE P == Of(kind, "port") \union {Service}
<1> HIDE DEF P
<1>1. o \in P
  BY DEF P
<1>2. [source |-> a, outPort |-> o, target |-> b, inPort |-> Service, taken |-> {}]
        \in [source : ids, outPort : P, target : ids, inPort : {Service}, taken : SUBSET {Success, Fail}]
  BY <1>1
<1>3. QED
  BY <1>2 DEF EdgeFits, P

\* A drawing with other wires, or other nodes.
LEMMA CanvasExcept ==
  ASSUME NEW kind, NEW placed, NEW c, CanvasFits(c, kind, placed), NEW ns, NEW es
  PROVE  /\ [c EXCEPT !.edges = es] = [nodes |-> c.nodes, edges |-> es]
         /\ [c EXCEPT !.nodes = ns] = [nodes |-> ns, edges |-> c.edges]
<1>1. c = [nodes |-> c.nodes, edges |-> c.edges]
  BY DEF CanvasFits
<1>2. QED
  BY <1>1

\* An edit that names no Thing and places no node.
LEMMA SameKindEdit ==
  ASSUME NEW kind, Kinded(kind), NEW c, NEW records, Edited(c, records) \/ EditedUnmarked(c, records),
         UNCHANGED <<nodeSequence, minted>>, CanvasFits(c, kind, nodeSequence)
  PROVE  Kinded(kind)'
<1>1. /\ minted' \in Nat /\ kind \in [1..minted' -> Kinds] /\ Extends(kind, kind)
      /\ nodeSequence' \in Nat /\ nodeSequence <= nodeSequence' /\ nodeSequence' <= MaxPlaced
      /\ CanvasFits(c, kind, nodeSequence')
  BY SameKinds DEF Kinded
<1>2. QED
  BY <1>1, EditedKinded

\* Drawing a wire keeps the kinds.
LEMMA ConnectKinded ==
  ASSUME NEW kind, Kinded(kind), onConnect
  PROVE  Kinded(kind)'
<1>1. PICK s \in canvas.nodes, t \in canvas.nodes : \E o \in outPorts(s), i \in inPorts(t) :
       LET e == [source |-> s.id, outPort |-> o, target |-> t.id, inPort |-> i, taken |-> {}]
       IN /\ \A d \in canvas.edges : wireKey(d) # wireKey(e)
          /\ Edited([canvas EXCEPT !.edges = @ \union {e}], 1)
  BY DEF onConnect
<1>2. PICK o \in outPorts(s), i \in inPorts(t) :
       LET e == [source |-> s.id, outPort |-> o, target |-> t.id, inPort |-> i, taken |-> {}]
       IN /\ \A d \in canvas.edges : wireKey(d) # wireKey(e)
          /\ Edited([canvas EXCEPT !.edges = @ \union {e}], 1)
  BY <1>1
<1> DEFINE e == [source |-> s.id, outPort |-> o, target |-> t.id, inPort |-> i, taken |-> {}]
<1>3. Edited([canvas EXCEPT !.edges = canvas.edges \union {e}], 1)
  BY <1>2
<1>4. CanvasFits(canvas, kind, nodeSequence) /\ nodeSequence \in Nat
  BY DEF Kinded
<1>5. NodeFits(s, kind, nodeSequence) /\ NodeFits(t, kind, nodeSequence)
  BY <1>4 DEF CanvasFits
<1>6. o \in Of(kind, "port") \union {Service}
  BY <1>2, <1>5 DEF NodeFits, outPorts
<1>7. i = Service
  BY <1>2, <1>5 DEF NodeFits, inPorts
<1>8. EdgeFits(e, kind, Ids(canvas))
  <2>1. s.id \in Ids(canvas) /\ t.id \in Ids(canvas)
    BY DEF Ids
  <2>2. QED
    BY <1>6, <1>7, <2>1, NewEdge
<1> HIDE DEF e
<1> DEFINE es == canvas.edges \union {e}
           c == [canvas EXCEPT !.edges = es]
<1>9. IsFiniteSet(es) /\ \A d \in es : EdgeFits(d, kind, Ids(canvas))
  BY <1>4, <1>8, FS_AddElement DEF CanvasFits
<1>10. Edited(c, 1)
  BY <1>3
<1> HIDE DEF es
<1>11. c = [nodes |-> canvas.nodes, edges |-> es]
  BY <1>4, CanvasExcept
<1> HIDE DEF c
<1>12. CanvasFits(c, kind, nodeSequence)
  <2>1. \A d \in es : EdgeFits(d, kind, {n.id : n \in canvas.nodes})
    BY <1>9 DEF Ids
  <2>2. QED
    BY <1>4, <1>9, <1>11, <2>1, Redrawn
<1>13. UNCHANGED <<nodeSequence, minted>>
  BY DEF onConnect
<1>14. QED
  BY <1>10, <1>12, <1>13, SameKindEdit

\* Marking a wire keeps the kinds.
LEMMA TakenKinded ==
  ASSUME NEW kind, Kinded(kind), setEdgeTakenOn
  PROVE  Kinded(kind)'
<1>1. PICK e \in canvas.edges, taken \in {{Success}, {Fail}} :
        Edited([canvas EXCEPT !.edges = (canvas.edges \ {e}) \union {[e EXCEPT !.taken = taken]}], 1)
  BY DEF setEdgeTakenOn
<1>2. CanvasFits(canvas, kind, nodeSequence) /\ nodeSequence \in Nat
  BY DEF Kinded
<1> DEFINE f == [e EXCEPT !.taken = taken]
<1>3. EdgeFits(f, kind, Ids(canvas))
  BY <1>2, EdgeRecord DEF CanvasFits
<1> HIDE DEF f
<1> DEFINE es == (canvas.edges \ {e}) \union {f}
           c == [canvas EXCEPT !.edges = es]
<1>4. Edited(c, 1)
  BY <1>1 DEF f
<1>5. IsFiniteSet(es) /\ \A d \in es : EdgeFits(d, kind, {n.id : n \in canvas.nodes})
  BY <1>2, <1>3, FS_AddElement, FS_RemoveElement DEF CanvasFits, Ids
<1> HIDE DEF es
<1>6. c = [nodes |-> canvas.nodes, edges |-> es]
  BY <1>2, CanvasExcept
<1> HIDE DEF c
<1>7. CanvasFits(c, kind, nodeSequence)
  BY <1>2, <1>5, <1>6, Redrawn
<1>8. UNCHANGED <<nodeSequence, minted>>
  BY DEF setEdgeTakenOn
<1>9. QED
  BY <1>4, <1>7, <1>8, SameKindEdit

\* Deleting wires keeps the kinds.
LEMMA EdgesDeleteKinded ==
  ASSUME NEW kind, Kinded(kind), onEdgesDelete
  PROVE  Kinded(kind)'
<1>1. PICK e \in canvas.edges : Edited([canvas EXCEPT !.edges = canvas.edges \ {e}], 1)
  BY DEF onEdgesDelete
<1>2. CanvasFits(canvas, kind, nodeSequence) /\ nodeSequence \in Nat
  BY DEF Kinded
<1> DEFINE es == canvas.edges \ {e}
           c == [canvas EXCEPT !.edges = es]
<1>4. Edited(c, 1)
  BY <1>1
<1>5. IsFiniteSet(es) /\ \A d \in es : EdgeFits(d, kind, {n.id : n \in canvas.nodes})
  BY <1>2, FS_RemoveElement DEF CanvasFits, Ids
<1> HIDE DEF es
<1>6. c = [nodes |-> canvas.nodes, edges |-> es]
  BY <1>2, CanvasExcept
<1> HIDE DEF c
<1>7. CanvasFits(c, kind, nodeSequence)
  BY <1>2, <1>5, <1>6, Redrawn
<1>8. UNCHANGED <<nodeSequence, minted>>
  BY DEF onEdgesDelete
<1>9. QED
  BY <1>4, <1>7, <1>8, SameKindEdit

\* Deleting nodes keeps the kinds.
LEMMA NodesDeleteKinded ==
  ASSUME NEW kind, Kinded(kind), onNodesDelete
  PROVE  Kinded(kind)'
<1>1. PICK n \in canvas.nodes :
       LET its == {e \in canvas.edges : n.id \in {e.source, e.target}}
       IN Edited([nodes |-> canvas.nodes \ {n}, edges |-> canvas.edges \ its],
                 IF its = {} THEN 1 ELSE 2)
  BY DEF onNodesDelete
<1> DEFINE its == {e \in canvas.edges : n.id \in {e.source, e.target}}
           ns == canvas.nodes \ {n}
           es == canvas.edges \ its
           c == [nodes |-> ns, edges |-> es]
           r == IF its = {} THEN 1 ELSE 2
<1>2. CanvasFits(canvas, kind, nodeSequence) /\ nodeSequence \in Nat
  BY DEF Kinded
<1>3. Edited(c, r)
  BY <1>1
<1>4. IsFiniteSet(es) /\ ns \subseteq canvas.nodes
  BY <1>2, FS_Subset DEF CanvasFits
<1>5. ASSUME NEW e \in es
      PROVE  EdgeFits(e, kind, {k.id : k \in ns})
  <2>1. EdgeFits(e, kind, Ids(canvas)) /\ e.source # n.id /\ e.target # n.id
    BY <1>2 DEF CanvasFits
  <2>2. \A i \in Ids(canvas) : i # n.id => i \in {k.id : k \in ns}
    BY DEF Ids
  <2>3. e.source \in {k.id : k \in ns} /\ e.target \in {k.id : k \in ns}
    BY <2>1, <2>2 DEF EdgeFits
  <2> DEFINE I == {k.id : k \in ns}
             P == Of(kind, "port") \union {Service}
  <2>4. e.source \in I /\ e.target \in I
    BY <2>3
  <2>5. e \in [source : Ids(canvas), outPort : P, target : Ids(canvas), inPort : {Service}, taken : SUBSET {Success, Fail}]
    BY <2>1 DEF EdgeFits
  <2> HIDE DEF I, P
  <2>6. e \in [source : I, outPort : P, target : I, inPort : {Service}, taken : SUBSET {Success, Fail}]
    BY <2>4, <2>5
  <2>7. QED
    BY <2>6 DEF EdgeFits, I, P
<1> HIDE DEF ns, es, r
<1>6. c = [nodes |-> ns, edges |-> es]
  OBVIOUS
<1> HIDE DEF c
<1>7. CanvasFits(c, kind, nodeSequence)
  BY <1>2, <1>4, <1>5, <1>6, Redrawn
<1>8. UNCHANGED <<nodeSequence, minted>>
  BY DEF onNodesDelete
<1>9. QED
  BY <1>3, <1>7, <1>8, SameKindEdit

\* The start of a drag keeps the kinds.
LEMMA DragKinded ==
  ASSUME NEW kind, Kinded(kind), onNodeDragStart
  PROVE  Kinded(kind)'
<1>1. EditedUnmarked(canvas, 1) /\ UNCHANGED <<nodeSequence, minted>>
  BY DEF onNodeDragStart
<1>2. CanvasFits(canvas, kind, nodeSequence)
  BY DEF Kinded
<1>3. QED
  BY <1>1, <1>2, SameKindEdit

\* The kinds once a start has been placed, with its port.
PlaceKind(kind) == [x \in 1..(minted + 1) |-> IF x <= minted THEN kind[x] ELSE "port"]

Placed(start) ==
  [id |-> 0 - (nodeSequence + 1), start |-> start, ports |-> IF start THEN {minted + 1} ELSE {Service}]

\* A node just placed keeps to the kinds.
LEMMA PlacedFits ==
  ASSUME NEW kind, NEW start \in BOOLEAN, nodeSequence \in Nat,
         start => minted + 1 \in Of(kind, "port"),
         NEW x, x = Placed(start)
  PROVE  NodeFits(x, kind, nodeSequence + 1) /\ x.id = -(nodeSequence + 1)
<1> DEFINE q == IF start THEN {minted + 1} ELSE {Service}
           P == SUBSET (Of(kind, "port") \union {Service})
<1>1. q \in P /\ (IF start THEN q \subseteq Of(kind, "port") ELSE q = {Service})
  OBVIOUS
<1>2. x = [id |-> 0 - (nodeSequence + 1), start |-> start, ports |-> q]
  BY DEF Placed
<1> HIDE DEF q, P
<1>3. 0 - (nodeSequence + 1) \in Int /\ 0 - (nodeSequence + 1) = -(nodeSequence + 1)
      /\ 0 - (nodeSequence + 1) < 0 /\ -(0 - (nodeSequence + 1)) <= nodeSequence + 1
      /\ ~(0 - (nodeSequence + 1) > 0)
  OBVIOUS
<1>4. x.id = 0 - (nodeSequence + 1) /\ x.ports = q /\ x.start = start
  BY <1>2
<1>5. x \in [id : Int, start : BOOLEAN, ports : P]
  BY <1>1, <1>2, <1>3
<1>6. IF x.start THEN x.ports \subseteq Of(kind, "port") ELSE x.ports = {Service}
  BY <1>1, <1>4
<1>7. NodeFits(x, kind, nodeSequence + 1)
  <2>1. x.id <= 0 => x.id < 0 /\ -x.id <= nodeSequence + 1
    BY <1>3, <1>4
  <2>2. ~(x.id > 0)
    BY <1>3, <1>4
  <2>3. QED
    BY <1>5, <1>6, <2>1, <2>2 DEF NodeFits, P
<1>8. QED
  BY <1>3, <1>4, <1>7

\* What placing a node makes of the canvas keeps to the kinds.
LEMMA PlaceFits ==
  ASSUME NEW kind, Kinded(kind), NEW start \in BOOLEAN, place(start),
         NEW kind2, kind2 = IF start THEN PlaceKind(kind) ELSE kind
  PROVE  /\ minted' \in Nat /\ minted <= minted' /\ kind2 \in [1..minted' -> Kinds] /\ Extends(kind2, kind)
         /\ start => minted' = minted + 1 /\ kind2[minted + 1] = "port"
         /\ nodeSequence' \in Nat /\ nodeSequence <= nodeSequence' /\ nodeSequence' <= MaxPlaced
         /\ NodeFits(Placed(start), kind2, nodeSequence')
         /\ \E c : /\ c = [nodes |-> canvas.nodes \union {Placed(start)}, edges |-> canvas.edges]
                   /\ CanvasFits(c, kind2, nodeSequence')
                   /\ Edited(c, 1)
<1>1. /\ nodeSequence < MaxPlaced
      /\ nodeSequence' = nodeSequence + 1
      /\ minted' = IF start THEN minted + 1 ELSE minted
      /\ Edited([canvas EXCEPT !.nodes = canvas.nodes \union {Placed(start)}], 1)
  BY DEF place, Placed
<1>2. nodeSequence \in Nat /\ minted \in Nat /\ kind \in [1..minted -> Kinds] /\ CanvasFits(canvas, kind, nodeSequence)
  BY DEF Kinded
<1>3. MaxPlaced \in Nat
  BY EditorAssumption
<1>4. nodeSequence' \in Nat /\ nodeSequence <= nodeSequence' /\ nodeSequence' <= MaxPlaced
  BY <1>1, <1>2, <1>3
<1>5. minted' \in Nat /\ minted <= minted' /\ kind2 \in [1..minted' -> Kinds] /\ Extends(kind2, kind)
      /\ (start => minted' = minted + 1 /\ kind2[minted + 1] = "port")
  <2>1. CASE start
    <3>1. minted' = minted + 1 /\ kind2 = [x \in 1..(minted + 1) |-> IF x <= minted THEN kind[x] ELSE "port"]
      BY <1>1, <2>1 DEF PlaceKind
    <3>2. \A x \in 1..(minted + 1) : x <= minted => x \in 1..minted
      BY <1>2
    <3>3. \A x \in 1..(minted + 1) : kind2[x] \in Kinds
      BY <1>2, <3>1, <3>2 DEF Kinds
    <3>4. \A x \in 1..minted : x \in 1..(minted + 1) /\ x <= minted
      BY <1>2
    <3>5. minted + 1 \in 1..(minted + 1) /\ ~(minted + 1 <= minted)
      BY <1>2
    <3>6. Extends(kind2, kind)
      BY <1>2, <3>1, <3>4 DEF Extends
    <3>7. QED
      BY <1>2, <3>1, <3>3, <3>5, <3>6
  <2>2. CASE ~start
    BY <1>1, <1>2, <2>2, SameKinds
  <2>3. QED
    BY <2>1, <2>2
<1>6. start => minted + 1 \in Of(kind2, "port")
  BY <1>2, <1>5 DEF Of
<1> DEFINE x == Placed(start)
<1>7. NodeFits(x, kind2, nodeSequence + 1) /\ x.id = -(nodeSequence + 1)
  BY <1>2, <1>6, PlacedFits
<1> HIDE DEF x
<1> DEFINE ns == canvas.nodes \union {x}
           c == [canvas EXCEPT !.nodes = ns]
<1>8. c = [nodes |-> ns, edges |-> canvas.edges]
  <2> HIDE DEF ns
  <2>1. canvas = [nodes |-> canvas.nodes, edges |-> canvas.edges]
    BY <1>2 DEF CanvasFits
  <2>2. QED
    BY <2>1
<1>9. Edited(c, 1)
  BY <1>1 DEF x
<1> HIDE DEF c
<1>10. c.nodes = ns /\ c.edges = canvas.edges /\ c = [nodes |-> c.nodes, edges |-> c.edges]
  BY <1>8
<1>11. CanvasFits(canvas, kind2, nodeSequence')
  BY <1>2, <1>4, <1>5, CanvasFitsExtends
<1>12. \A n \in canvas.nodes : n.id # x.id
  <2>1. TAKE n \in canvas.nodes
  <2>2. NodeFits(n, kind, nodeSequence)
    BY <1>2 DEF CanvasFits
  <2>3. n.id \in Int /\ (n.id <= 0 => -n.id <= nodeSequence)
    BY <2>2 DEF NodeFits
  <2>4. QED
    BY <1>2, <1>7, <2>3
<1>13. IsFiniteSet(c.nodes)
  BY <1>10, <1>11, FS_AddElement DEF CanvasFits
<1>14. \A n \in c.nodes : NodeFits(n, kind2, nodeSequence')
  BY <1>1, <1>7, <1>10, <1>11 DEF CanvasFits
<1>15. \A n, k \in c.nodes : n.id = k.id => n = k
  BY <1>10, <1>11, <1>12 DEF CanvasFits
<1>16. \A e \in c.edges : EdgeFits(e, kind2, Ids(c))
  <2>1. Ids(canvas) \subseteq Ids(c)
    BY <1>10 DEF Ids
  <2>2. \A e \in canvas.edges : EdgeFits(e, kind2, Ids(canvas))
    BY <1>11 DEF CanvasFits
  <2>3. QED
    BY <1>10, <2>1, <2>2 DEF EdgeFits
<1>17. CanvasFits(c, kind2, nodeSequence')
  BY <1>10, <1>11, <1>13, <1>14, <1>15, <1>16 DEF CanvasFits
<1>18. QED
  BY <1>1, <1>4, <1>5, <1>7, <1>8, <1>9, <1>17 DEF x

\* Placing a node keeps the kinds.
LEMMA PlaceKinded ==
  ASSUME NEW kind, Kinded(kind), NEW start \in BOOLEAN, place(start),
         NEW kind2, kind2 = IF start THEN PlaceKind(kind) ELSE kind
  PROVE  Kinded(kind2)'
BY PlaceFits, EditedKinded

\* The pieces of a save.
SaveKnown    == editingPipelineId # NoPipeline
SavePipeline == IF SaveKnown THEN editingPipelineId ELSE minted + 1
SaveTo       == nodeThingId(canvas, heard, minted + 1)
SaveFree     == minted + Cardinality(canvas.nodes) + 1
SaveTop      == SaveFree + Cardinality(canvas.edges)
SaveDrawn    == Drawn(canvas, SaveTo)
SaveNodes    == persistedNodeIds(heard, SavePipeline, SaveKnown)
SaveKind(kind) == KindAfter(kind, minted, canvas, SaveTo, SaveTop)

\* What onSave does, in its pieces.
LEMMA SaveIs ==
  ASSUME onSave, minted \in Nat, IsFiniteSet(canvas.nodes), IsFiniteSet(canvas.edges)
  PROVE  /\ ~busy /\ busy' = TRUE /\ touched' = FALSE /\ mingled' = (mingled \/ crossed)
         /\ save' = [attempt |-> canvas, pipeline |-> SavePipeline, to |-> SaveTo,
                     captured |-> editingPipelineId, sound |-> Sound(canvas, SavePipeline)]
         /\ todo' = Writes(SaveDrawn, heard, SavePipeline, SaveKnown, SaveFree)
         /\ minted' = SaveTop
         /\ written' = Unwritten
         /\ UNCHANGED <<drawing, opened, nodeSequence, model, heard, crossed, left, confirmed>>
<1>0. Cardinality(canvas.nodes) \in Nat /\ Cardinality(canvas.edges) \in Nat
  BY FS_CardinalityType
<1>1. minted + (Cardinality(canvas.nodes) + 1) = SaveFree
  BY <1>0 DEF SaveFree
<1>2. save' = [attempt |-> canvas, pipeline |-> SavePipeline, to |-> SaveTo,
                     captured |-> editingPipelineId, sound |-> Sound(canvas, SavePipeline)]
  BY Zenon DEF onSave, SavePipeline, SaveTo, SaveKnown
<1>3. todo' = Writes(Drawn(canvas, SaveTo), heard, SavePipeline, editingPipelineId # NoPipeline,
                     minted + (Cardinality(canvas.nodes) + 1))
  BY Zenon DEF onSave, SavePipeline, SaveTo, SaveKnown
<1>4. todo' = Writes(SaveDrawn, heard, SavePipeline, SaveKnown, SaveFree)
  BY <1>1, <1>3, Zenon DEF SaveDrawn, SaveKnown
<1>5. minted' = minted + (Cardinality(canvas.nodes) + 1) + Cardinality(canvas.edges)
  BY Zenon DEF onSave
<1>6. minted' = SaveTop
  BY <1>1, <1>5 DEF SaveTop
<1>7. /\ ~busy /\ busy' = TRUE /\ touched' = FALSE /\ mingled' = (mingled \/ crossed)
      /\ written' = Unwritten
      /\ UNCHANGED <<drawing, opened, nodeSequence, model, heard, crossed, left, confirmed>>
  BY DEF onSave
<1>8. QED
  BY <1>2, <1>4, <1>6, <1>7

\* A model that keeps to the kinds of finitely many Things is finite.
LEMMA FitsBounded ==
  ASSUME NEW k \in Nat, NEW kind, DOMAIN kind = 1..k, NEW m, Fits(m, kind)
  PROVE  Bounded(m)
<1>1. IsFiniteSet(1..k)
  BY FS_Interval
<1>2. m.nodes \subseteq 1..k /\ m.wires \subseteq 1..k /\ m.ports \subseteq 1..k
  BY KindOf DEF Fits
<1>3. IsFiniteSet({Success, Fail})
  <2>1. IsFiniteSet({Success} \union {Fail})
    BY FS_Singleton, FS_Union
  <2>2. {Success, Fail} = {Success} \union {Fail}
    OBVIOUS
  <2>3. QED
    BY <2>1, <2>2
<1>4. \A x : Reached(m, x, "taken") \subseteq {Success, Fail}
  <2>1. DOMAIN kind \subseteq Int
    OBVIOUS
  <2>2. QED
    BY <2>1, ReachedFits
<1>5. \A x : IsFiniteSet(Reached(m, x, "taken"))
  BY <1>3, <1>4, FS_Subset
<1>6. QED
  BY <1>1, <1>2, <1>5, FS_Subset DEF Bounded

\* What onSave plans of what the page has heard keeps to the kinds.
LEMMA SavePlanned ==
  ASSUME NEW kind, Kinded(kind), onSave, NEW kind2, kind2 = SaveKind(kind)
  PROVE  /\ Planned(heard, canvas, minted, kind, SaveTo, SaveFree, SaveTop, kind2)
         /\ minted' = SaveTop /\ Extends(kind2, kind)
         /\ CanvasFits(SaveDrawn, kind2, 0)
         /\ \A n \in SaveDrawn.nodes : n.id > 0
         /\ \A e \in SaveDrawn.edges : e.taken # {} /\ IsFiniteSet(e.taken)
         /\ SavePipeline \in Of(kind2, "pipeline")
         /\ Fits(heard, kind2)
         /\ IsSeq(todo')
         /\ \E wire \in Numbering(SaveDrawn.edges, SaveFree) :
              /\ \A e \in SaveDrawn.edges : wire[e] \in Of(kind2, "wire") /\ wire[e] \in Nat /\ wire[e] > SaveFree
              /\ Range(todo') = Requested(SaveDrawn, heard, SavePipeline, SaveNodes, wire)
         /\ \A w \in Range(todo') : RequestFits(w, kind2)
<1>1. /\ minted \in Nat /\ kind \in [1..minted -> Kinds] /\ Fits(heard, kind)
      /\ nodeSequence \in Nat /\ CanvasFits(canvas, kind, nodeSequence)
      /\ editingPipelineId \in Of(kind, "pipeline") \union {NoPipeline}
  BY DEF Kinded
<1>2. IsFiniteSet(canvas.nodes) /\ IsFiniteSet(canvas.edges)
  BY <1>1 DEF CanvasFits
<1>3. minted' = SaveTop /\ todo' = Writes(SaveDrawn, heard, SavePipeline, SaveKnown, SaveFree)
  BY <1>1, <1>2, SaveIs
<1>4. Planned(heard, canvas, minted, kind, SaveTo, SaveFree, SaveTop, kind2)
  BY <1>1, PlanIsPlanned DEF SaveTo, SaveFree, SaveTop, SaveKind
<1>5. /\ CanvasFits(SaveDrawn, kind2, 0)
      /\ Cardinality(SaveDrawn.edges) <= Cardinality(canvas.edges)
      /\ \A n \in SaveDrawn.nodes : n.id > 0
      /\ \A e \in SaveDrawn.edges : e.taken # {} /\ IsFiniteSet(e.taken)
  BY <1>1, <1>4, DrawnFits DEF SaveDrawn
<1>6. /\ SaveFree \in Nat /\ SaveTop \in Nat /\ DOMAIN kind2 = 1..SaveTop /\ Extends(kind2, kind)
      /\ minted + 1 \in Of(kind2, "pipeline")
      /\ SaveTop = SaveFree + Cardinality(canvas.edges)
      /\ \A x \in (SaveFree + 1)..SaveTop : x \in Of(kind2, "wire")
  BY <1>4 DEF Planned
<1>7. SavePipeline \in Of(kind2, "pipeline")
  BY <1>1, <1>6, OfExtends DEF SavePipeline, SaveKnown
<1>8. Fits(heard, kind2)
  BY <1>1, <1>6, FitsExtends
<1>9. IsFiniteSet(SaveDrawn.edges)
  BY <1>5 DEF CanvasFits
<1>10. Bounded(heard)
  BY <1>1, FitsBounded
<1>11. /\ IsSeq(todo')
       /\ \E wire \in Numbering(SaveDrawn.edges, SaveFree) :
            Range(todo') = Requested(SaveDrawn, heard, SavePipeline, SaveNodes, wire)
  BY <1>3, <1>5, <1>6, <1>9, <1>10, WritesRange DEF SaveNodes
<1>12. PICK wire \in Numbering(SaveDrawn.edges, SaveFree) :
            Range(todo') = Requested(SaveDrawn, heard, SavePipeline, SaveNodes, wire)
  BY <1>11
<1>13. ASSUME NEW e \in SaveDrawn.edges
       PROVE  wire[e] \in Of(kind2, "wire") /\ wire[e] \in Nat /\ wire[e] > SaveFree
  <2>1. wire[e] \in (SaveFree + 1)..(SaveFree + Cardinality(SaveDrawn.edges))
    BY DEF Numbering
  <2>2. Cardinality(SaveDrawn.edges) \in Nat /\ Cardinality(canvas.edges) \in Nat
    BY <1>2, <1>9, FS_CardinalityType
  <2>3. wire[e] \in (SaveFree + 1)..SaveTop
    BY <1>5, <1>6, <2>1, <2>2
  <2>4. QED
    BY <1>6, <2>3
<1>14. ASSUME NEW w \in Range(todo')
       PROVE  RequestFits(w, kind2)
  <2>1. SaveNodes \subseteq heard.nodes
    BY DEF SaveNodes, persistedNodeIds, NodesOf
  <2>2. QED
    BY <1>5, <1>6, <1>7, <1>8, <1>12, <1>13, <2>1, RequestedFits
<1>15. QED
  BY <1>3, <1>4, <1>5, <1>6, <1>7, <1>8, <1>11, <1>12, <1>13, <1>14

\* Sending a save keeps the kinds.
LEMMA SaveKinded ==
  ASSUME NEW kind, Kinded(kind), onSave, NEW kind2, kind2 = SaveKind(kind)
  PROVE  Kinded(kind2)'
<1>1. /\ minted \in Nat /\ kind \in [1..minted -> Kinds] /\ Fits(model, kind)
      /\ nodeSequence \in Nat /\ CanvasFits(canvas, kind, nodeSequence)
      /\ nodeSequence <= MaxPlaced /\ IsSeq(past) /\ Len(past) <= MAX_HISTORY
  BY DEF Kinded
<1>2. IsFiniteSet(canvas.nodes) /\ IsFiniteSet(canvas.edges)
  BY <1>1 DEF CanvasFits
<1>3. /\ ~busy /\ busy' = TRUE /\ touched' = FALSE /\ mingled' = (mingled \/ crossed)
      /\ save' = [attempt |-> canvas, pipeline |-> SavePipeline, to |-> SaveTo,
                  captured |-> editingPipelineId, sound |-> Sound(canvas, SavePipeline)]
      /\ minted' = SaveTop
      /\ UNCHANGED <<drawing, opened, nodeSequence, model, heard, crossed, left, confirmed>>
  BY <1>1, <1>2, SaveIs
<1>4. /\ Planned(heard, canvas, minted, kind, SaveTo, SaveFree, SaveTop, kind2)
      /\ Extends(kind2, kind)
      /\ SavePipeline \in Of(kind2, "pipeline")
      /\ Fits(heard, kind2)
      /\ IsSeq(todo')
      /\ \A w \in Range(todo') : RequestFits(w, kind2)
  BY SavePlanned
<1>5. minted' \in Nat /\ kind2 \in [1..minted' -> Kinds]
  BY <1>3, <1>4 DEF Planned
<1>6. Fits(model', kind2) /\ Fits(heard', kind2)
  BY <1>1, <1>3, <1>4, FitsExtends
<1>7. \A x : CanvasFits(x, kind, nodeSequence) => CanvasFits(x, kind2, nodeSequence)
  BY <1>1, <1>4, CanvasFitsExtends
<1>8. /\ canvas' = canvas /\ past' = past /\ baseline' = baseline /\ canUndo' = canUndo /\ dirty' = dirty
      /\ savedId' = savedId /\ editingPipelineId' = editingPipelineId /\ nodeSequence' = nodeSequence
      /\ crossed' = crossed /\ confirmed' = confirmed
  BY <1>3 DEF drawing, opened
<1>9. save'.attempt = canvas /\ save'.pipeline = SavePipeline /\ save'.captured = editingPipelineId
  BY <1>3
<1>10. /\ CanvasFits(canvas', kind2, nodeSequence') /\ CanvasFits(baseline', kind2, nodeSequence')
       /\ CanvasFits(save'.attempt, kind2, nodeSequence')
       /\ \A x \in Range(past') : CanvasFits(x, kind2, nodeSequence')
  BY <1>7, <1>8, <1>9 DEF Kinded
<1>11. {savedId', editingPipelineId', save'.pipeline, save'.captured} \subseteq Of(kind2, "pipeline") \union {NoPipeline}
  <2>1. {savedId, editingPipelineId} \subseteq Of(kind2, "pipeline") \union {NoPipeline}
    BY <1>4, OfExtends DEF Kinded
  <2>2. QED
    BY <1>4, <1>8, <1>9, <2>1
<1>12. {canUndo', dirty', busy', touched', crossed', mingled', confirmed'} \subseteq BOOLEAN
  BY <1>3, <1>8 DEF Kinded
<1>13. save'.pipeline # NoPipeline /\ (save'.captured # NoPipeline => save'.pipeline = save'.captured)
  <2>1. minted + 1 # NoPipeline
    BY <1>1, DrawingAssumption
  <2>2. QED
    BY <1>9, <2>1 DEF SavePipeline, SaveKnown
<1>14. QED
  BY <1>1, <1>3, <1>4, <1>5, <1>6, <1>8, <1>10, <1>11, <1>12, <1>13 DEF Kinded

\* Undo keeps the kinds.
LEMMA UndoKinded ==
  ASSUME NEW kind, Kinded(kind), onUndo
  PROVE  Kinded(kind)'
<1>1. /\ past # <<>> /\ canvas' = Last(past) /\ past' = Front(past)
      /\ canUndo' \in BOOLEAN /\ dirty' = TRUE /\ savedId' = NoPipeline /\ touched' = TRUE
      /\ baseline' = baseline /\ editingPipelineId' = editingPipelineId /\ nodeSequence' = nodeSequence
      /\ busy' = busy /\ save' = save /\ todo' = todo /\ model' = model /\ heard' = heard /\ minted' = minted
      /\ crossed' = crossed /\ mingled' = mingled /\ confirmed' = confirmed
  BY DEF onUndo, saving
<1>2. /\ Last(past) \in Range(past)
      /\ IsSeq(Front(past)) /\ Range(Front(past)) \subseteq Range(past) /\ Len(Front(past)) <= Len(past)
  BY <1>1, FrontLast DEF Kinded
<1>3. Len(Front(past)) \in Nat /\ Len(past) \in Nat /\ MAX_HISTORY \in Nat
  BY <1>2, EditorAssumption DEF IsSeq, Kinded
<1>4. Len(past') <= MAX_HISTORY
  <2>1. Len(past) <= MAX_HISTORY
    BY DEF Kinded
  <2>2. QED
    BY <1>1, <1>2, <1>3, <2>1
<1>5. CanvasFits(canvas', kind, nodeSequence') /\ \A c \in Range(past') : CanvasFits(c, kind, nodeSequence')
  BY <1>1, <1>2 DEF Kinded
<1>6. {savedId', editingPipelineId', save'.pipeline, save'.captured} \subseteq Of(kind, "pipeline") \union {NoPipeline}
  BY <1>1 DEF Kinded
<1>7. QED
  BY <1>1, <1>2, <1>4, <1>5, <1>6 DEF Kinded

\* Opening a drawing that keeps to the kinds keeps them.
LEMMA OpensKinded ==
  ASSUME NEW kind, Kinded(kind), NEW p, NEW c, NEW editing, OpensWith(p, c, editing),
         CanvasFits(c, kind, nodeSequence), {p, editing} \subseteq Of(kind, "pipeline") \union {NoPipeline}
  PROVE  Kinded(kind)'
<1>1. /\ canvas' = c /\ baseline' = c /\ past' = <<>> /\ canUndo' = FALSE /\ dirty' = FALSE
      /\ savedId' = p /\ editingPipelineId' = editing /\ touched' = TRUE /\ crossed' = busy
      /\ nodeSequence' = nodeSequence
      /\ busy' = busy /\ save' = save /\ todo' = todo /\ model' = model /\ heard' = heard /\ minted' = minted
      /\ mingled' = mingled
  BY DEF OpensWith, commitBaseline, saving
<1>2. confirmed' \in BOOLEAN
  BY DEF OpensWith
<1>3. IsSeq(<<>>) /\ Range(<<>>) = {} /\ Len(<<>>) <= MAX_HISTORY
  <2>1. \A S : <<>> \in Seq(S)
    OBVIOUS
  <2>2. QED
    BY <2>1, EditorAssumption DEF IsSeq, Range
<1>4. IsSeq(past') /\ Range(past') = {} /\ Len(past') <= MAX_HISTORY
  BY <1>1, <1>3
<1>5. {savedId', editingPipelineId', save'.pipeline, save'.captured} \subseteq Of(kind, "pipeline") \union {NoPipeline}
  BY <1>1 DEF Kinded
<1>6. {canUndo', dirty', busy', touched', crossed', mingled', confirmed'} \subseteq BOOLEAN
  BY <1>1, <1>2 DEF Kinded
<1>7. QED
  BY <1>1, <1>4, <1>5, <1>6 DEF Kinded

\* Opening a pipeline keeps the kinds.
LEMMA LoadKinded ==
  ASSUME NEW kind, Kinded(kind), onLoad
  PROVE  Kinded(kind)'
<1>1. PICK p \in heard.pipelines : OpensWith(p, loadPipeline(heard, p), p)
  BY DEF onLoad
<1>2. minted \in Nat /\ DOMAIN kind = 1..minted /\ Fits(heard, kind) /\ nodeSequence \in Nat
  BY DEF Kinded
<1>3. CanvasFits(loadPipeline(heard, p), kind, nodeSequence)
  BY <1>2, LoadFits
<1>4. p \in Of(kind, "pipeline")
  BY <1>2 DEF Fits
<1>5. QED
  BY <1>1, <1>3, <1>4, OpensKinded

\* Starting a new pipeline keeps the kinds.
LEMMA NewKinded ==
  ASSUME NEW kind, Kinded(kind), onNew
  PROVE  Kinded(kind)'
BY EmptyFits, OpensKinded DEF onNew

\* A request that is made keeps the kinds.
LEMMA WritingKinded ==
  ASSUME NEW kind, Kinded(kind), Writing
  PROVE  Kinded(kind)'
<1>1. /\ busy /\ todo # <<>> /\ model' = Applied(model, Head(todo)) /\ todo' = Tail(todo)
      /\ UNCHANGED <<drawing, opened, nodeSequence, busy, save, heard, minted, bounds, history>>
  BY DEF Writing
<1>2. /\ Head(todo) \in Range(todo) /\ IsSeq(Tail(todo)) /\ Range(Tail(todo)) \subseteq Range(todo)
  BY <1>1, HeadTail DEF Kinded
<1>3. Fits(model', kind)
  BY <1>1, <1>2, AppliedFits DEF Kinded
<1>4. QED
  BY <1>1, <1>2, <1>3 DEF Kinded, drawing, opened, history

\* The end of a save keeps the kinds.
LEMMA SavedKinded ==
  ASSUME NEW kind, Kinded(kind), Saved
  PROVE  Kinded(kind)'
<1>1. /\ busy /\ todo = <<>> /\ editingPipelineId' = save.pipeline /\ savedId' = save.pipeline
      /\ baseline' = save.attempt /\ past' = <<>> /\ canUndo' = FALSE /\ dirty' = FALSE
      /\ busy' = FALSE /\ save' = NoSave /\ confirmed' = (save.sound /\ ~touched)
      /\ UNCHANGED <<canvas, nodeSequence, todo, model, heard, minted, bounds, touched, crossed, mingled, left>>
  BY DEF Saved, commitBaseline
<1>2. confirmed' \in BOOLEAN
  BY <1>1
<1>3. IsSeq(<<>>) /\ Range(<<>>) = {} /\ Len(<<>>) <= MAX_HISTORY
  <2>1. \A S : <<>> \in Seq(S)
    OBVIOUS
  <2>2. QED
    BY <2>1, EditorAssumption DEF IsSeq, Range
<1>4. IsSeq(past') /\ Range(past') = {} /\ Len(past') <= MAX_HISTORY
  BY <1>1, <1>3
<1>5. save'.attempt = Empty /\ save'.pipeline = NoPipeline /\ save'.captured = NoPipeline
  BY <1>1 DEF NoSave
<1>6. CanvasFits(save'.attempt, kind, nodeSequence')
  BY <1>5, EmptyFits
<1>7. {canUndo', dirty', busy', touched', crossed', mingled', confirmed'} \subseteq BOOLEAN
  BY <1>1, <1>2 DEF Kinded
<1>8. {savedId', editingPipelineId', save'.pipeline, save'.captured} \subseteq Of(kind, "pipeline") \union {NoPipeline}
  BY <1>1, <1>5 DEF Kinded
<1>9. QED
  BY <1>1, <1>4, <1>6, <1>7, <1>8 DEF Kinded

\* A save that fails keeps the kinds.
LEMMA FailsKinded ==
  ASSUME NEW kind, Kinded(kind), SaveFails
  PROVE  Kinded(kind)'
<1>1. /\ busy /\ todo # <<>> /\ model' \in {model, Applied(model, Head(todo))}
      /\ canvas' = baseline /\ canUndo' = FALSE /\ dirty' = FALSE /\ savedId' = save.captured
      /\ busy' = FALSE /\ save' = NoSave /\ todo' = <<>> /\ confirmed' = FALSE
      /\ UNCHANGED <<past, baseline, editingPipelineId, thingIdByCanvasId, nodeSequence, heard, minted,
                 edits, opens, saves, touched, crossed, mingled, written>>
  BY DEF SaveFails
<1>2. Head(todo) \in Range(todo)
  BY <1>1, HeadTail DEF Kinded
<1>3. Fits(model', kind)
  BY <1>1, <1>2, AppliedFits DEF Kinded
<1>4. IsSeq(<<>>) /\ Range(<<>>) = {}
  <2>1. \A S : <<>> \in Seq(S)
    OBVIOUS
  <2>2. QED
    BY <2>1 DEF IsSeq, Range
<1>5. IsSeq(todo') /\ Range(todo') = {}
  BY <1>1, <1>4
<1>6. save'.attempt = Empty /\ save'.pipeline = NoPipeline /\ save'.captured = NoPipeline
  BY <1>1 DEF NoSave
<1>7. CanvasFits(save'.attempt, kind, nodeSequence')
  BY <1>6, EmptyFits
<1>8. {savedId', editingPipelineId', save'.pipeline, save'.captured} \subseteq Of(kind, "pipeline") \union {NoPipeline}
  BY <1>1, <1>6 DEF Kinded
<1>9. {canUndo', dirty', busy', touched', crossed', mingled', confirmed'} \subseteq BOOLEAN
  BY <1>1 DEF Kinded
<1>10. QED
  BY <1>1, <1>3, <1>5, <1>7, <1>8, <1>9 DEF Kinded

\* Hearing what the model holds keeps the kinds.
LEMMA HearsKinded ==
  ASSUME NEW kind, Kinded(kind), Hears
  PROVE  Kinded(kind)'
BY DEF Hears, Kinded, drawing, opened, saving, history

\* A step that changes nothing keeps the kinds.
LEMMA StutterKinded ==
  ASSUME NEW kind, Kinded(kind), UNCHANGED vars
  PROVE  Kinded(kind)'
BY DEF vars, Kinded, drawing, opened, saving, history

\* The kinds after a step, and what becomes of those before it.
LEMMA StepKinded ==
  ASSUME NEW kind, Kinded(kind), [Next]_vars
  PROVE  \E kind2 : Kinded(kind2)'
<1>1. CASE \E start \in BOOLEAN : place(start)
  <2>1. PICK start \in BOOLEAN : place(start)
    BY <1>1
  <2> DEFINE kind2 == IF start THEN PlaceKind(kind) ELSE kind
  <2> HIDE DEF kind2
  <2>2. \E x : x = IF start THEN PlaceKind(kind) ELSE kind
    OBVIOUS
  <2>3. QED
    BY <2>1, <2>2, PlaceKinded
<1>2. CASE onSave
  <2>1. \E x : x = SaveKind(kind)
    OBVIOUS
  <2>2. QED
    BY <1>2, <2>1, SaveKinded
<1>3. CASE onConnect
  BY <1>3, ConnectKinded
<1>4. CASE setEdgeTakenOn
  BY <1>4, TakenKinded
<1>5. CASE onEdgesDelete
  BY <1>5, EdgesDeleteKinded
<1>6. CASE onNodesDelete
  BY <1>6, NodesDeleteKinded
<1>7. CASE onNodeDragStart
  BY <1>7, DragKinded
<1>8. CASE onUndo
  BY <1>8, UndoKinded
<1>9. CASE onLoad
  BY <1>9, LoadKinded
<1>10. CASE onNew
  BY <1>10, NewKinded
<1>11. CASE Writing
  BY <1>11, WritingKinded
<1>12. CASE Saved
  BY <1>12, SavedKinded
<1>13. CASE SaveFails
  BY <1>13, FailsKinded
<1>14. CASE Hears
  BY <1>14, HearsKinded
<1>15. CASE UNCHANGED vars
  BY <1>15, StutterKinded
<1>16. QED
  BY <1>1, <1>2, <1>3, <1>4, <1>5, <1>6, <1>7, <1>8, <1>9, <1>10, <1>11, <1>12, <1>13, <1>14, <1>15 DEF Next

KindedInv == \E kind : Kinded(kind)

\* In every state of every execution each Thing keeps to its kind.
LEMMA KindsKept == Spec => []KindedInv
<1>1. Init => KindedInv
  BY InitKinded DEF KindedInv
<1>2. KindedInv /\ [Next]_vars => KindedInv'
  <2>1. SUFFICES ASSUME NEW kind, Kinded(kind), [Next]_vars
                 PROVE  KindedInv'
    BY DEF KindedInv
  <2>2. \E kind2 : Kinded(kind2)'
    BY <2>1, StepKinded
  <2>3. QED
    BY <2>2 DEF KindedInv
<1>3. QED
  BY <1>1, <1>2, PTL DEF Spec

\* What keeps to the kinds is a drawing.
LEMMA DrawingFits ==
  ASSUME NEW c, NEW kind, NEW placed, CanvasFits(c, kind, placed)
  PROVE  Drawing(c)
<1>1. DOMAIN c = {"nodes", "edges"}
  BY DEF CanvasFits
<1>2. Ids(c) \subseteq Int
  BY DEF CanvasFits, NodeFits, Ids
<1>3. Cardinality(Ids(c)) = Cardinality(c.nodes)
  <2> DEFINE f == [n \in c.nodes |-> n.id]
  <2>1. f \in Bijection(c.nodes, Ids(c))
    <3>1. f \in [c.nodes -> Ids(c)]
      BY DEF Ids
    <3>2. \A n, k \in c.nodes : f[n] = f[k] => n = k
      BY DEF CanvasFits
    <3>3. \A i \in Ids(c) : \E n \in c.nodes : f[n] = i
      BY DEF Ids
    <3> HIDE DEF f
    <3>4. QED
      BY <3>1, <3>2, <3>3 DEF Bijection, Injection, Surjection, IsInjective
  <2> HIDE DEF f
  <2>2. IsFiniteSet(c.nodes)
    BY DEF CanvasFits
  <2>3. Cardinality(c.nodes) = Cardinality(Ids(c))
    <3>1. ExistsBijection(c.nodes, Ids(c))
      BY <2>1, Fun_ExistsBij
    <3>2. QED
      BY <2>2, <3>1, FS_Bijection
  <2>4. QED
    BY <2>3
<1>4. \A e \in c.edges : {e.source, e.target} \subseteq Ids(c)
  BY DEF CanvasFits, EdgeFits
<1>5. QED
  BY <1>1, <1>2, <1>3, <1>4 DEF Drawing, Ids

\* For any Things held before and any bounds: every drawing the page holds is one, undo returns to no more than it may,
\* and every Thing of the model and of what is still to be written has been named (PipelineEditorPage.tsx).
THEOREM TypeCorrect == Spec => []TypeOK
<1>1. KindedInv => TypeOK
  <2>1. SUFFICES ASSUME NEW kind, Kinded(kind)
                 PROVE  TypeOK
    BY DEF KindedInv
  <2>2. \A c \in {canvas, baseline} \union Range(past) : Drawing(c)
    BY <2>1, DrawingFits DEF Kinded
  <2>3. Of(kind, "pipeline") \subseteq Nat
    <3>1. Of(kind, "pipeline") \subseteq 1..minted
      BY <2>1, KindOf DEF Kinded
    <3>2. 1..minted \subseteq Nat
      BY <2>1 DEF Kinded
    <3>3. QED
      BY <3>1, <3>2
  <2>4. {savedId, editingPipelineId} \subseteq Nat \union {NoPipeline}
    BY <2>1, <2>3 DEF Kinded
  <2>5. busy <=> save # NoSave
    <3>1. NoSave.pipeline = NoPipeline
      BY DEF NoSave
    <3>2. (busy => save.pipeline # NoPipeline) /\ (~busy => save = NoSave)
      BY <2>1 DEF Kinded
    <3>3. busy \in BOOLEAN
      BY <2>1 DEF Kinded
    <3>4. QED
      BY <3>1, <3>2, <3>3
  <2>6. todo # <<>> => busy
    BY <2>1 DEF Kinded
  <2>7. nodeSequence \in 0..MaxPlaced
    BY <2>1, EditorAssumption DEF Kinded
  <2>8. ThingsOf(model) \union ThingsOf(heard) \subseteq 1..minted
    BY <2>1, KindOf DEF Kinded, Fits, ThingsOf
  <2>9. QED
    BY <2>1, <2>2, <2>4, <2>5, <2>6, <2>7, <2>8 DEF TypeOK, Kinded
<1>2. QED
  BY <1>1, KindsKept, PTL

-----------------------------------------------------------------------------
\* Whose each Thing is.

\* Whose each Thing is: own[x] is the pipeline of the Thing x, and only a port may be of none.
Owns(kind, own) ==
  /\ own \in [DOMAIN kind -> Of(kind, "pipeline") \union {NoPipeline}]
  /\ \A p \in Of(kind, "pipeline") : own[p] = p
  /\ \A x \in DOMAIN kind : own[x] = NoPipeline => x \in Of(kind, "port")

\* A relationship joins Things of one pipeline; what is asked of a port is asked of the pipelines not in L.
RelOwned(r, kind, own, L) ==
  r[3] \in DOMAIN kind /\ (r[3] \in Of(kind, "port") => own[r[1]] \notin L) => own[r[3]] = own[r[1]]

RelsOwned(m, kind, own, L) == \A r \in m.rels : RelOwned(r, kind, own, L)

Homed(m, own) == \A n \in m.nodes : <<own[n], "has", n>> \in m.rels

\* A request touches only Things of the pipeline p.
OfPipeline(x, p, kind, own, L) == (x \in Of(kind, "port") => p \notin L) => own[x] = p

WriteOf(w, p, kind, own, L) ==
  /\ \A x \in w.removed : OfPipeline(x, p, kind, own, L)
  /\ \A r \in w.retracted : own[r[1]] = p
  /\ \A x \in ThingsOf(w.added) : OfPipeline(x, p, kind, own, L)
  /\ \A r \in w.added.rels : own[r[1]] = p /\ RelOwned(r, kind, own, L)
  /\ Homed(w.added, own)

\* A drawing shows Things of one pipeline.
ShownOf(c, shown, editing, kind, own, L) ==
  /\ \A n \in c.nodes : n.id > 0 => own[n.id] = editing
  /\ shown \notin L => /\ \A n \in c.nodes, q \in DOMAIN kind : q \in n.ports => own[q] = shown
                       /\ \A e \in c.edges : e.outPort \in DOMAIN kind => own[e.outPort] = shown

\* A later account of whose each Thing is.
Renames(kind2, kind, own2, own) ==
  \A x \in DOMAIN kind : own2[x] = own[x] \/ (x \in Of(kind, "port") /\ own[x] = NoPipeline)

\* A relationship within a pipeline stays so under a later account.
LEMMA RelsKept ==
  ASSUME NEW kind, NEW kind2, Extends(kind2, kind), DOMAIN kind \subseteq Int, DOMAIN kind2 \subseteq Int,
         NEW own, NEW own2, Owns(kind, own),
         Renames(kind2, kind, own2, own), NEW L, NEW r \in RelsIn(kind), RelOwned(r, kind, own, L)
  PROVE  RelOwned(r, kind2, own2, L) /\ own2[r[1]] = own[r[1]]
<1>1. /\ r[1] \in DOMAIN kind
      /\ r[3] \in DOMAIN kind \union {Service, Success, Fail}
      /\ r[1] \notin Of(kind, "port")
      /\ r[3] \in DOMAIN kind \/ r[3] \in {Service, Success, Fail}
  BY RelParts, KindOf
<1>2. own2[r[1]] = own[r[1]]
  BY <1>1 DEF Renames
<1>3. \A x \in DOMAIN kind : x \in Of(kind2, "port") <=> x \in Of(kind, "port")
  BY OfExtends
<1>4. own[r[1]] # NoPipeline
  BY <1>1 DEF Owns
<1>5. ASSUME r[3] \in DOMAIN kind2, r[3] \in Of(kind2, "port") => own2[r[1]] \notin L, r[3] \in DOMAIN kind
      PROVE  own2[r[3]] = own2[r[1]]
  <2>1. own[r[3]] = own[r[1]]
    BY <1>2, <1>3, <1>5 DEF RelOwned
  <2>2. own2[r[3]] = own[r[3]]
    BY <1>4, <1>5, <2>1 DEF Renames
  <2>3. QED
    BY <1>2, <2>1, <2>2
<1>6. r[3] \in DOMAIN kind2 => r[3] \in DOMAIN kind
  BY <1>1, DrawingAssumption
<1>7. QED
  BY <1>2, <1>5, <1>6 DEF RelOwned

\* A model of Things of pipelines stays one under a later account.
LEMMA ModelKept ==
  ASSUME NEW kind, NEW kind2, Extends(kind2, kind), DOMAIN kind \subseteq Int, DOMAIN kind2 \subseteq Int,
         NEW own, NEW own2, Owns(kind, own), Renames(kind2, kind, own2, own),
         NEW L, NEW m, Fits(m, kind)
  PROVE  /\ RelsOwned(m, kind, own, L) => RelsOwned(m, kind2, own2, L)
         /\ Homed(m, own) => Homed(m, own2)
<1>1. RelsOwned(m, kind, own, L) => RelsOwned(m, kind2, own2, L)
  BY RelsKept DEF RelsOwned, Fits
<1>2. \A n \in m.nodes : own2[n] = own[n]
  BY KindOf DEF Fits, Renames
<1>3. QED
  BY <1>1, <1>2 DEF Homed

\* A Thing of a pipeline is still of it.
LEMMA OfPipelineKept ==
  ASSUME NEW kind, NEW kind2, Extends(kind2, kind),
         NEW own, NEW own2, Renames(kind2, kind, own2, own),
         NEW L, NEW p, p # NoPipeline, NEW x \in DOMAIN kind, OfPipeline(x, p, kind, own, L)
  PROVE  OfPipeline(x, p, kind2, own2, L)
<1>1. x \in Of(kind2, "port") <=> x \in Of(kind, "port")
  BY OfExtends
<1>2. own[x] = p => own2[x] = p
  BY DEF Renames
<1>3. QED
  BY <1>1, <1>2 DEF OfPipeline

\* A request of a pipeline is still one of it.
LEMMA WriteKept ==
  ASSUME NEW kind, NEW kind2, Extends(kind2, kind), DOMAIN kind \subseteq Int, DOMAIN kind2 \subseteq Int,
         NEW own, NEW own2, Owns(kind, own), Renames(kind2, kind, own2, own),
         NEW L, NEW p, p # NoPipeline, NEW w, RequestFits(w, kind), WriteOf(w, p, kind, own, L)
  PROVE  WriteOf(w, p, kind2, own2, L)
<1>1. Fits(w.added, kind)
  BY DEF RequestFits
<1>2. w.removed \subseteq DOMAIN kind /\ ThingsOf(w.added) \subseteq DOMAIN kind
  BY <1>1, KindOf DEF RequestFits, Fits, ThingsOf
<1>3. \A x \in w.removed \union ThingsOf(w.added) : OfPipeline(x, p, kind2, own2, L)
  BY <1>2, OfPipelineKept DEF WriteOf
<1>4. \A r \in w.added.rels : own2[r[1]] = p /\ RelOwned(r, kind2, own2, L)
  BY <1>1, RelsKept DEF WriteOf, Fits
<1>5. \A r \in w.retracted : own2[r[1]] = p
  <2>1. TAKE r \in w.retracted
  <2>2. r[1] \in Of(kind, "wire")
    BY DEF RequestFits, Takens
  <2>3. own2[r[1]] = own[r[1]]
    BY <2>2, KindOf DEF Renames
  <2>4. QED
    BY <2>3 DEF WriteOf
<1>6. Homed(w.added, own2)
  BY <1>1, ModelKept DEF WriteOf
<1>7. QED
  BY <1>3, <1>4, <1>5, <1>6 DEF WriteOf

\* A request of a pipeline leaves a model in which each Thing is still of one.
LEMMA AppliedOwned ==
  ASSUME NEW kind, DOMAIN kind \subseteq Int, NEW own, Owns(kind, own), NEW L, NEW m, Fits(m, kind),
         RelsOwned(m, kind, own, L), Homed(m, own),
         NEW p, NEW w, RequestFits(w, kind), WriteOf(w, p, kind, own, L)
  PROVE  RelsOwned(Applied(m, w), kind, own, L) /\ Homed(Applied(m, w), own)
<1> DEFINE x == Applied(m, w)
<1>1. /\ x.nodes = (m.nodes \ w.removed) \union w.added.nodes
      /\ x.rels = {r \in m.rels : r[1] \notin w.removed /\ r[3] \notin w.removed /\ r \notin w.retracted}
                    \union w.added.rels
  BY AppliedIs
<1> HIDE DEF x
<1>2. RelsOwned(x, kind, own, L)
  BY <1>1 DEF RelsOwned, WriteOf
<1>3. ASSUME NEW n \in m.nodes \ w.removed
      PROVE  <<own[n], "has", n>> \in x.rels
  <2> DEFINE r == <<own[n], "has", n>>
  <2>1. r \in m.rels /\ r[1] = own[n] /\ r[2] = "has" /\ r[3] = n
    BY DEF Homed
  <2> HIDE DEF r
  <2>2. r[3] \in NodesIn(kind) /\ r \in RelsIn(kind)
    BY <2>1 DEF Fits
  <2>3. r[1] \in Of(kind, "pipeline")
    BY <2>1, <2>2, RelParts, KindOf
  <2>4. r[1] \notin w.removed
    BY <2>3, KindOf DEF RequestFits
  <2>5. r \notin w.retracted
    BY <2>1 DEF RequestFits, Takens
  <2>6. r \in x.rels
    BY <1>1, <2>1, <2>4, <2>5
  <2>7. QED
    BY <2>6 DEF r
<1>4. \A n \in w.added.nodes : <<own[n], "has", n>> \in x.rels
  BY <1>1 DEF WriteOf, Homed
<1>5. Homed(x, own)
  BY <1>1, <1>3, <1>4 DEF Homed
<1>6. QED
  BY <1>2, <1>5 DEF x

\* A request that relates a Thing of the pipeline is one of the pipeline.
LEMMA RelatesOwned ==
  ASSUME NEW kind, NEW own, NEW L, NEW p, NEW r, own[r[1]] = p, RelOwned(r, kind, own, L)
  PROVE  WriteOf(Relates(r), p, kind, own, L)
<1> DEFINE w == Relates(r)
<1>1. /\ w.removed = {} /\ w.retracted = {}
      /\ w.added.pipelines = {} /\ w.added.nodes = {} /\ w.added.starts = {}
      /\ w.added.wires = {} /\ w.added.ports = {} /\ w.added.rels = {r}
  BY RelatesIs
<1> HIDE DEF w
<1>2. WriteOf(w, p, kind, own, L)
  BY <1>1 DEF WriteOf, ThingsOf, Homed
<1>3. QED
  BY <1>2 DEF w

\* What is reached from a Thing is of its pipeline.
LEMMA ReachedOwned ==
  ASSUME NEW kind, DOMAIN kind \subseteq Int, NEW own, NEW L, NEW m, Fits(m, kind), RelsOwned(m, kind, own, L),
         NEW s, NEW k, NEW x \in Reached(m, s, k), x \in DOMAIN kind, x \in Of(kind, "port") => own[s] \notin L
  PROVE  own[x] = own[s]
<1> DEFINE r == <<s, k, x>>
<1>1. r \in m.rels /\ r[1] = s /\ r[3] = x
  BY ReachedFits
<1> HIDE DEF r
<1>2. QED
  BY <1>1 DEF RelsOwned, RelOwned

\* Every request of a save that shows nodes of the pipeline it saves is of that pipeline.
LEMMA RequestedOwned ==
  ASSUME NEW k2 \in Nat, NEW kind, DOMAIN kind = 1..k2, NEW own, Owns(kind, own), NEW L,
         NEW m, Fits(m, kind), RelsOwned(m, kind, own, L),
         NEW d, CanvasFits(d, kind, 0), \A n \in d.nodes : n.id > 0,
         NEW p \in Of(kind, "pipeline"), NEW nodes, nodes \subseteq NodesOf(m, p),
         ShownOf(d, p, p, kind, own, L),
         NEW wire, \A e \in d.edges : wire[e] \in Of(kind, "wire") /\ own[wire[e]] = p,
         NEW w \in Requested(d, m, p, nodes, wire)
  PROVE  WriteOf(w, p, kind, own, L)
<1>0. DOMAIN kind \subseteq Int
  OBVIOUS
<1>1. /\ \A n \in d.nodes : NodeFits(n, kind, 0) /\ n.id \in Of(kind, IF n.start THEN "start" ELSE "call")
      /\ \A e \in d.edges : EdgeFits(e, kind, Ids(d))
  BY DEF CanvasFits, NodeFits
<1>2. \A n \in d.nodes : n.id \in NodesIn(kind) /\ n.id \in DOMAIN kind /\ own[n.id] = p
  <2>1. TAKE n \in d.nodes
  <2>2. n.id \in Of(kind, "start") \/ n.id \in Of(kind, "call")
    BY <1>1
  <2>3. QED
    BY <2>2, KindOf DEF NodesIn, ShownOf
<1>2a. \A i \in Ids(d) : i \in NodesIn(kind) /\ i \in DOMAIN kind /\ own[i] = p
  BY <1>2 DEF Ids
<1>3. own[p] = p
  BY DEF Owns
<1>4. \A n \in nodes : n \in m.nodes /\ n \in NodesIn(kind) /\ n \in DOMAIN kind /\ own[n] = p
  <2>1. TAKE n \in nodes
  <2>2. n \in m.nodes /\ n \in Reached(m, p, "has")
    BY DEF NodesOf
  <2>3. n \in NodesIn(kind) /\ n \in DOMAIN kind /\ n \notin Of(kind, "port")
    BY <2>2, KindOf DEF Fits
  <2>4. own[n] = own[p]
    BY <1>0, <2>2, <2>3, ReachedOwned
  <2>5. QED
    BY <1>3, <2>2, <2>3, <2>4
<1>5. \A k \in PersistedWires(m, nodes) : k[2] \in Of(kind, "wire") /\ k[2] \in DOMAIN kind /\ own[k[2]] = p
  <2>1. TAKE k \in PersistedWires(m, nodes)
  <2>2. k[1] \in nodes /\ k[2] \in m.wires /\ k[2] \in Reached(m, k[1], "has")
    BY KnownIn DEF outgoingWires
  <2>3. k[2] \in Of(kind, "wire") /\ k[2] \in DOMAIN kind /\ k[2] \notin Of(kind, "port")
    BY <2>2, KindOf DEF Fits
  <2>4. own[k[2]] = own[k[1]]
    BY <1>0, <2>2, <2>3, ReachedOwned
  <2>5. QED
    BY <1>4, <2>2, <2>3, <2>4
<1>6. CASE w = Fragment(d, p)
  <2>1. /\ w.removed = {} /\ w.retracted = {}
        /\ w.added.pipelines = {p} /\ w.added.nodes = Ids(d)
        /\ w.added.wires = {}
        /\ w.added.ports = UNION {n.ports : n \in Started(d)}
        /\ w.added.rels = {<<p, "has", n.id>> : n \in d.nodes}
                             \union (UNION {{<<n.id, "has", q>> : q \in n.ports} : n \in Started(d)})
    BY <1>6, FragmentIs
  <2>2. \A n \in Started(d) : n \in d.nodes /\ n.ports \subseteq Of(kind, "port")
    BY <1>1 DEF Started, NodeFits
  <2>3. ASSUME NEW n \in Started(d), NEW q \in n.ports
        PROVE  q \in DOMAIN kind /\ q \in Of(kind, "port") /\ (p \notin L => own[q] = p)
    BY <2>2, KindOf DEF ShownOf
  <2>4. \A x \in ThingsOf(w.added) : OfPipeline(x, p, kind, own, L)
    <3>1. TAKE x \in ThingsOf(w.added)
    <3>2. x = p \/ x \in Ids(d) \/ \E n \in Started(d) : x \in n.ports
      BY <2>1 DEF ThingsOf
    <3>3. QED
      BY <1>2a, <1>3, <2>3, <3>2 DEF OfPipeline
  <2>5. ASSUME NEW r \in w.added.rels
        PROVE  own[r[1]] = p /\ RelOwned(r, kind, own, L)
    <3>1. CASE \E n \in d.nodes : r = <<p, "has", n.id>>
      BY <1>2, <1>3, <3>1 DEF RelOwned
    <3>2. CASE \E n \in Started(d) : \E q \in n.ports : r = <<n.id, "has", q>>
      <4>1. PICK n \in Started(d) : \E q \in n.ports : r = <<n.id, "has", q>>
        BY <3>2
      <4>2. PICK q \in n.ports : r = <<n.id, "has", q>>
        BY <4>1
      <4>3. r[1] = n.id /\ r[3] = q
        BY <4>2
      <4>4. own[n.id] = p
        BY <1>2, <2>2
      <4>5. QED
        BY <2>3, <4>3, <4>4 DEF RelOwned
    <3>3. QED
      BY <2>1, <3>1, <3>2
  <2>6. Homed(w.added, own)
    <3>1. ASSUME NEW i \in w.added.nodes
          PROVE  <<own[i], "has", i>> \in w.added.rels
      <4>1. PICK n \in d.nodes : i = n.id
        BY <2>1 DEF Ids
      <4>2. own[i] = p
        BY <1>2, <4>1
      <4>3. <<p, "has", i>> \in w.added.rels
        BY <2>1, <4>1
      <4>4. QED
        BY <4>2, <4>3
    <3>2. QED
      BY <3>1 DEF Homed
  <2>7. QED
    BY <2>1, <2>4, <2>5, <2>6 DEF WriteOf
<1>7. ASSUME NEW e \in d.edges, w \in Pieces(wire[e], e)
      PROVE  WriteOf(w, p, kind, own, L)
  <2> DEFINE x == wire[e]
  <2>0. x \in Of(kind, "wire") /\ w \in Pieces(x, e) /\ own[x] = p
    BY <1>7
  <2> HIDE DEF x
  <2>0a. x \in DOMAIN kind /\ x \notin Of(kind, "port")
    BY <2>0, KindOf
  <2>1. e.source \in Ids(d) /\ e.target \in Ids(d) /\ e.inPort = Service /\ e.taken \subseteq {Success, Fail}
    BY <1>1 DEF EdgeFits
  <2>1a. Service \notin DOMAIN kind /\ Success \notin DOMAIN kind /\ Fail \notin DOMAIN kind
    BY DrawingAssumption
  <2>2. CASE w = Adds([Nothing EXCEPT !.wires = {x}])
    <3>1. /\ w.removed = {} /\ w.retracted = {}
          /\ w.added.pipelines = {} /\ w.added.nodes = {} /\ w.added.starts = {}
          /\ w.added.wires = {x} /\ w.added.ports = {} /\ w.added.rels = {}
      BY <2>2, WireAddIs
    <3>2. QED
      BY <2>0, <3>1 DEF WriteOf, ThingsOf, Homed, OfPipeline
  <2>3. ASSUME NEW r \in {<<e.source, "has", x>>, <<x, "wire", e.target>>, <<x, "in", e.outPort>>, <<x, "out", e.inPort>>}
                       \union {<<x, "taken", t>> : t \in e.taken}
        PROVE  own[r[1]] = p /\ RelOwned(r, kind, own, L)
    <3>1. CASE r = <<e.source, "has", x>>
      BY <1>2a, <2>0, <2>1, <3>1 DEF RelOwned
    <3>2. CASE r = <<x, "wire", e.target>>
      BY <1>2a, <2>0, <2>1, <3>2 DEF RelOwned
    <3>3. CASE r = <<x, "in", e.outPort>>
      <4>1. r[1] = x /\ r[3] = e.outPort
        BY <3>3
      <4>2. e.outPort \in DOMAIN kind /\ p \notin L => own[e.outPort] = p
        BY DEF ShownOf
      <4>3. e.outPort \in DOMAIN kind => e.outPort \in Of(kind, "port")
        <5>1. e.outPort \in Of(kind, "port") \union {Service}
          BY <1>1 DEF EdgeFits
        <5>2. QED
          BY <2>1a, <5>1
      <4>4. QED
        BY <2>0, <4>1, <4>2, <4>3 DEF RelOwned
    <3>4. CASE r = <<x, "out", e.inPort>>
      BY <2>0, <2>1, <2>1a, <3>4 DEF RelOwned
    <3>5. CASE \E t \in e.taken : r = <<x, "taken", t>>
      <4>1. PICK t \in e.taken : r = <<x, "taken", t>>
        BY <3>5
      <4>2. r[1] = x /\ r[3] = t /\ t \notin DOMAIN kind
        BY <2>1, <2>1a, <4>1
      <4>3. QED
        BY <2>0, <4>2 DEF RelOwned
    <3>6. QED
      BY <3>1, <3>2, <3>3, <3>4, <3>5
  <2>4. QED
    BY <2>0, <2>2, <2>3, PiecesAre, RelatesOwned
<1>8. ASSUME NEW e \in d.edges, NEW k \in Known(m, PersistedWires(m, nodes), e), w \in Changes(m, k[2], e)
      PROVE  WriteOf(w, p, kind, own, L)
  <2> DEFINE x == k[2]
  <2>1. own[x] = p /\ w \in Changes(m, x, e)
    BY <1>5, <1>8 DEF Known
  <2> HIDE DEF x
  <2>2. e.taken \subseteq {Success, Fail} /\ Reached(m, x, "taken") \subseteq {Success, Fail}
    BY <1>0, <1>1, ReachedFits DEF EdgeFits
  <2>3. Success \notin DOMAIN kind /\ Fail \notin DOMAIN kind
    BY DrawingAssumption
  <2>4. ASSUME NEW t \in {Success, Fail}
        PROVE  WriteOf(Relates(<<x, "taken", t>>), p, kind, own, L) /\ WriteOf(Retracts(<<x, "taken", t>>), p, kind, own, L)
    <3> DEFINE r == <<x, "taken", t>>
    <3>1. r[1] = x /\ r[3] = t /\ own[r[1]] = p
      BY <2>1
    <3> HIDE DEF r
    <3>2. RelOwned(r, kind, own, L)
      BY <2>3, <3>1 DEF RelOwned
    <3>3. WriteOf(Relates(r), p, kind, own, L)
      BY <3>1, <3>2, RelatesOwned
    <3> DEFINE y == Retracts(r)
    <3>4. /\ y.removed = {} /\ y.retracted = {r}
          /\ y.added.pipelines = {} /\ y.added.nodes = {} /\ y.added.starts = {}
          /\ y.added.wires = {} /\ y.added.ports = {} /\ y.added.rels = {}
      BY RetractsIs
    <3> HIDE DEF y
    <3>5. WriteOf(y, p, kind, own, L)
      BY <3>1, <3>4 DEF WriteOf, ThingsOf, Homed
    <3>6. QED
      BY <3>3, <3>5 DEF y, r
  <2>6. CASE \E t \in e.taken \ Reached(m, x, "taken") : w = Relates(<<x, "taken", t>>)
    <3>1. PICK t \in e.taken : w = Relates(<<x, "taken", t>>)
      BY <2>6
    <3>2. t \in {Success, Fail}
      BY <2>2
    <3>3. QED
      BY <2>4, <3>1, <3>2, Zenon
  <2>7. CASE \E t \in Reached(m, x, "taken") \ e.taken : w = Retracts(<<x, "taken", t>>)
    <3>1. PICK t \in Reached(m, x, "taken") : w = Retracts(<<x, "taken", t>>)
      BY <2>7
    <3>2. t \in {Success, Fail}
      BY <2>2
    <3>3. QED
      BY <2>4, <3>1, <3>2, Zenon
  <2>8. \/ \E t \in e.taken \ Reached(m, x, "taken") : w = Relates(<<x, "taken", t>>)
        \/ \E t \in Reached(m, x, "taken") \ e.taken : w = Retracts(<<x, "taken", t>>)
    BY <2>1 DEF Changes
  <2>9. QED
    BY <2>6, <2>7, <2>8
<1>9. ASSUME NEW x \in Undesired(d, m, PersistedWires(m, nodes)) \union Goes(d, m, nodes), w = Removes(x)
      PROVE  WriteOf(w, p, kind, own, L)
  <2>1. OfPipeline(x, p, kind, own, L)
    <3>1. CASE x \in Undesired(d, m, PersistedWires(m, nodes))
      <4>1. PICK k \in PersistedWires(m, nodes) : x = k[2]
        BY <3>1 DEF Undesired
      <4>2. QED
        BY <1>5, <4>1 DEF OfPipeline
    <3>2. CASE x \in GoneNodes(d, nodes)
      BY <1>4, <3>2 DEF GoneNodes, OfPipeline
    <3>3. CASE \E n \in GoneNodes(d, nodes) : x \in OwnPorts(m, n)
      <4>1. PICK n \in nodes : x \in Reached(m, n, "has") /\ x \in m.ports
        BY <3>3 DEF GoneNodes, OwnPorts
      <4>2. x \in Of(kind, "port") /\ x \in DOMAIN kind
        BY <4>1, KindOf DEF Fits
      <4>3. own[n] = p
        BY <1>4
      <4>4. p \notin L => own[x] = own[n]
        BY <1>0, <4>1, <4>2, <4>3, ReachedOwned
      <4>5. QED
        BY <4>2, <4>3, <4>4 DEF OfPipeline
    <3>4. QED
      BY <3>1, <3>2, <3>3 DEF Goes
  <2>2. /\ w.removed = {x} /\ w.retracted = {}
        /\ w.added.pipelines = {} /\ w.added.nodes = {} /\ w.added.starts = {}
        /\ w.added.wires = {} /\ w.added.ports = {} /\ w.added.rels = {}
    BY <1>9, RemovesIs
  <2>3. QED
    BY <2>1, <2>2 DEF WriteOf, ThingsOf, Homed
<1>10. QED
  BY <1>6, <1>7, <1>8, <1>9, RequestedIs

-----------------------------------------------------------------------------
\* Each Thing is of one pipeline, until a save is sent of what was opened during another.

\* The pipeline whose ports the page shows: the one that is being written, where one is.
Shown == IF busy THEN save.pipeline ELSE editingPipelineId

Owned(kind, own) ==
  /\ Owns(kind, own)
  /\ left \subseteq Of(kind, "pipeline")
  /\ RelsOwned(model, kind, own, left) /\ Homed(model, own)
  /\ RelsOwned(heard, kind, own, left) /\ Homed(heard, own)
  /\ \A w \in Range(todo) : WriteOf(w, save.pipeline, kind, own, left)
  /\ busy /\ save.captured = NoPipeline => save.pipeline \notin left
  /\ ~crossed => /\ busy => save.captured = editingPipelineId
                 /\ \A c \in Drawings : ShownOf(c, Shown, editingPipelineId, kind, own, left)

\* What a drawing shows of a pipeline it still shows under a later account.
LEMMA ShownKept ==
  ASSUME NEW kind, NEW kind2, Extends(kind2, kind), DOMAIN kind \subseteq Int, DOMAIN kind2 \subseteq Int,
         NEW placed, NEW c, CanvasFits(c, kind, placed),
         NEW own, NEW own2, NEW shown, NEW shown2, NEW L, NEW L2, NEW editing,
         \A x \in DOMAIN kind : IF x \in Of(kind, "port") THEN own[x] = shown => own2[x] = shown2
                                ELSE own2[x] = own[x],
         shown2 \notin L2 => shown \notin L,
         ShownOf(c, shown, editing, kind, own, L)
  PROVE  ShownOf(c, shown2, editing, kind2, own2, L2)
<1>1. /\ \A n \in c.nodes : NodeFits(n, kind, placed)
      /\ \A e \in c.edges : EdgeFits(e, kind, Ids(c))
  BY DEF CanvasFits
<1>2. ASSUME NEW n \in c.nodes, n.id > 0
      PROVE  own2[n.id] = editing
  <2>1. n.id \in Of(kind, IF n.start THEN "start" ELSE "call")
    BY <1>1, <1>2 DEF NodeFits
  <2>2. n.id \in DOMAIN kind /\ n.id \notin Of(kind, "port")
    <3>1. n.id \in Of(kind, "start") \/ n.id \in Of(kind, "call")
      BY <2>1
    <3>2. QED
      BY <3>1, KindOf
  <2>3. QED
    BY <1>2, <2>2 DEF ShownOf
<1>3. ASSUME NEW q, q \in Of(kind, "port") \union {Service}, q \in DOMAIN kind2
      PROVE  q \in DOMAIN kind /\ q \in Of(kind, "port")
  BY <1>3, DrawingAssumption, KindOf
<1>4. ASSUME shown2 \notin L2, NEW n \in c.nodes, NEW q \in DOMAIN kind2, q \in n.ports
      PROVE  own2[q] = shown2
  <2>1. q \in Of(kind, "port") \union {Service}
    BY <1>1, <1>4 DEF NodeFits
  <2>2. q \in DOMAIN kind /\ q \in Of(kind, "port")
    BY <1>3, <2>1
  <2>3. own[q] = shown
    BY <1>4, <2>2 DEF ShownOf
  <2>4. QED
    BY <2>2, <2>3
<1>5. ASSUME shown2 \notin L2, NEW e \in c.edges, e.outPort \in DOMAIN kind2
      PROVE  own2[e.outPort] = shown2
  <2>1. e.outPort \in Of(kind, "port") \union {Service}
    BY <1>1 DEF EdgeFits
  <2>2. e.outPort \in DOMAIN kind /\ e.outPort \in Of(kind, "port")
    BY <1>3, <1>5, <2>1
  <2>3. own[e.outPort] = shown
    BY <1>5, <2>2 DEF ShownOf
  <2>4. QED
    BY <2>2, <2>3
<1>6. QED
  BY <1>2, <1>4, <1>5 DEF ShownOf

\* What is loaded is of the pipeline it is loaded from.
LEMMA LoadShown ==
  ASSUME NEW k \in Nat, NEW kind, DOMAIN kind = 1..k, NEW own, Owns(kind, own), NEW L, NEW m, Fits(m, kind),
         RelsOwned(m, kind, own, L), NEW p \in Of(kind, "pipeline")
  PROVE  ShownOf(loadPipeline(m, p), p, p, kind, own, L)
<1> DEFINE c == loadPipeline(m, p)
           ns == {[id |-> n, start |-> n \in m.starts, ports |-> PortsOf(m, n)] : n \in NodesOf(m, p)}
           es == {e \in UNION {{WireRead(m, n, w) : w \in outgoingWires(m, n)} : n \in NodesOf(m, p)} :
                    e.target \in NodesOf(m, p)}
<1>0. DOMAIN kind \subseteq Int /\ own[p] = p
  BY DEF Owns
<1>1. c.nodes = ns /\ c.edges = es
  BY DEF loadPipeline
<1>2. \A n \in NodesOf(m, p) : own[n] = p /\ n \in m.nodes
  <2>1. TAKE n \in NodesOf(m, p)
  <2>2. n \in m.nodes /\ n \in Reached(m, p, "has")
    BY DEF NodesOf
  <2>3. n \in DOMAIN kind /\ n \notin Of(kind, "port")
    BY <2>2, KindOf DEF Fits
  <2>4. QED
    BY <1>0, <2>2, <2>3, ReachedOwned
<1>3. Service \notin DOMAIN kind
  BY DrawingAssumption
<1>4. ASSUME p \notin L, NEW n \in NodesOf(m, p), NEW q \in DOMAIN kind, q \in PortsOf(m, n)
      PROVE  own[q] = p
  <2>1. q \in Reached(m, n, "has") /\ q \in m.ports
    BY <1>3, <1>4 DEF PortsOf
  <2>2. q \in Of(kind, "port")
    BY <2>1 DEF Fits
  <2>3. own[n] = p
    BY <1>2
  <2>4. own[q] = own[n]
    BY <1>0, <1>4, <2>1, <2>3, ReachedOwned
  <2>5. QED
    BY <2>3, <2>4
<1>5. ASSUME p \notin L, NEW n \in NodesOf(m, p), NEW w \in outgoingWires(m, n),
             WireRead(m, n, w).outPort \in DOMAIN kind
      PROVE  own[WireRead(m, n, w).outPort] = p
  <2> DEFINE q == The(Reached(m, w, "in"))
  <2>1. WireRead(m, n, w).outPort = q
    BY DEF WireRead
  <2>2. q \in Reached(m, w, "in")
    BY DEF outgoingWires, The
  <2> HIDE DEF q
  <2>3. w \in Reached(m, n, "has") /\ w \in m.wires
    BY DEF outgoingWires
  <2>4. w \in DOMAIN kind /\ w \notin Of(kind, "port")
    BY <2>3, KindOf DEF Fits
  <2>5. own[w] = p
    BY <1>0, <1>2, <2>3, <2>4, ReachedOwned
  <2>6. own[q] = own[w]
    BY <1>0, <1>5, <2>1, <2>2, <2>5, ReachedOwned
  <2>7. QED
    BY <2>1, <2>5, <2>6
<1>6. \A x \in ns : x.id \in NodesOf(m, p) /\ x.ports = PortsOf(m, x.id)
  OBVIOUS
<1>7. \A e \in es : \E n \in NodesOf(m, p) : \E w \in outgoingWires(m, n) : e = WireRead(m, n, w)
  OBVIOUS
<1> HIDE DEF ns, es, c
<1>8. \A x \in c.nodes : own[x.id] = p
  BY <1>1, <1>2, <1>6
<1>9. p \notin L => \A x \in c.nodes, q \in DOMAIN kind : q \in x.ports => own[q] = p
  BY <1>1, <1>4, <1>6
<1>10. p \notin L => \A e \in c.edges : e.outPort \in DOMAIN kind => own[e.outPort] = p
  BY <1>1, <1>5, <1>7
<1>11. ShownOf(c, p, p, kind, own, L)
  BY <1>8, <1>9, <1>10 DEF ShownOf
<1>12. QED
  BY <1>11 DEF c

\* The empty drawing shows Things of any pipeline.
LEMMA EmptyShown ==
  ASSUME NEW shown, NEW editing, NEW kind, NEW own, NEW L
  PROVE  ShownOf(Empty, shown, editing, kind, own, L)
<1>1. Empty.nodes = {} /\ Empty.edges = {}
  BY DEF Empty
<1>2. QED
  BY <1>1 DEF ShownOf

\* A drawing of some of the nodes of another, with wires from their ports, shows what the other shows.
LEMMA PartShown ==
  ASSUME NEW c, NEW d, NEW shown, NEW editing, NEW kind, NEW own, NEW L, ShownOf(c, shown, editing, kind, own, L),
         d.nodes \subseteq c.nodes,
         \A e \in d.edges : \/ \E f \in c.edges : e.outPort = f.outPort
                            \/ \E n \in c.nodes : e.outPort \in n.ports
  PROVE  ShownOf(d, shown, editing, kind, own, L)
BY DEF ShownOf

\* Each drawing is still of the kinds.
LEMMA DrawingsFit ==
  ASSUME NEW kind, Kinded(kind), NEW c \in Drawings
  PROVE  CanvasFits(c, kind, nodeSequence)
BY DEF Drawings, Kinded

\* An edit whose drawing shows the pipeline keeps each Thing of one.
LEMMA EditedOwned ==
  ASSUME NEW kind, Kinded(kind), NEW own, Owned(kind, own),
         NEW c, NEW records, Edited(c, records) \/ EditedUnmarked(c, records),
         NEW kind2, DOMAIN kind2 \subseteq Int, Extends(kind2, kind),
         NEW own2, Owns(kind2, own2), \A x \in DOMAIN kind : own2[x] = own[x],
         ~crossed => ShownOf(c, Shown, editingPipelineId, kind2, own2, left)
  PROVE  Owned(kind2, own2)'
<1>1. /\ canvas' = c
      /\ Range(past') \subseteq Range(past) \union {canvas}
      /\ baseline' = baseline /\ editingPipelineId' = editingPipelineId
      /\ busy' = busy /\ save' = save /\ todo' = todo /\ model' = model /\ heard' = heard
      /\ crossed' = crossed /\ mingled' = mingled /\ left' = left
  BY OnceIs DEF Kinded
<1>2. DOMAIN kind \subseteq Int
  BY DEF Kinded
<1>3. Owns(kind, own) /\ Renames(kind2, kind, own2, own)
  BY DEF Owned, Renames
<1>4. Fits(model, kind) /\ Fits(heard, kind) /\ \A w \in Range(todo) : RequestFits(w, kind)
  BY DEF Kinded
<1>5. /\ RelsOwned(model', kind2, own2, left') /\ Homed(model', own2)
      /\ RelsOwned(heard', kind2, own2, left') /\ Homed(heard', own2)
  BY <1>1, <1>2, <1>3, <1>4, ModelKept DEF Owned
<1>6. ASSUME NEW w \in Range(todo')
      PROVE  WriteOf(w, save'.pipeline, kind2, own2, left')
  <2>1. w \in Range(todo)
    BY <1>1
  <2>2. save.pipeline # NoPipeline
    <3>1. todo # <<>>
      BY <2>1 DEF Range
    <3>2. QED
      BY <3>1 DEF Kinded
  <2>3. WriteOf(w, save.pipeline, kind, own, left)
    BY <2>1 DEF Owned
  <2>4. WriteOf(w, save.pipeline, kind2, own2, left)
    BY <1>2, <1>3, <1>4, <2>1, <2>2, <2>3, WriteKept
  <2>5. QED
    BY <1>1, <2>4
<1>7. Shown' = Shown
  BY <1>1 DEF Shown
<1>8. ASSUME ~crossed, NEW x \in Drawings
      PROVE  ShownOf(x, Shown, editingPipelineId, kind2, own2, left)
  <2>1. ShownOf(x, Shown, editingPipelineId, kind, own, left) /\ CanvasFits(x, kind, nodeSequence)
    BY <1>8, DrawingsFit DEF Owned
  <2>2. QED
    BY <1>2, <2>1, ShownKept
<1>9. \A x \in Drawings' : x = c \/ x \in Drawings
  <2>1. \A x \in Drawings' : x \in {canvas', baseline', save'.attempt} \/ x \in Range(past')
    BY DEF Drawings
  <2>2. QED
    BY <1>1, <2>1 DEF Drawings
<1>10. left' \subseteq Of(kind2, "pipeline")
  BY <1>1, OfExtends DEF Owned
<1>11. ~crossed' => /\ busy' => save'.captured = editingPipelineId'
                    /\ \A x \in Drawings' : ShownOf(x, Shown', editingPipelineId', kind2, own2, left')
  BY <1>1, <1>7, <1>8, <1>9 DEF Owned
<1>12. busy' /\ save'.captured = NoPipeline => save'.pipeline \notin left'
  BY <1>1 DEF Owned
<1>13. QED
  BY <1>5, <1>6, <1>10, <1>11, <1>12 DEF Owned

\* So does an edit that shows no node and no port that was not there.
LEMMA PartOwned ==
  ASSUME NEW kind, Kinded(kind), NEW own, Owned(kind, own),
         NEW c, NEW records, Edited(c, records) \/ EditedUnmarked(c, records),
         c.nodes \subseteq canvas.nodes,
         \A e \in c.edges : \/ \E f \in canvas.edges : e.outPort = f.outPort
                            \/ \E n \in canvas.nodes : e.outPort \in n.ports
  PROVE  Owned(kind, own)'
<1>1. DOMAIN kind \subseteq Int
  BY DEF Kinded
<1>2. ~crossed => ShownOf(c, Shown, editingPipelineId, kind, own, left)
  <2>1. canvas \in Drawings
    BY DEF Drawings
  <2>2. ~crossed => ShownOf(canvas, Shown, editingPipelineId, kind, own, left)
    BY <2>1 DEF Owned
  <2>3. QED
    BY <2>2, PartShown
<1>3. Owns(kind, own)
  BY DEF Owned
<1>4. QED
  BY <1>1, <1>2, <1>3, SameKinds, EditedOwned

\* Drawing a wire keeps each Thing of one pipeline.
LEMMA ConnectOwned ==
  ASSUME NEW kind, Kinded(kind), NEW own, Owned(kind, own), onConnect
  PROVE  Owned(kind, own)'
<1>1. PICK s \in canvas.nodes, t \in canvas.nodes : \E o \in outPorts(s), i \in inPorts(t) :
       LET e == [source |-> s.id, outPort |-> o, target |-> t.id, inPort |-> i, taken |-> {}]
       IN /\ \A d \in canvas.edges : wireKey(d) # wireKey(e)
          /\ Edited([canvas EXCEPT !.edges = @ \union {e}], 1)
  BY DEF onConnect
<1>2. PICK o \in outPorts(s), i \in inPorts(t) :
       LET e == [source |-> s.id, outPort |-> o, target |-> t.id, inPort |-> i, taken |-> {}]
       IN /\ \A d \in canvas.edges : wireKey(d) # wireKey(e)
          /\ Edited([canvas EXCEPT !.edges = @ \union {e}], 1)
  BY <1>1
<1> DEFINE e == [source |-> s.id, outPort |-> o, target |-> t.id, inPort |-> i, taken |-> {}]
<1>3. Edited([canvas EXCEPT !.edges = canvas.edges \union {e}], 1)
  BY <1>2
<1>4. e.outPort \in s.ports
  BY <1>2 DEF outPorts
<1> HIDE DEF e
<1> DEFINE es == canvas.edges \union {e}
           c == [canvas EXCEPT !.edges = es]
<1>5. Edited(c, 1)
  BY <1>3
<1>6. \A x \in es : \/ \E f \in canvas.edges : x.outPort = f.outPort
                    \/ \E n \in canvas.nodes : x.outPort \in n.ports
  BY <1>4
<1> HIDE DEF es
<1>7. canvas = [nodes |-> canvas.nodes, edges |-> canvas.edges]
  BY DEF Kinded, CanvasFits
<1>8. c.nodes = canvas.nodes /\ c.edges = es
  BY <1>7
<1> HIDE DEF c
<1>9. QED
  BY <1>5, <1>6, <1>8, PartOwned

\* Marking a wire keeps each Thing of one pipeline.
LEMMA TakenOwned ==
  ASSUME NEW kind, Kinded(kind), NEW own, Owned(kind, own), setEdgeTakenOn
  PROVE  Owned(kind, own)'
<1>1. PICK e \in canvas.edges, taken \in {{Success}, {Fail}} :
        Edited([canvas EXCEPT !.edges = (canvas.edges \ {e}) \union {[e EXCEPT !.taken = taken]}], 1)
  BY DEF setEdgeTakenOn
<1> DEFINE f == [e EXCEPT !.taken = taken]
<1>2. f.outPort = e.outPort
  <2>1. EdgeFits(e, kind, Ids(canvas))
    BY DEF Kinded, CanvasFits
  <2>2. e = [source |-> e.source, outPort |-> e.outPort, target |-> e.target, inPort |-> e.inPort, taken |-> e.taken]
    BY <2>1 DEF EdgeFits
  <2>3. QED
    BY <2>2
<1> HIDE DEF f
<1> DEFINE es == (canvas.edges \ {e}) \union {f}
           c == [canvas EXCEPT !.edges = es]
<1>3. Edited(c, 1)
  BY <1>1 DEF f
<1>4. \A x \in es : \E g \in canvas.edges : x.outPort = g.outPort
  BY <1>2
<1> HIDE DEF es
<1>5. canvas = [nodes |-> canvas.nodes, edges |-> canvas.edges]
  BY DEF Kinded, CanvasFits
<1>6. c.nodes = canvas.nodes /\ c.edges = es
  BY <1>5
<1> HIDE DEF c
<1>7. QED
  BY <1>3, <1>4, <1>6, PartOwned

\* Deleting wires keeps each Thing of one pipeline.
LEMMA EdgesDeleteOwned ==
  ASSUME NEW kind, Kinded(kind), NEW own, Owned(kind, own), onEdgesDelete
  PROVE  Owned(kind, own)'
<1>1. PICK e \in canvas.edges : Edited([canvas EXCEPT !.edges = canvas.edges \ {e}], 1)
  BY DEF onEdgesDelete
<1> DEFINE es == canvas.edges \ {e}
           c == [canvas EXCEPT !.edges = es]
<1>2. Edited(c, 1)
  BY <1>1
<1>3. es \subseteq canvas.edges
  OBVIOUS
<1> HIDE DEF es
<1>4. canvas = [nodes |-> canvas.nodes, edges |-> canvas.edges]
  BY DEF Kinded, CanvasFits
<1>5. c.nodes = canvas.nodes /\ c.edges = es
  BY <1>4
<1> HIDE DEF c
<1>6. QED
  BY <1>2, <1>3, <1>5, PartOwned

\* Deleting nodes keeps each Thing of one pipeline.
LEMMA NodesDeleteOwned ==
  ASSUME NEW kind, Kinded(kind), NEW own, Owned(kind, own), onNodesDelete
  PROVE  Owned(kind, own)'
<1>1. PICK n \in canvas.nodes :
       LET its == {e \in canvas.edges : n.id \in {e.source, e.target}}
       IN Edited([nodes |-> canvas.nodes \ {n}, edges |-> canvas.edges \ its],
                 IF its = {} THEN 1 ELSE 2)
  BY DEF onNodesDelete
<1> DEFINE its == {e \in canvas.edges : n.id \in {e.source, e.target}}
           ns == canvas.nodes \ {n}
           es == canvas.edges \ its
           c == [nodes |-> ns, edges |-> es]
           r == IF its = {} THEN 1 ELSE 2
<1>2. Edited(c, r)
  BY <1>1
<1>3. ns \subseteq canvas.nodes /\ es \subseteq canvas.edges
  OBVIOUS
<1> HIDE DEF ns, es, r
<1>4. c.nodes = ns /\ c.edges = es
  OBVIOUS
<1> HIDE DEF c
<1>5. QED
  BY <1>2, <1>3, <1>4, PartOwned

\* The start of a drag keeps each Thing of one pipeline.
LEMMA DragOwned ==
  ASSUME NEW kind, Kinded(kind), NEW own, Owned(kind, own), onNodeDragStart
  PROVE  Owned(kind, own)'
<1>1. EditedUnmarked(canvas, 1)
  BY DEF onNodeDragStart
<1>2. QED
  BY <1>1, PartOwned

\* The port placed with a start is of the pipeline the page shows.
PlaceOwn(own) == [x \in 1..(minted + 1) |-> IF x <= minted THEN own[x] ELSE Shown]

\* Placing a node keeps each Thing of one pipeline.
LEMMA PlaceOwned ==
  ASSUME NEW kind, Kinded(kind), NEW own, Owned(kind, own), NEW start \in BOOLEAN, place(start),
         NEW kind2, kind2 = IF start THEN PlaceKind(kind) ELSE kind,
         NEW own2, own2 = IF start THEN PlaceOwn(own) ELSE own
  PROVE  Owned(kind2, own2)'
<1>1. /\ minted' \in Nat /\ minted <= minted' /\ kind2 \in [1..minted' -> Kinds] /\ Extends(kind2, kind)
      /\ start => minted' = minted + 1 /\ kind2[minted + 1] = "port"
      /\ NodeFits(Placed(start), kind2, nodeSequence')
  BY PlaceFits
<1>2. PICK c : /\ c = [nodes |-> canvas.nodes \union {Placed(start)}, edges |-> canvas.edges]
               /\ Edited(c, 1)
  BY PlaceFits
<1>3. DOMAIN kind2 \subseteq Int /\ DOMAIN kind \subseteq Int /\ DOMAIN kind = 1..minted /\ minted \in Nat
  BY <1>1 DEF Kinded
<1>4. Shown \in Of(kind, "pipeline") \union {NoPipeline}
  BY DEF Shown, Kinded
<1>5. Owns(kind, own)
  BY DEF Owned
<1>6. Owns(kind2, own2) /\ \A x \in DOMAIN kind : own2[x] = own[x]
  <2>1. CASE ~start
    BY <1>5, <2>1
  <2>2. CASE start
    <3>1. own2 = [x \in 1..(minted + 1) |-> IF x <= minted THEN own[x] ELSE Shown] /\ DOMAIN kind2 = 1..(minted + 1)
      BY <1>1, <2>2 DEF PlaceOwn
    <3>2. \A x \in 1..minted : x \in 1..(minted + 1) /\ x <= minted
      BY <1>3
    <3>3. \A x \in 1..(minted + 1) : x \in 1..minted \/ (x = minted + 1 /\ ~(x <= minted))
      BY <1>3
    <3>4. \A x \in DOMAIN kind : own2[x] = own[x]
      BY <1>3, <3>1, <3>2
    <3>5. own2[minted + 1] = Shown
      BY <1>3, <3>1, <3>3
    <3>6. minted + 1 \in Of(kind2, "port") /\ minted + 1 \notin DOMAIN kind
      BY <1>1, <1>3, <2>2, <3>1 DEF Of
    <3>7. \A p \in Of(kind2, "pipeline") : p \in Of(kind, "pipeline")
      <4>1. TAKE p \in Of(kind2, "pipeline")
      <4>2. p \in 1..(minted + 1) /\ p # minted + 1
        BY <3>1, <3>6, KindOf
      <4>3. p \in DOMAIN kind
        BY <1>3, <3>3, <4>2
      <4>4. QED
        BY <1>1, <4>3, OfExtends
    <3>8. \A p \in Of(kind2, "pipeline") : own2[p] = p
      BY <1>5, <3>4, <3>7, KindOf DEF Owns
    <3>9. \A k : Of(kind, k) \subseteq Of(kind2, k)
      BY <1>1, OfExtends
    <3>10. \A x \in 1..(minted + 1) : own2[x] \in Of(kind2, "pipeline") \union {NoPipeline}
      BY <1>3, <1>4, <1>5, <3>3, <3>4, <3>5, <3>9 DEF Owns
    <3>11. own2 \in [DOMAIN kind2 -> Of(kind2, "pipeline") \union {NoPipeline}]
      BY <3>1, <3>10
    <3>12. \A x \in DOMAIN kind2 : own2[x] = NoPipeline => x \in Of(kind2, "port")
      BY <1>3, <1>5, <3>1, <3>3, <3>4, <3>6, <3>9 DEF Owns
    <3>13. QED
      BY <3>4, <3>8, <3>11, <3>12 DEF Owns
  <2>3. QED
    BY <2>1, <2>2
<1>7. ASSUME ~crossed
      PROVE  ShownOf(c, Shown, editingPipelineId, kind2, own2, left)
  <2>1. canvas \in Drawings /\ CanvasFits(canvas, kind, nodeSequence)
    BY DEF Drawings, Kinded
  <2>2. ShownOf(canvas, Shown, editingPipelineId, kind, own, left)
    BY <1>7, <2>1 DEF Owned
  <2>3. ShownOf(canvas, Shown, editingPipelineId, kind2, own2, left)
    BY <1>1, <1>3, <1>6, <2>1, <2>2, ShownKept
  <2> DEFINE x == Placed(start)
  <2>4. ~(x.id > 0)
    <3>1. x.id = -(nodeSequence + 1) /\ nodeSequence \in Nat
      BY DEF Placed, Kinded
    <3>2. QED
      BY <3>1
  <2>5. \A q \in DOMAIN kind2 : q \in x.ports => own2[q] = Shown
    <3>1. x.ports = IF start THEN {minted + 1} ELSE {Service}
      BY DEF Placed
    <3>2. Service \notin DOMAIN kind2
      BY <1>3, DrawingAssumption
    <3>3. start => own2[minted + 1] = Shown
      <4>1. ~(minted + 1 <= minted) /\ minted + 1 \in 1..(minted + 1)
        BY <1>3
      <4>2. QED
        BY <4>1 DEF PlaceOwn
    <3>4. QED
      BY <3>1, <3>2, <3>3
  <2> HIDE DEF x
  <2>6. c.nodes = canvas.nodes \union {x} /\ c.edges = canvas.edges
    BY <1>2 DEF x
  <2>7. QED
    BY <2>3, <2>4, <2>5, <2>6 DEF ShownOf
<1>8. QED
  BY <1>1, <1>2, <1>3, <1>6, <1>7, EditedOwned

\* Undo keeps each Thing of one pipeline: what it returns to is of the one that was open.
LEMMA UndoOwned ==
  ASSUME NEW kind, Kinded(kind), NEW own, Owned(kind, own), onUndo
  PROVE  Owned(kind, own)'
<1>1. /\ past # <<>> /\ canvas' = Last(past) /\ past' = Front(past)
      /\ baseline' = baseline /\ editingPipelineId' = editingPipelineId
      /\ busy' = busy /\ save' = save /\ todo' = todo /\ model' = model /\ heard' = heard
      /\ crossed' = crossed /\ left' = left
  BY DEF onUndo, saving
<1>2. Last(past) \in Range(past) /\ Range(Front(past)) \subseteq Range(past)
  BY <1>1, FrontLast DEF Kinded
<1>3. \A x \in Drawings' : x \in Drawings
  <2>1. \A x \in Drawings' : x \in {canvas', baseline', save'.attempt} \/ x \in Range(past')
    BY DEF Drawings
  <2>2. QED
    BY <1>1, <1>2, <2>1 DEF Drawings
<1>4. Shown' = Shown
  BY <1>1 DEF Shown
<1>5. QED
  BY <1>1, <1>3, <1>4 DEF Owned

\* Opening a drawing of a pipeline keeps each Thing of one.
LEMMA OpensOwned ==
  ASSUME NEW kind, Kinded(kind), NEW own, Owned(kind, own), NEW p, NEW c, NEW editing, OpensWith(p, c, editing),
         ShownOf(c, editing, editing, kind, own, left)
  PROVE  Owned(kind, own)'
<1>1. /\ canvas' = c /\ baseline' = c /\ past' = <<>>
      /\ editingPipelineId' = editing /\ crossed' = busy
      /\ busy' = busy /\ save' = save /\ todo' = todo /\ model' = model /\ heard' = heard /\ left' = left
  BY DEF OpensWith, commitBaseline, saving
<1>2. CASE busy
  BY <1>1, <1>2 DEF Owned
<1>3. CASE ~busy
  <2>1. save' = NoSave
    BY <1>1, <1>3 DEF Kinded
  <2>2. Range(past') = {}
    BY <1>1 DEF Range
  <2>3. \A x \in Drawings' : x = c \/ x = Empty
    <3>1. \A x \in Drawings' : x \in {canvas', baseline', save'.attempt} \/ x \in Range(past')
      BY DEF Drawings
    <3>2. NoSave.attempt = Empty
      BY DEF NoSave
    <3>3. QED
      BY <1>1, <2>1, <2>2, <3>1, <3>2
  <2>4. Shown' = editing
    BY <1>1, <1>3 DEF Shown
  <2>5. \A x \in Drawings' : ShownOf(x, Shown', editingPipelineId', kind, own, left')
    BY <1>1, <2>3, <2>4, EmptyShown
  <2>6. QED
    BY <1>1, <1>3, <2>5 DEF Owned
<1>4. QED
  BY <1>2, <1>3 DEF Kinded

\* Opening a pipeline keeps each Thing of one.
LEMMA LoadOwned ==
  ASSUME NEW kind, Kinded(kind), NEW own, Owned(kind, own), onLoad
  PROVE  Owned(kind, own)'
<1>1. PICK p \in heard.pipelines : OpensWith(p, loadPipeline(heard, p), p)
  BY DEF onLoad
<1>2. minted \in Nat /\ DOMAIN kind = 1..minted /\ Fits(heard, kind) /\ p \in Of(kind, "pipeline")
  BY DEF Kinded, Fits
<1>3. Owns(kind, own) /\ RelsOwned(heard, kind, own, left)
  BY DEF Owned
<1>4. ShownOf(loadPipeline(heard, p), p, p, kind, own, left)
  BY <1>2, <1>3, LoadShown
<1>5. QED
  BY <1>1, <1>4, OpensOwned

\* Starting a new pipeline keeps each Thing of one.
LEMMA NewOwned ==
  ASSUME NEW kind, Kinded(kind), NEW own, Owned(kind, own), onNew
  PROVE  Owned(kind, own)'
BY EmptyShown, OpensOwned DEF onNew

\* A request that is made keeps each Thing of one pipeline.
LEMMA WritingOwned ==
  ASSUME NEW kind, Kinded(kind), NEW own, Owned(kind, own), Writing
  PROVE  Owned(kind, own)'
<1>1. /\ busy /\ todo # <<>> /\ model' = Applied(model, Head(todo)) /\ todo' = Tail(todo)
      /\ UNCHANGED <<drawing, opened, nodeSequence, busy, save, heard, minted, bounds, history>>
  BY DEF Writing
<1>2. /\ Head(todo) \in Range(todo) /\ Range(Tail(todo)) \subseteq Range(todo)
  BY <1>1, HeadTail DEF Kinded
<1>3. DOMAIN kind \subseteq Int /\ Fits(model, kind) /\ RequestFits(Head(todo), kind)
  BY <1>2 DEF Kinded
<1>4. /\ Owns(kind, own) /\ RelsOwned(model, kind, own, left) /\ Homed(model, own)
      /\ WriteOf(Head(todo), save.pipeline, kind, own, left)
  BY <1>2 DEF Owned
<1>5. RelsOwned(model', kind, own, left) /\ Homed(model', own)
  BY <1>1, <1>3, <1>4, AppliedOwned
<1>6. /\ canvas' = canvas /\ baseline' = baseline /\ past' = past /\ save' = save /\ busy' = busy
      /\ editingPipelineId' = editingPipelineId /\ heard' = heard /\ left' = left /\ crossed' = crossed
  BY <1>1 DEF drawing, opened, history
<1>7. Drawings' = Drawings /\ Shown' = Shown
  BY <1>6 DEF Drawings, Shown
<1>8. QED
  BY <1>1, <1>2, <1>5, <1>6, <1>7 DEF Owned

\* The end of a save keeps each Thing of one pipeline.
LEMMA SavedOwned ==
  ASSUME NEW kind, Kinded(kind), NEW own, Owned(kind, own), Saved
  PROVE  Owned(kind, own)'
<1>1. /\ busy /\ todo = <<>> /\ editingPipelineId' = save.pipeline
      /\ canvas' = canvas /\ baseline' = save.attempt /\ past' = <<>>
      /\ busy' = FALSE /\ save' = NoSave
      /\ UNCHANGED <<todo, model, heard, crossed, left>>
  BY DEF Saved, commitBaseline
<1>2. \A x \in Drawings' : x \in Drawings \/ x = Empty
  <2>1. \A x \in Drawings' : x \in {canvas', baseline', save'.attempt} \/ x \in Range(past')
    BY DEF Drawings
  <2>2. NoSave.attempt = Empty /\ Range(<<>>) = {}
    BY DEF NoSave, Range
  <2>3. QED
    BY <1>1, <2>1, <2>2 DEF Drawings
<1>3. Shown' = save.pipeline /\ Shown = save.pipeline
  BY <1>1 DEF Shown
<1>4. ASSUME ~crossed, NEW c \in Drawings
      PROVE  ShownOf(c, save.pipeline, save.pipeline, kind, own, left)
  <2>1. save.captured = editingPipelineId /\ ShownOf(c, save.pipeline, editingPipelineId, kind, own, left)
    BY <1>1, <1>3, <1>4 DEF Owned
  <2>2. CASE editingPipelineId # NoPipeline
    BY <1>1, <2>1, <2>2 DEF Kinded
  <2>3. CASE editingPipelineId = NoPipeline
    <3>1. CanvasFits(c, kind, nodeSequence)
      BY DrawingsFit
    <3>2. ASSUME NEW n \in c.nodes, n.id > 0
          PROVE  FALSE
      <4>1. n.id \in Of(kind, IF n.start THEN "start" ELSE "call")
        BY <3>1, <3>2 DEF CanvasFits, NodeFits
      <4>2. n.id \in Of(kind, "start") \/ n.id \in Of(kind, "call")
        BY <4>1
      <4>3. n.id \in DOMAIN kind /\ n.id \notin Of(kind, "port")
        BY <4>2, KindOf
      <4>4. own[n.id] = NoPipeline
        BY <2>1, <2>3, <3>2 DEF ShownOf
      <4>5. QED
        BY <4>3, <4>4 DEF Owned, Owns
    <3>3. QED
      BY <2>1, <3>2 DEF ShownOf
  <2>4. QED
    BY <2>2, <2>3
<1>5. ~crossed' => \A x \in Drawings' : ShownOf(x, Shown', editingPipelineId', kind, own, left')
  BY <1>1, <1>2, <1>3, <1>4, EmptyShown
<1>6. Range(todo') = {}
  BY <1>1 DEF Range
<1>7. QED
  BY <1>1, <1>5, <1>6 DEF Owned

\* Hearing what the model holds keeps each Thing of one pipeline.
LEMMA HearsOwned ==
  ASSUME NEW kind, Kinded(kind), NEW own, Owned(kind, own), Hears
  PROVE  Owned(kind, own)'
<1>1. /\ heard' = model /\ model' = model /\ todo' = todo /\ save' = save /\ busy' = busy
      /\ canvas' = canvas /\ baseline' = baseline /\ past' = past
      /\ editingPipelineId' = editingPipelineId /\ left' = left /\ crossed' = crossed
  BY DEF Hears, drawing, opened, saving, history
<1>2. Drawings' = Drawings /\ Shown' = Shown
  BY <1>1 DEF Drawings, Shown
<1>3. QED
  BY <1>1, <1>2 DEF Owned

\* A step that changes nothing keeps each Thing of one pipeline.
LEMMA StutterOwned ==
  ASSUME NEW kind, Kinded(kind), NEW own, Owned(kind, own), UNCHANGED vars
  PROVE  Owned(kind, own)'
<1>1. /\ heard' = heard /\ model' = model /\ todo' = todo /\ save' = save /\ busy' = busy
      /\ canvas' = canvas /\ baseline' = baseline /\ past' = past
      /\ editingPipelineId' = editingPipelineId /\ left' = left /\ crossed' = crossed
  BY DEF vars, drawing, opened, saving, history
<1>2. Drawings' = Drawings /\ Shown' = Shown
  BY <1>1 DEF Drawings, Shown
<1>3. QED
  BY <1>1, <1>2 DEF Owned

\* What a save names is of the pipeline it saves, and so is what was of none, should that pipeline be new.
SaveOwn(own) ==
  [x \in 1..SaveTop |->
     IF x <= minted THEN IF own[x] = NoPipeline /\ ~SaveKnown THEN SavePipeline ELSE own[x]
     ELSE IF x = minted + 1 THEN minted + 1 ELSE SavePipeline]

\* The account of a save that is sent is a later one, and says of the numbers it takes whose they are.
LEMMA SaveOwns ==
  ASSUME NEW kind, Kinded(kind), NEW own, Owned(kind, own), onSave, NEW kind2, kind2 = SaveKind(kind),
         NEW own2, own2 = SaveOwn(own)
  PROVE  /\ Owns(kind2, own2) /\ Renames(kind2, kind, own2, own)
         /\ \A x \in DOMAIN kind : own2[x] = IF own[x] = NoPipeline /\ ~SaveKnown THEN SavePipeline ELSE own[x]
         /\ \A x \in DOMAIN kind2 : x > minted + 1 => own2[x] = SavePipeline
         /\ DOMAIN kind2 \subseteq Int /\ DOMAIN kind = 1..minted /\ minted \in Nat
<1>1. /\ Planned(heard, canvas, minted, kind, SaveTo, SaveFree, SaveTop, kind2)
      /\ Extends(kind2, kind) /\ SavePipeline \in Of(kind2, "pipeline")
  BY SavePlanned
<1>2. minted \in Nat /\ SaveTop \in Nat /\ minted < SaveTop /\ DOMAIN kind = 1..minted /\ DOMAIN kind2 = 1..SaveTop
  <2>1. minted \in Nat /\ SaveFree \in Nat /\ SaveTop \in Nat /\ minted < SaveFree /\ DOMAIN kind = 1..minted
        /\ DOMAIN kind2 = 1..SaveTop /\ SaveTop = SaveFree + Cardinality(canvas.edges)
    BY <1>1 DEF Planned
  <2>2. Cardinality(canvas.edges) \in Nat
    BY FS_CardinalityType DEF Kinded, CanvasFits
  <2>3. QED
    BY <2>1, <2>2
<1>3. own2 = [x \in 1..SaveTop |->
                IF x <= minted THEN IF own[x] = NoPipeline /\ ~SaveKnown THEN SavePipeline ELSE own[x]
                ELSE IF x = minted + 1 THEN minted + 1 ELSE SavePipeline]
  BY DEF SaveOwn
<1>4. \A x \in 1..minted : x \in 1..SaveTop /\ x <= minted
  BY <1>2
<1>5. \A x \in DOMAIN kind : own2[x] = IF own[x] = NoPipeline /\ ~SaveKnown THEN SavePipeline ELSE own[x]
  BY <1>2, <1>3, <1>4
<1>6. \A x \in 1..SaveTop : x \in 1..minted \/ (x = minted + 1 /\ ~(x <= minted)) \/ (x > minted + 1 /\ ~(x <= minted) /\ x # minted + 1)
  BY <1>2
<1>7. minted + 1 \in 1..SaveTop /\ own2[minted + 1] = minted + 1 /\ minted + 1 \in Of(kind2, "pipeline")
  <2>1. minted + 1 \in 1..SaveTop /\ ~(minted + 1 <= minted)
    BY <1>2
  <2>2. minted + 1 \in Of(kind2, "pipeline")
    BY <1>1 DEF Planned
  <2>3. QED
    BY <1>3, <2>1, <2>2
<1>8. \A x \in 1..SaveTop : x > minted + 1 => own2[x] = SavePipeline
  BY <1>3, <1>6, <1>2
<1>9. Owns(kind, own)
  BY DEF Owned
<1>10. SavePipeline # NoPipeline
  <2>1. SavePipeline \in DOMAIN kind2
    BY <1>1, KindOf
  <2>2. SavePipeline \in Int
    BY <1>2, <2>1
  <2>3. QED
    BY <2>2, DrawingAssumption
<1>11. \A k : Of(kind, k) \subseteq Of(kind2, k)
  BY <1>1, OfExtends
<1>12. \A p \in Of(kind2, "pipeline") : own2[p] = p
  <2>1. TAKE p \in Of(kind2, "pipeline")
  <2>2. p \in 1..SaveTop
    BY <1>2, KindOf
  <2>3. CASE p \in 1..minted
    <3>1. p \in Of(kind, "pipeline")
      BY <1>1, <1>2, <2>3, OfExtends
    <3>2. own[p] = p /\ p \in Nat
      BY <1>2, <1>9, <2>3, <3>1 DEF Owns
    <3>3. p # NoPipeline
      BY <3>2, DrawingAssumption
    <3>4. QED
      BY <1>2, <1>5, <2>3, <3>2, <3>3
  <2>4. CASE p = minted + 1
    BY <1>7, <2>4
  <2>5. CASE p > minted + 1
    \* The Things named beyond are nodes and wires, and the pipeline.
    <3>1. own2[p] = SavePipeline
      BY <1>8, <2>2, <2>5
    <3>2. kind2[p] # "pipeline"
      <4>1. kind2 = KindAfter(kind, minted, canvas, SaveTo, SaveTop)
        BY DEF SaveKind
      <4>2. ~(p <= minted) /\ p # minted + 1
        BY <1>2, <2>2, <2>5
      <4>3. kind2[p] = IF \E n \in canvas.nodes : SaveTo[n.id] = p
                       THEN IF \E n \in canvas.nodes : SaveTo[n.id] = p /\ n.start THEN "start" ELSE "call"
                       ELSE "wire"
        BY <2>2, <4>1, <4>2 DEF KindAfter
      <4>4. kind2[p] \in {"start", "call", "wire"}
        BY <4>3
      <4>5. QED
        BY <4>4
    <3>3. QED
      BY <3>2 DEF Of
  <2>6. QED
    BY <1>6, <2>2, <2>3, <2>4, <2>5
<1>13. \A x \in 1..SaveTop : own2[x] \in Of(kind2, "pipeline") \union {NoPipeline}
  BY <1>1, <1>2, <1>5, <1>6, <1>7, <1>8, <1>9, <1>11 DEF Owns
<1>14. \A x \in 1..SaveTop : own2[x] = NoPipeline => x \in Of(kind2, "port")
  <2>1. minted + 1 # NoPipeline
    BY <1>2, DrawingAssumption
  <2>2. \A x \in 1..minted : own2[x] = NoPipeline => own[x] = NoPipeline
    BY <1>2, <1>5, <1>10
  <2>3. QED
    BY <1>2, <1>6, <1>7, <1>8, <1>9, <1>10, <1>11, <2>1, <2>2 DEF Owns
<1>15. own2 \in [DOMAIN kind2 -> Of(kind2, "pipeline") \union {NoPipeline}]
  BY <1>2, <1>3, <1>13
<1>16. Owns(kind2, own2)
  BY <1>2, <1>12, <1>14, <1>15 DEF Owns
<1>17. Renames(kind2, kind, own2, own)
  BY <1>5, <1>9 DEF Renames, Owns
<1>18. QED
  BY <1>2, <1>5, <1>8, <1>16, <1>17

\* The drawing as Things, all of the pipeline that is saved.
LEMMA DrawnShown ==
  ASSUME NEW kind, NEW kind2, NEW placed, NEW c, CanvasFits(c, kind, placed), NEW to, DOMAIN to = Ids(c),
         NEW own2, NEW p, NEW L, NEW editing,
         \A n \in c.nodes : own2[to[n.id]] = p,
         ShownOf(c, p, editing, kind2, own2, L)
  PROVE  ShownOf(Drawn(c, to), p, p, kind2, own2, L)
<1> DEFINE d == Drawn(c, to)
<1>1. d.nodes = {NodeAt(n, to) : n \in c.nodes} /\ d.edges = {EdgeAt(e, to) : e \in c.edges}
  BY DrawnParts
<1>2. ASSUME NEW n \in c.nodes
      PROVE  NodeAt(n, to).id = to[n.id] /\ NodeAt(n, to).ports = n.ports
  BY NodeMoved DEF CanvasFits, NodeAt
<1>3. ASSUME NEW e \in c.edges
      PROVE  EdgeAt(e, to).outPort = e.outPort
  <2>1. EdgeFits(e, kind, Ids(c))
    BY DEF CanvasFits
  <2>2. EdgeAt(e, to) = [source |-> to[e.source], outPort |-> e.outPort, target |-> to[e.target], inPort |-> Service,
                         taken |-> takenOnOf(e.taken)]
    BY <2>1, EdgeMoved DEF EdgeAt
  <2>3. QED
    BY <2>2
<1> HIDE DEF d
<1>4. \A n \in d.nodes : own2[n.id] = p
  BY <1>1, <1>2
<1>5. p \notin L => \A n \in d.nodes, q \in DOMAIN kind2 : q \in n.ports => own2[q] = p
  BY <1>1, <1>2 DEF ShownOf
<1>6. p \notin L => \A e \in d.edges : e.outPort \in DOMAIN kind2 => own2[e.outPort] = p
  BY <1>1, <1>3 DEF ShownOf
<1>7. ShownOf(d, p, p, kind2, own2, L)
  BY <1>4, <1>5, <1>6 DEF ShownOf
<1>8. QED
  BY <1>7 DEF d

\* Sending a save of what was opened before it keeps each Thing of one pipeline.
LEMMA SaveOwned ==
  ASSUME NEW kind, Kinded(kind), NEW own, Owned(kind, own), onSave, ~crossed, NEW kind2, kind2 = SaveKind(kind),
         NEW own2, own2 = SaveOwn(own)
  PROVE  Owned(kind2, own2)'
<1>1. /\ Planned(heard, canvas, minted, kind, SaveTo, SaveFree, SaveTop, kind2)
      /\ Extends(kind2, kind) /\ SavePipeline \in Of(kind2, "pipeline") /\ Fits(heard, kind2)
      /\ CanvasFits(SaveDrawn, kind2, 0) /\ \A n \in SaveDrawn.nodes : n.id > 0
  BY SavePlanned
<1>2. /\ Owns(kind2, own2) /\ Renames(kind2, kind, own2, own)
      /\ \A x \in DOMAIN kind : own2[x] = IF own[x] = NoPipeline /\ ~SaveKnown THEN SavePipeline ELSE own[x]
      /\ \A x \in DOMAIN kind2 : x > minted + 1 => own2[x] = SavePipeline
      /\ DOMAIN kind2 \subseteq Int /\ DOMAIN kind = 1..minted /\ minted \in Nat /\ DOMAIN kind \subseteq Int
  BY SaveOwns
<1>3. /\ minted \in Nat /\ IsFiniteSet(canvas.nodes) /\ IsFiniteSet(canvas.edges)
      /\ Fits(model, kind) /\ Fits(heard, kind) /\ CanvasFits(canvas, kind, nodeSequence)
  BY DEF Kinded, CanvasFits
<1>4. /\ ~busy /\ busy' = TRUE
      /\ save' = [attempt |-> canvas, pipeline |-> SavePipeline, to |-> SaveTo,
                  captured |-> editingPipelineId, sound |-> Sound(canvas, SavePipeline)]
      /\ minted' = SaveTop
      /\ UNCHANGED <<drawing, opened, nodeSequence, model, heard, crossed, left, confirmed>>
  BY <1>3, SaveIs
<1>5. save'.attempt = canvas /\ save'.pipeline = SavePipeline /\ save'.captured = editingPipelineId
  BY <1>4
<1>6. /\ canvas' = canvas /\ past' = past /\ baseline' = baseline /\ editingPipelineId' = editingPipelineId
      /\ model' = model /\ heard' = heard /\ left' = left /\ crossed' = crossed
  BY <1>4 DEF drawing, opened
<1>7. Owns(kind, own) /\ RelsOwned(heard, kind, own, left) /\ left \subseteq Of(kind, "pipeline")
  BY DEF Owned
<1>8. /\ RelsOwned(model', kind2, own2, left') /\ Homed(model', own2)
      /\ RelsOwned(heard', kind2, own2, left') /\ Homed(heard', own2)
  BY <1>1, <1>2, <1>3, <1>6, <1>7, ModelKept DEF Owned
<1>9. SavePipeline \notin left \/ SaveKnown
  <2>1. minted + 1 \notin left
    <3>1. minted + 1 \notin 1..minted
      BY <1>2
    <3>2. QED
      BY <1>2, <1>7, <3>1, KindOf
  <2>2. QED
    BY <2>1 DEF SavePipeline
<1>10. ASSUME NEW c \in Drawings
       PROVE  ShownOf(c, SavePipeline, editingPipelineId, kind2, own2, left)
  <2>1. ShownOf(c, Shown, editingPipelineId, kind, own, left) /\ CanvasFits(c, kind, nodeSequence)
    BY DrawingsFit DEF Owned
  <2>2. Shown = editingPipelineId
    BY <1>4 DEF Shown
  <2>3. \A x \in DOMAIN kind : IF x \in Of(kind, "port") THEN own[x] = Shown => own2[x] = SavePipeline
                               ELSE own2[x] = own[x]
    <3>1. TAKE x \in DOMAIN kind
    <3>2. CASE x \notin Of(kind, "port")
      <4>1. own[x] # NoPipeline
        BY <1>7, <3>2 DEF Owns
      <4>2. QED
        BY <1>2, <3>2, <4>1
    <3>3. CASE x \in Of(kind, "port") /\ own[x] = Shown
      BY <1>2, <2>2, <3>3 DEF SavePipeline, SaveKnown
    <3>4. QED
      BY <3>2, <3>3
  <2>4. SavePipeline \notin left => Shown \notin left
    <3>1. NoPipeline \notin left
      <4>1. left \subseteq Int
        BY <1>2, <1>7, KindOf
      <4>2. QED
        BY <4>1, DrawingAssumption
    <3>2. QED
      BY <2>2, <3>1 DEF SavePipeline, SaveKnown
  <2>5. QED
    BY <1>1, <1>2, <2>1, <2>3, <2>4, ShownKept
<1>11. ASSUME NEW n \in canvas.nodes
       PROVE  own2[SaveTo[n.id]] = SavePipeline
  <2>0. SaveTo[n.id] \in DOMAIN kind2
    <3>1. SaveTo[n.id] \in Of(kind2, IF n.start THEN "start" ELSE "call")
      BY <1>1 DEF Planned
    <3>2. SaveTo[n.id] \in Of(kind2, "start") \/ SaveTo[n.id] \in Of(kind2, "call")
      BY <3>1
    <3>3. QED
      BY <3>2, KindOf
  <2>1. IF n.id \in heard.nodes THEN SaveTo[n.id] = n.id ELSE SaveTo[n.id] > minted + 1
    BY <1>1 DEF Planned
  <2>2. CASE n.id \notin heard.nodes
    BY <1>2, <2>0, <2>1, <2>2
  <2>3. CASE n.id \in heard.nodes
    <3>1. n.id \in NodesIn(kind) /\ n.id \in DOMAIN kind /\ n.id \notin Of(kind, "port")
      BY <1>3, <2>3, KindOf DEF Fits
    <3>2. n.id > 0
      BY <1>2, <3>1
    <3>3. own[n.id] = editingPipelineId
      <4>1. canvas \in Drawings
        BY DEF Drawings
      <4>2. QED
        BY <3>2, <4>1 DEF Owned, ShownOf
    <3>4. own[n.id] # NoPipeline
      BY <1>7, <3>1 DEF Owns
    <3>5. SavePipeline = editingPipelineId
      BY <3>3, <3>4 DEF SavePipeline, SaveKnown
    <3>6. own2[n.id] = own[n.id]
      BY <1>2, <3>1, <3>4
    <3>7. QED
      BY <2>1, <2>3, <3>3, <3>5, <3>6
  <2>4. QED
    BY <2>2, <2>3
<1>12. ShownOf(SaveDrawn, SavePipeline, SavePipeline, kind2, own2, left)
  <2>1. canvas \in Drawings /\ DOMAIN SaveTo = Ids(canvas)
    BY <1>1 DEF Drawings, Planned
  <2>2. ShownOf(canvas, SavePipeline, editingPipelineId, kind2, own2, left)
    BY <1>10, <2>1
  <2>3. QED
    BY <1>3, <1>11, <2>1, <2>2, DrawnShown DEF SaveDrawn
<1>13. ASSUME NEW w \in Range(todo')
       PROVE  WriteOf(w, SavePipeline, kind2, own2, left)
  <2>1. PICK wire \in Numbering(SaveDrawn.edges, SaveFree) :
              /\ \A e \in SaveDrawn.edges : wire[e] \in Of(kind2, "wire") /\ wire[e] \in Nat /\ wire[e] > SaveFree
              /\ Range(todo') = Requested(SaveDrawn, heard, SavePipeline, SaveNodes, wire)
    BY SavePlanned
  <2>2. \A e \in SaveDrawn.edges : wire[e] \in Of(kind2, "wire") /\ own2[wire[e]] = SavePipeline
    <3>1. TAKE e \in SaveDrawn.edges
    <3>2. SaveFree \in Nat /\ minted < SaveFree
      BY <1>1 DEF Planned
    <3>3. wire[e] \in DOMAIN kind2 /\ wire[e] > minted + 1
      BY <1>2, <2>1, <3>2, KindOf
    <3>4. QED
      BY <1>2, <2>1, <3>3
  <2>3. SaveNodes \subseteq NodesOf(heard, SavePipeline)
    BY DEF SaveNodes, persistedNodeIds
  <2>4. SaveTop \in Nat /\ DOMAIN kind2 = 1..SaveTop
    BY <1>1 DEF Planned
  <2>5. RelsOwned(heard, kind2, own2, left)
    BY <1>6, <1>8
  <2>6. QED
    BY <1>1, <1>2, <1>12, <2>1, <2>2, <2>3, <2>4, <2>5, RequestedOwned
<1>14. left' \subseteq Of(kind2, "pipeline")
  BY <1>1, <1>6, <1>7, OfExtends
<1>15. Shown' = SavePipeline
  BY <1>4, <1>5 DEF Shown
<1>16. \A x \in Drawings' : x \in Drawings
  <2>1. \A x \in Drawings' : x \in {canvas', baseline', save'.attempt} \/ x \in Range(past')
    BY DEF Drawings
  <2>2. QED
    BY <1>5, <1>6, <2>1 DEF Drawings
<1>17. ~crossed' => /\ busy' => save'.captured = editingPipelineId'
                    /\ \A x \in Drawings' : ShownOf(x, Shown', editingPipelineId', kind2, own2, left')
  BY <1>5, <1>6, <1>10, <1>15, <1>16
<1>18. save'.captured = NoPipeline => save'.pipeline \notin left'
  BY <1>5, <1>6, <1>9 DEF SaveKnown
<1>19. \A w \in Range(todo') : WriteOf(w, save'.pipeline, kind2, own2, left')
  BY <1>5, <1>6, <1>13
<1>20. QED
  BY <1>2, <1>8, <1>14, <1>17, <1>18, <1>19 DEF Owned

\* A save that fails leaves the ports of a pipeline it was the first to write to the page.
FailsOwn(kind, own) ==
  [x \in DOMAIN kind |->
     IF x \in Of(kind, "port") /\ save.captured = NoPipeline /\ own[x] = save.pipeline THEN NoPipeline ELSE own[x]]

\* A relationship within a pipeline stays so when a first save fails.
LEMMA FailsRel ==
  ASSUME NEW kind, NEW own, Owns(kind, own), NEW own2, NEW L, NEW L2, NEW p, NEW first \in BOOLEAN,
         DOMAIN kind \subseteq Int,
         \A x \in DOMAIN kind : own2[x] = IF x \in Of(kind, "port") /\ first /\ own[x] = p THEN NoPipeline ELSE own[x],
         L2 = IF first THEN L \union {p} ELSE L,
         NEW r \in RelsIn(kind), RelOwned(r, kind, own, L)
  PROVE  RelOwned(r, kind, own2, L2)
<1>1. r[1] \in DOMAIN kind /\ r[1] \notin Of(kind, "port")
  BY RelParts, KindOf
<1>2. own2[r[1]] = own[r[1]]
  BY <1>1
<1>3. ASSUME r[3] \in DOMAIN kind, r[3] \in Of(kind, "port") => own2[r[1]] \notin L2
      PROVE  own2[r[3]] = own2[r[1]]
  <2>1. own[r[3]] = own[r[1]]
    BY <1>2, <1>3 DEF RelOwned
  <2>2. CASE r[3] \notin Of(kind, "port")
    BY <1>2, <1>3, <2>1, <2>2
  <2>3. CASE r[3] \in Of(kind, "port")
    BY <1>2, <1>3, <2>1, <2>3
  <2>4. QED
    BY <2>2, <2>3
<1>4. QED
  BY <1>3 DEF RelOwned

\* So does a model.
LEMMA FailsModel ==
  ASSUME NEW kind, NEW own, Owns(kind, own), NEW own2, NEW L, NEW L2, NEW p, NEW first \in BOOLEAN,
         DOMAIN kind \subseteq Int,
         \A x \in DOMAIN kind : own2[x] = IF x \in Of(kind, "port") /\ first /\ own[x] = p THEN NoPipeline ELSE own[x],
         L2 = IF first THEN L \union {p} ELSE L,
         NEW m, Fits(m, kind), RelsOwned(m, kind, own, L), Homed(m, own)
  PROVE  RelsOwned(m, kind, own2, L2) /\ Homed(m, own2)
<1>1. ASSUME NEW r \in m.rels
      PROVE  RelOwned(r, kind, own2, L2)
  <2>1. r \in RelsIn(kind) /\ RelOwned(r, kind, own, L)
    BY DEF Fits, RelsOwned
  <2>2. QED
    BY <2>1, FailsRel
<1>2. \A n \in m.nodes : own2[n] = own[n]
  BY KindOf DEF Fits
<1>3. QED
  BY <1>1, <1>2 DEF RelsOwned, Homed

\* A save that fails keeps each Thing of one pipeline, or leaves its pipeline's ports to none.
LEMMA FailsOwned ==
  ASSUME NEW kind, Kinded(kind), NEW own, Owned(kind, own), SaveFails, NEW own2, own2 = FailsOwn(kind, own)
  PROVE  Owned(kind, own2)'
<1> DEFINE first == save.captured = NoPipeline
           p == save.pipeline
<1>1. /\ busy /\ todo # <<>> /\ model' \in {model, Applied(model, Head(todo))}
      /\ canvas' = baseline /\ baseline' = baseline /\ past' = past
      /\ busy' = FALSE /\ save' = NoSave /\ todo' = <<>>
      /\ left' = IF first THEN left \union {p} ELSE left
      /\ editingPipelineId' = editingPipelineId /\ heard' = heard /\ crossed' = crossed
  BY DEF SaveFails
<1>2. Head(todo) \in Range(todo)
  BY <1>1, HeadTail DEF Kinded
<1>3. /\ DOMAIN kind \subseteq Int /\ Fits(model, kind) /\ Fits(heard, kind) /\ RequestFits(Head(todo), kind)
      /\ p # NoPipeline /\ p \in Of(kind, "pipeline") /\ minted \in Nat /\ (~first => p = save.captured)
  BY <1>1, <1>2 DEF Kinded
<1>4. /\ Owns(kind, own) /\ RelsOwned(model, kind, own, left) /\ Homed(model, own)
      /\ RelsOwned(heard, kind, own, left) /\ Homed(heard, own)
      /\ WriteOf(Head(todo), p, kind, own, left)
      /\ left \subseteq Of(kind, "pipeline")
      /\ first => p \notin left
  BY <1>1, <1>2 DEF Owned
<1>5. RelsOwned(model', kind, own, left) /\ Homed(model', own) /\ Fits(model', kind)
  BY <1>1, <1>3, <1>4, AppliedOwned, AppliedFits
<1>6. \A x \in DOMAIN kind : own2[x] = IF x \in Of(kind, "port") /\ first /\ own[x] = p THEN NoPipeline ELSE own[x]
  BY DEF FailsOwn
<1>7. Owns(kind, own2)
  <2>1. own2 \in [DOMAIN kind -> Of(kind, "pipeline") \union {NoPipeline}]
    <3>1. \A x \in DOMAIN kind : own2[x] \in Of(kind, "pipeline") \union {NoPipeline}
      BY <1>4, <1>6 DEF Owns
    <3>2. own2 = [x \in DOMAIN kind |-> own2[x]]
      BY DEF FailsOwn
    <3>3. QED
      BY <3>1, <3>2
  <2>2. \A x \in Of(kind, "pipeline") : own2[x] = x
    BY <1>4, <1>6, KindOf DEF Owns
  <2>3. \A x \in DOMAIN kind : own2[x] = NoPipeline => x \in Of(kind, "port")
    BY <1>4, <1>6 DEF Owns
  <2>4. QED
    BY <2>1, <2>2, <2>3 DEF Owns
<1>8. (first => left' = left \union {p}) /\ (~first => left' = left)
  BY <1>1
<1>8a. PICK L2 : L2 = left'
  OBVIOUS
<1>8b. first \in BOOLEAN
  OBVIOUS
<1>9. ASSUME NEW m, Fits(m, kind), RelsOwned(m, kind, own, left), Homed(m, own)
      PROVE  RelsOwned(m, kind, own2, left') /\ Homed(m, own2)
  <2> HIDE DEF first, p
  <2>1. (first => L2 = left \union {p}) /\ (~first => L2 = left)
    BY <1>8, <1>8a
  <2>2. RelsOwned(m, kind, own2, L2) /\ Homed(m, own2)
    BY <1>3, <1>4, <1>6, <1>8b, <1>9, <2>1, FailsModel
  <2>3. QED
    BY <1>8a, <2>2
<1>10. /\ RelsOwned(model', kind, own2, left') /\ Homed(model', own2)
       /\ RelsOwned(heard', kind, own2, left') /\ Homed(heard', own2)
  BY <1>1, <1>3, <1>4, <1>5, <1>9
<1>11. left' \subseteq Of(kind, "pipeline")
  BY <1>3, <1>4, <1>8
<1>12. ASSUME ~crossed, NEW c \in Drawings
       PROVE  ShownOf(c, editingPipelineId, editingPipelineId, kind, own2, left')
  <2>1. /\ ShownOf(c, p, editingPipelineId, kind, own, left) /\ CanvasFits(c, kind, nodeSequence)
        /\ save.captured = editingPipelineId
    BY <1>1, <1>12, DrawingsFit DEF Owned, Shown
  <2>2. \A x \in DOMAIN kind : IF x \in Of(kind, "port") THEN own[x] = p => own2[x] = editingPipelineId
                               ELSE own2[x] = own[x]
    <3>1. TAKE x \in DOMAIN kind
    <3>2. CASE x \notin Of(kind, "port")
      BY <1>6, <3>2
    <3>3. CASE x \in Of(kind, "port") /\ own[x] = p /\ first
      BY <1>6, <2>1, <3>3
    <3>4. CASE x \in Of(kind, "port") /\ own[x] = p /\ ~first
      BY <1>3, <1>6, <2>1, <3>4
    <3>5. QED
      BY <3>2, <3>3, <3>4
  <2>3. editingPipelineId \notin left' => p \notin left
    BY <1>3, <1>4, <1>8, <2>1
  <2>4. QED
    BY <1>3, <2>1, <2>2, <2>3, SameKinds, ShownKept
<1>13. \A x \in Drawings' : x \in Drawings \/ x = Empty
  <2>1. \A x \in Drawings' : x \in {canvas', baseline', save'.attempt} \/ x \in Range(past')
    BY DEF Drawings
  <2>2. NoSave.attempt = Empty
    BY DEF NoSave
  <2>3. QED
    BY <1>1, <2>1, <2>2 DEF Drawings
<1>14. Shown' = editingPipelineId
  BY <1>1 DEF Shown
<1>15. ~crossed' => \A x \in Drawings' : ShownOf(x, Shown', editingPipelineId', kind, own2, left')
  <2>1. SUFFICES ASSUME ~crossed', NEW x \in Drawings'
                 PROVE  ShownOf(x, Shown', editingPipelineId', kind, own2, left')
    OBVIOUS
  <2>2. crossed' = crossed /\ editingPipelineId' = editingPipelineId
    BY DEF SaveFails
  <2>3. ShownOf(x, editingPipelineId, editingPipelineId, kind, own2, left')
    <3>1. CASE x \in Drawings
      BY <1>12, <2>1, <2>2, <3>1
    <3>2. CASE x = Empty
      BY <3>2, EmptyShown
    <3>3. QED
      BY <1>13, <2>1, <3>1, <3>2
  <2>4. QED
    BY <1>14, <2>2, <2>3
<1>16. Range(todo') = {}
  BY <1>1 DEF Range
<1>17. QED
  BY <1>1, <1>7, <1>10, <1>11, <1>15, <1>16 DEF Owned

\* Each Thing keeps to its kind, and to its pipeline until a save is sent of what was opened during another.
PipelineInv == \E kind, own : Kinded(kind) /\ (~mingled => Owned(kind, own))

HeldOwned(own) ==
  /\ own \in [ThingsOf(Held) -> Held.pipelines]
  /\ \A p \in Held.pipelines : own[p] = p
  /\ \A r \in Held.rels : r[3] \in ThingsOf(Held) => own[r[3]] = own[r[1]]

\* At first each Thing is of the pipeline that holds it.
LEMMA InitOwned ==
  ASSUME Init
  PROVE  \E own : Owned(HeldKind, own)
<1> DEFINE n == Cardinality(ThingsOf(Held))
<1>1. PICK own : HeldOwned(own)
  BY HeldAssumption DEF HeldOwned
<1>2. n \in Nat /\ HeldKind \in [1..n -> Kinds] /\ Fits(Held, HeldKind) /\ ThingsOf(Held) = 1..n
  BY HeldFits, HeldAssumption
<1>2a. \A x \in 1..n : HeldKind[x] = IF x \in Held.pipelines THEN "pipeline"
               ELSE IF x \in Held.starts THEN "start" ELSE IF x \in Held.nodes THEN "call"
               ELSE IF x \in Held.wires THEN "wire" ELSE "port"
  BY DEF HeldKind
<1> HIDE DEF n
<1>3. Of(HeldKind, "pipeline") = Held.pipelines
  <2>1. Held.pipelines \subseteq Of(HeldKind, "pipeline")
    BY <1>2 DEF Fits
  <2>2. Of(HeldKind, "pipeline") \subseteq Held.pipelines
    BY <1>2, <1>2a DEF Of
  <2>3. QED
    BY <2>1, <2>2
<1>4. NoPipeline \notin Held.pipelines
  <2>1. Held.pipelines \subseteq 1..n
    BY <1>2 DEF ThingsOf
  <2>2. QED
    BY <2>1, DrawingAssumption
<1>5. Owns(HeldKind, own)
  <2>1. own \in [DOMAIN HeldKind -> Of(HeldKind, "pipeline") \union {NoPipeline}]
    BY <1>1, <1>2, <1>3 DEF HeldOwned
  <2>2. \A x \in DOMAIN HeldKind : own[x] # NoPipeline
    BY <1>1, <1>2, <1>4 DEF HeldOwned
  <2>3. QED
    BY <1>1, <1>3, <2>1, <2>2 DEF Owns, HeldOwned
<1>6. RelsOwned(Held, HeldKind, own, {})
  BY <1>1, <1>2 DEF RelsOwned, RelOwned, HeldOwned
<1>7. ASSUME NEW x \in Held.nodes
      PROVE  <<own[x], "has", x>> \in Held.rels
  <2>1. PICK p \in Held.pipelines : <<p, "has", x>> \in Held.rels
    BY HeldAssumption
  <2> DEFINE r == <<p, "has", x>>
  <2>2. r \in Held.rels /\ r[1] = p /\ r[3] = x
    BY <2>1
  <2> HIDE DEF r
  <2>3. x \in ThingsOf(Held)
    BY DEF ThingsOf
  <2>4. own[x] = p
    BY <1>1, <2>2, <2>3 DEF HeldOwned
  <2>5. QED
    BY <2>1, <2>4
<1>8. Homed(Held, own)
  BY <1>7 DEF Homed
<1>9. Range(todo) = {} /\ Range(past) = {}
  BY DEF Init, Range
<1>10. canvas = Empty /\ baseline = Empty /\ save.attempt = Empty
  BY DEF Init, NoSave
<1>11. \A c \in Drawings : ShownOf(c, Shown, editingPipelineId, HeldKind, own, left)
  BY <1>9, <1>10, EmptyShown DEF Drawings
<1>12. ~busy /\ left = {} /\ model = Held /\ heard = Held
  BY DEF Init
<1>13. Owned(HeldKind, own)
  BY <1>5, <1>6, <1>8, <1>9, <1>11, <1>12 DEF Owned
<1>14. QED
  BY <1>13

\* Every step keeps the kinds and the pipelines.
LEMMA PipelineStep ==
  ASSUME NEW kind, Kinded(kind), NEW own, ~mingled => Owned(kind, own), [Next]_vars
  PROVE  PipelineInv'
<1>1. CASE \E start \in BOOLEAN : place(start)
  <2>1. PICK start \in BOOLEAN : place(start)
    BY <1>1
  <2>2. PICK kind2 : kind2 = IF start THEN PlaceKind(kind) ELSE kind
    OBVIOUS
  <2>3. PICK own2 : own2 = IF start THEN PlaceOwn(own) ELSE own
    OBVIOUS
  <2>4. Kinded(kind2)'
    BY <2>1, <2>2, PlaceKinded
  <2>5. mingled' = mingled
    BY <2>1 DEF place, Edited, EditedOnce
  <2>6. ~mingled' => Owned(kind2, own2)'
    BY <2>1, <2>2, <2>3, <2>5, PlaceOwned
  <2>7. QED
    BY <2>4, <2>6 DEF PipelineInv
<1>2. CASE onSave
  <2>1. PICK kind2 : kind2 = SaveKind(kind)
    OBVIOUS
  <2>2. PICK own2 : own2 = SaveOwn(own)
    OBVIOUS
  <2>3. Kinded(kind2)'
    BY <1>2, <2>1, SaveKinded
  <2>4. mingled' = (mingled \/ crossed)
    BY <1>2 DEF onSave
  <2>5. ~mingled' => Owned(kind2, own2)'
    BY <1>2, <2>1, <2>2, <2>4, SaveOwned
  <2>6. QED
    BY <2>3, <2>5 DEF PipelineInv
<1>3. CASE SaveFails
  <2>1. PICK own2 : own2 = FailsOwn(kind, own)
    OBVIOUS
  <2>2. Kinded(kind)'
    BY <1>3, FailsKinded
  <2>3. mingled' = mingled
    BY <1>3 DEF SaveFails
  <2>4. ~mingled' => Owned(kind, own2)'
    BY <1>3, <2>1, <2>3, FailsOwned
  <2>5. QED
    BY <2>2, <2>4 DEF PipelineInv
<1>4. ASSUME Kinded(kind)', ~mingled' => Owned(kind, own)'
      PROVE  PipelineInv'
  BY <1>4 DEF PipelineInv
<1>5. CASE onConnect
  <2>1. mingled' = mingled
    BY <1>5 DEF onConnect, Edited, EditedOnce
  <2>2. QED
    BY <1>4, <1>5, <2>1, ConnectKinded, ConnectOwned
<1>6. CASE setEdgeTakenOn
  <2>1. mingled' = mingled
    BY <1>6 DEF setEdgeTakenOn, Edited, EditedOnce
  <2>2. QED
    BY <1>4, <1>6, <2>1, TakenKinded, TakenOwned
<1>7. CASE onEdgesDelete
  <2>1. mingled' = mingled
    BY <1>7 DEF onEdgesDelete, Edited, EditedOnce
  <2>2. QED
    BY <1>4, <1>7, <2>1, EdgesDeleteKinded, EdgesDeleteOwned
<1>8. CASE onNodesDelete
  <2>1. mingled' = mingled
    BY <1>8 DEF onNodesDelete, Edited, EditedOnce
  <2>2. QED
    BY <1>4, <1>8, <2>1, NodesDeleteKinded, NodesDeleteOwned
<1>9. CASE onNodeDragStart
  <2>1. mingled' = mingled
    BY <1>9 DEF onNodeDragStart, EditedUnmarked, EditedOnce
  <2>2. QED
    BY <1>4, <1>9, <2>1, DragKinded, DragOwned
<1>10. CASE onUndo
  <2>1. mingled' = mingled
    BY <1>10 DEF onUndo
  <2>2. QED
    BY <1>4, <1>10, <2>1, UndoKinded, UndoOwned
<1>11. CASE onLoad
  <2>1. mingled' = mingled
    BY <1>11 DEF onLoad, OpensWith
  <2>2. QED
    BY <1>4, <1>11, <2>1, LoadKinded, LoadOwned
<1>12. CASE onNew
  <2>1. mingled' = mingled
    BY <1>12 DEF onNew, OpensWith
  <2>2. QED
    BY <1>4, <1>12, <2>1, NewKinded, NewOwned
<1>13. CASE Writing
  <2>1. mingled' = mingled
    BY <1>13 DEF Writing, history
  <2>2. QED
    BY <1>4, <1>13, <2>1, WritingKinded, WritingOwned
<1>14. CASE Saved
  <2>1. mingled' = mingled
    BY <1>14 DEF Saved
  <2>2. QED
    BY <1>4, <1>14, <2>1, SavedKinded, SavedOwned
<1>15. CASE Hears
  <2>1. mingled' = mingled
    BY <1>15 DEF Hears, history
  <2>2. QED
    BY <1>4, <1>15, <2>1, HearsKinded, HearsOwned
<1>16. CASE UNCHANGED vars
  <2>1. mingled' = mingled
    BY <1>16 DEF vars, history
  <2>2. QED
    BY <1>4, <1>16, <2>1, StutterKinded, StutterOwned
<1>17. QED
  BY <1>1, <1>2, <1>3, <1>5, <1>6, <1>7, <1>8, <1>9, <1>10, <1>11, <1>12, <1>13, <1>14, <1>15, <1>16 DEF Next

\* In every state of every execution each Thing is of one pipeline, save for what a mingled save did.
LEMMA PipelineKept == Spec => []PipelineInv
<1>1. Init => PipelineInv
  BY InitKinded, InitOwned DEF PipelineInv
<1>2. PipelineInv /\ [Next]_vars => PipelineInv'
  BY PipelineStep DEF PipelineInv
<1>3. QED
  BY <1>1, <1>2, PTL DEF Spec

-----------------------------------------------------------------------------
\* No other pipeline is touched, and what is shown is of the pipeline that is edited.

\* Two models that hold the same of the pipeline p.
Agree(m, m2, p, kind, own) ==
  /\ \A s \in DOMAIN kind : \A k : own[s] = p => Reached(m2, s, k) = Reached(m, s, k)
  /\ \A x \in DOMAIN kind : own[x] = p => /\ x \in m2.nodes <=> x \in m.nodes
                                          /\ x \in m2.starts <=> x \in m.starts
                                          /\ x \in m2.wires <=> x \in m.wires
                                          /\ x \in m2.ports <=> x \in m.ports

\* What is reached from a Thing of a pipeline and is of an archetype is of the pipeline too.
LEMMA ReachedOfOne ==
  ASSUME NEW kind, DOMAIN kind \subseteq Int, NEW own, NEW L, NEW m, Fits(m, kind), RelsOwned(m, kind, own, L),
         NEW p, p \notin L, NEW s, own[s] = p, NEW k, NEW x \in Reached(m, s, k),
         x \in m.nodes \union m.wires \union m.ports
  PROVE  x \in DOMAIN kind /\ own[x] = p
<1>1. x \in DOMAIN kind
  BY KindOf DEF Fits
<1>2. QED
  BY <1>1, ReachedOwned

\* Models that hold the same of a pipeline read it alike.
LEMMA AgreeLoad ==
  ASSUME NEW kind, DOMAIN kind \subseteq Int, NEW own, Owns(kind, own), NEW L, NEW m, Fits(m, kind),
         RelsOwned(m, kind, own, L), NEW m2, Fits(m2, kind), RelsOwned(m2, kind, own, L),
         NEW p \in Of(kind, "pipeline"), p \notin L, Agree(m, m2, p, kind, own)
  PROVE  loadPipeline(m2, p) = loadPipeline(m, p)
<1>1. own[p] = p /\ p \in DOMAIN kind
  BY KindOf DEF Owns
<1>2. ASSUME NEW s \in DOMAIN kind, own[s] = p, NEW k
      PROVE  /\ Reached(m2, s, k) = Reached(m, s, k)
             /\ Reached(m2, s, k) \intersect m2.nodes = Reached(m, s, k) \intersect m.nodes
             /\ Reached(m2, s, k) \intersect m2.wires = Reached(m, s, k) \intersect m.wires
             /\ Reached(m2, s, k) \intersect m2.ports = Reached(m, s, k) \intersect m.ports
  <2>1. Reached(m2, s, k) = Reached(m, s, k)
    BY <1>2 DEF Agree
  <2>2. \A x \in Reached(m, s, k) : x \in m.nodes \union m.wires \union m.ports => x \in DOMAIN kind /\ own[x] = p
    BY <1>2, ReachedOfOne
  <2>3. \A x \in Reached(m, s, k) : x \in m2.nodes \union m2.wires \union m2.ports => x \in DOMAIN kind /\ own[x] = p
    BY <1>2, <2>1, ReachedOfOne
  <2>4. ASSUME NEW x \in Reached(m, s, k)
        PROVE  /\ x \in m2.nodes <=> x \in m.nodes
               /\ x \in m2.wires <=> x \in m.wires
               /\ x \in m2.ports <=> x \in m.ports
    BY <2>2, <2>3 DEF Agree
  <2>5. QED
    BY <2>1, <2>4
<1>3. NodesOf(m2, p) = NodesOf(m, p)
  BY <1>1, <1>2 DEF NodesOf
<1>4. \A n \in NodesOf(m, p) : n \in DOMAIN kind /\ own[n] = p
  BY <1>1, ReachedOfOne DEF NodesOf
<1>5. \A n \in NodesOf(m, p) : (n \in m2.starts <=> n \in m.starts) /\ PortsOf(m2, n) = PortsOf(m, n)
  BY <1>2, <1>4 DEF PortsOf, Agree
<1>6. \A n \in NodesOf(m, p) : \A w \in Reached(m, n, "has") \intersect m.wires : w \in DOMAIN kind /\ own[w] = p
  BY <1>4, ReachedOfOne
<1>7. \A n \in NodesOf(m, p) : outgoingWires(m2, n) = outgoingWires(m, n)
  <2>1. TAKE n \in NodesOf(m, p)
  <2> DEFINE here == Reached(m, n, "has") \intersect m.wires
  <2>2. Reached(m2, n, "has") \intersect m2.wires = here
    BY <1>2, <1>4
  <2>3. \A w \in here : /\ Reached(m2, w, "wire") \intersect m2.nodes = Reached(m, w, "wire") \intersect m.nodes
                        /\ Reached(m2, w, "in") = Reached(m, w, "in")
                        /\ Reached(m2, w, "out") = Reached(m, w, "out")
    BY <1>2, <1>6
  <2>4. outgoingWires(m, n) = {w \in here : /\ Reached(m, w, "wire") \intersect m.nodes # {}
                                            /\ Reached(m, w, "in") # {}
                                            /\ Reached(m, w, "out") # {}}
    BY DEF outgoingWires
  <2>5. outgoingWires(m2, n) = {w \in here : /\ Reached(m2, w, "wire") \intersect m2.nodes # {}
                                             /\ Reached(m2, w, "in") # {}
                                             /\ Reached(m2, w, "out") # {}}
    BY <2>2 DEF outgoingWires
  <2> HIDE DEF here
  <2>6. QED
    BY <2>3, <2>4, <2>5
<1>8. \A n \in NodesOf(m, p) : \A w \in outgoingWires(m, n) : WireRead(m2, n, w) = WireRead(m, n, w)
  <2>1. TAKE n \in NodesOf(m, p)
  <2>2. TAKE w \in outgoingWires(m, n)
  <2>3. w \in DOMAIN kind /\ own[w] = p
    BY <1>6 DEF outgoingWires
  <2>4. /\ Reached(m2, w, "wire") \intersect m2.nodes = Reached(m, w, "wire") \intersect m.nodes
        /\ Reached(m2, w, "in") = Reached(m, w, "in")
        /\ Reached(m2, w, "out") = Reached(m, w, "out")
        /\ Reached(m2, w, "taken") = Reached(m, w, "taken")
    BY <1>2, <2>3
  <2>5. QED
    BY <2>4 DEF WireRead
<1> DEFINE N == NodesOf(m, p)
           ns(x) == {[id |-> n, start |-> n \in x.starts, ports |-> PortsOf(x, n)] : n \in N}
           es(x) == {e \in UNION {{WireRead(x, n, w) : w \in outgoingWires(x, n)} : n \in N} : e.target \in N}
<1>9. ns(m2) = ns(m)
  <2>1. \A n \in N : [id |-> n, start |-> n \in m2.starts, ports |-> PortsOf(m2, n)]
                     = [id |-> n, start |-> n \in m.starts, ports |-> PortsOf(m, n)]
    <3>1. TAKE n \in N
    <3>2. (n \in m2.starts) = (n \in m.starts) /\ PortsOf(m2, n) = PortsOf(m, n)
      BY <1>5
    <3>3. QED
      BY <3>2
  <2>2. QED
    BY <2>1
<1>10. es(m2) = es(m)
  <2>1. \A n \in N : {WireRead(m2, n, w) : w \in outgoingWires(m2, n)} = {WireRead(m, n, w) : w \in outgoingWires(m, n)}
    BY <1>7, <1>8
  <2>2. QED
    BY <2>1
<1>11. loadPipeline(m, p) = [nodes |-> ns(m), edges |-> es(m)]
  BY DEF loadPipeline
<1>12. loadPipeline(m2, p) = [nodes |-> ns(m2), edges |-> es(m2)]
  BY <1>3 DEF loadPipeline
<1>13. QED
  BY <1>9, <1>10, <1>11, <1>12

\* A request of a pipeline leaves what the model holds of another.
LEMMA OthersAgree ==
  ASSUME NEW kind, DOMAIN kind \subseteq Int, NEW own, Owns(kind, own), NEW L, NEW m, Fits(m, kind),
         RelsOwned(m, kind, own, L), NEW q, q \notin L, NEW w, RequestFits(w, kind), WriteOf(w, q, kind, own, L),
         NEW p, p \notin L, p # q
  PROVE  Agree(m, Applied(m, w), p, kind, own)
<1> DEFINE m2 == Applied(m, w)
<1>1. /\ m2.nodes = (m.nodes \ w.removed) \union w.added.nodes
      /\ m2.starts = (m.starts \ w.removed) \union w.added.starts
      /\ m2.wires = (m.wires \ w.removed) \union w.added.wires
      /\ m2.ports = (m.ports \ w.removed) \union w.added.ports
      /\ m2.rels = {r \in m.rels : r[1] \notin w.removed /\ r[3] \notin w.removed /\ r \notin w.retracted}
                     \union w.added.rels
  BY AppliedIs
<1> HIDE DEF m2
<1>2. \A x \in w.removed \union ThingsOf(w.added) : own[x] = q
  BY DEF WriteOf, OfPipeline
<1>3. /\ w.added.nodes \union w.added.wires \union w.added.ports \subseteq ThingsOf(w.added)
      /\ w.added.starts \subseteq ThingsOf(w.added)
  BY DEF ThingsOf, RequestFits, Fits
<1>4. w.removed \subseteq DOMAIN kind
  BY KindOf DEF RequestFits
<1>5. ASSUME NEW r \in m.rels, own[r[1]] = p
      PROVE  r \in m2.rels
  <2>1. r[1] \notin w.removed /\ r \notin w.retracted
    BY <1>2, <1>5 DEF WriteOf
  <2>2. r[3] \notin w.removed
    BY <1>2, <1>4, <1>5 DEF RelsOwned, RelOwned
  <2>3. QED
    BY <1>1, <2>1, <2>2
<1>6. ASSUME NEW r \in m2.rels, own[r[1]] = p
      PROVE  r \in m.rels
  <2>1. r \notin w.added.rels
    BY <1>6 DEF WriteOf
  <2>2. QED
    BY <1>1, <2>1
<1>7. ASSUME NEW s \in DOMAIN kind, own[s] = p, NEW k
      PROVE  Reached(m2, s, k) = Reached(m, s, k)
  <2>1. {r \in m2.rels : r[1] = s /\ r[2] = k} = {r \in m.rels : r[1] = s /\ r[2] = k}
    BY <1>5, <1>6, <1>7
  <2>2. QED
    BY <2>1 DEF Reached
<1>8. ASSUME NEW x \in DOMAIN kind, own[x] = p
      PROVE  /\ x \in m2.nodes <=> x \in m.nodes
             /\ x \in m2.starts <=> x \in m.starts
             /\ x \in m2.wires <=> x \in m.wires
             /\ x \in m2.ports <=> x \in m.ports
  <2>1. x \notin w.removed /\ x \notin ThingsOf(w.added)
    BY <1>2, <1>8
  <2>2. QED
    BY <1>1, <1>3, <2>1
<1>9. Agree(m, m2, p, kind, own)
  BY <1>7, <1>8 DEF Agree
<1>10. QED
  BY <1>9 DEF m2

\* The pipelines a save may not touch.
KeptStep ==
  ~mingled /\ save.pipeline \notin left =>
    \A p \in model.pipelines \ (left \union {save.pipeline}) : loadPipeline(model', p) = loadPipeline(model, p)

\* A request that is made leaves every other pipeline to read as it did.
LEMMA WrittenKept ==
  ASSUME NEW kind, Kinded(kind), NEW own, Owned(kind, own), todo # <<>>, save.pipeline \notin left,
         NEW p \in model.pipelines \ (left \union {save.pipeline})
  PROVE  loadPipeline(Applied(model, Head(todo)), p) = loadPipeline(model, p)
<1>1. Head(todo) \in Range(todo)
  BY HeadTail DEF Kinded
<1>2. /\ DOMAIN kind \subseteq Int /\ Fits(model, kind) /\ RequestFits(Head(todo), kind)
      /\ p \in Of(kind, "pipeline") /\ p \notin left /\ p # save.pipeline
  BY <1>1 DEF Kinded, Fits
<1>3. /\ Owns(kind, own) /\ RelsOwned(model, kind, own, left) /\ Homed(model, own)
      /\ WriteOf(Head(todo), save.pipeline, kind, own, left)
  BY <1>1 DEF Owned
<1> DEFINE m2 == Applied(model, Head(todo))
<1>4. Fits(m2, kind)
  BY <1>2, AppliedFits
<1>5. RelsOwned(m2, kind, own, left)
  BY <1>2, <1>3, AppliedOwned
<1>6. Agree(model, m2, p, kind, own)
  BY <1>2, <1>3, OthersAgree
<1> HIDE DEF m2
<1>7. loadPipeline(m2, p) = loadPipeline(model, p)
  BY <1>2, <1>3, <1>4, <1>5, <1>6, AgreeLoad
<1>8. QED
  BY <1>7 DEF m2

\* Every step leaves the pipelines it may not touch to read as they did.
LEMMA StepKeepsOthers ==
  ASSUME PipelineInv, [Next]_vars
  PROVE  KeptStep
<1>1. SUFFICES ASSUME ~mingled, save.pipeline \notin left,
                      NEW p \in model.pipelines \ (left \union {save.pipeline})
               PROVE  loadPipeline(model', p) = loadPipeline(model, p)
  BY DEF KeptStep
<1>2. PICK kind, own : Kinded(kind) /\ Owned(kind, own)
  BY <1>1 DEF PipelineInv
<1>3. model' = model \/ (todo # <<>> /\ model' = Applied(model, Head(todo)))
  BY DEF Next, vars, place, onConnect, setEdgeTakenOn, onEdgesDelete, onNodesDelete, onNodeDragStart, Edited,
         EditedUnmarked, EditedOnce, onUndo, onLoad, onNew, OpensWith, onSave, Writing, Saved, SaveFails, Hears
<1>4. CASE model' = model
  BY <1>4
<1>5. CASE todo # <<>> /\ model' = Applied(model, Head(todo))
  BY <1>1, <1>2, <1>5, WrittenKept
<1>6. QED
  BY <1>3, <1>4, <1>5

\* For any Things held before and any bounds: saving a pipeline (onSave of PipelineEditorPage.tsx and the requests
\* of savePipeline.ts), retried and interleaved with opening others, changes what no other pipeline reads as.
THEOREM OtherPipelinesAreKept == Spec => OthersKept
<1>1. PipelineInv /\ [Next]_vars => [KeptStep]_vars
  BY StepKeepsOthers
<1>2. QED
  BY <1>1, PipelineKept, PTL DEF Spec, OthersKept, KeptStep

\* For any Things held before and any bounds: a node of the canvas the model holds is one of the pipeline that is
\* edited, whatever was opened, saved, undone and heard in whichever order (PipelineEditorPage.tsx).
THEOREM WhatIsShownIsEdited == Spec => []ShownIsEdited
<1>1. PipelineInv => ShownIsEdited
  <2>1. SUFFICES ASSUME PipelineInv, ~crossed, ~mingled, NEW n \in canvas.nodes, n.id \in model.nodes
                 PROVE  n.id \in NodesOf(model, editingPipelineId)
    BY DEF ShownIsEdited
  <2>2. PICK kind, own : Kinded(kind) /\ Owned(kind, own)
    BY <2>1 DEF PipelineInv
  <2>3. /\ DOMAIN kind \subseteq Int /\ \A x \in DOMAIN kind : x > 0
        /\ Fits(model, kind) /\ canvas \in Drawings
    BY <2>2 DEF Kinded, Drawings
  <2>4. n.id > 0
    BY <2>1, <2>3, KindOf DEF Fits
  <2>5. own[n.id] = editingPipelineId
    BY <2>1, <2>2, <2>3, <2>4 DEF Owned, ShownOf
  <2>6. <<editingPipelineId, "has", n.id>> \in model.rels
    BY <2>1, <2>2, <2>5 DEF Owned, Homed
  <2>7. n.id \in Reached(model, editingPipelineId, "has")
    BY <2>3, <2>6, ReachedFits
  <2>8. QED
    BY <2>1, <2>7 DEF NodesOf
<1>2. QED
  BY <1>1, PipelineKept, PTL

-----------------------------------------------------------------------------
\* The model once every request of a plan has been made: where none undoes another, their order does not tell.

\* What a set of requests takes away and adds.
RemovedBy(T)   == UNION {w.removed : w \in T}
RetractedBy(T) == UNION {w.retracted : w \in T}
PipelinesBy(T) == UNION {w.added.pipelines : w \in T}
NodesBy(T)     == UNION {w.added.nodes : w \in T}
StartsBy(T)    == UNION {w.added.starts : w \in T}
WiresBy(T)     == UNION {w.added.wires : w \in T}
PortsBy(T)     == UNION {w.added.ports : w \in T}
RelatedBy(T)   == UNION {w.added.rels : w \in T}

\* The model once every request of a set has been made.
After(m, T) ==
  [pipelines |-> (m.pipelines \ RemovedBy(T)) \union PipelinesBy(T),
   nodes |-> (m.nodes \ RemovedBy(T)) \union NodesBy(T),
   starts |-> (m.starts \ RemovedBy(T)) \union StartsBy(T),
   wires |-> (m.wires \ RemovedBy(T)) \union WiresBy(T),
   ports |-> (m.ports \ RemovedBy(T)) \union PortsBy(T),
   rels |-> {r \in m.rels : r[1] \notin RemovedBy(T) /\ r[3] \notin RemovedBy(T) /\ r \notin RetractedBy(T)}
              \union RelatedBy(T)]

\* Nothing a set of requests adds is taken away by one of them, so that their order does not tell.
NoClash(T) ==
  \A w \in T :
    /\ \A x \in ThingsOf(w.added) \union w.added.starts : x \notin RemovedBy(T)
    /\ \A r \in w.added.rels : r[1] \notin RemovedBy(T) /\ r[3] \notin RemovedBy(T) /\ r \notin RetractedBy(T)

\* The parts of the model once every request of a set has been made.
LEMMA AfterIs ==
  ASSUME NEW m, NEW T, NEW x, x = After(m, T)
  PROVE  /\ x.pipelines = (m.pipelines \ RemovedBy(T)) \union PipelinesBy(T)
         /\ x.nodes = (m.nodes \ RemovedBy(T)) \union NodesBy(T)
         /\ x.starts = (m.starts \ RemovedBy(T)) \union StartsBy(T)
         /\ x.wires = (m.wires \ RemovedBy(T)) \union WiresBy(T)
         /\ x.ports = (m.ports \ RemovedBy(T)) \union PortsBy(T)
         /\ x.rels = {r \in m.rels : r[1] \notin RemovedBy(T) /\ r[3] \notin RemovedBy(T) /\ r \notin RetractedBy(T)}
                       \union RelatedBy(T)
         /\ x = [pipelines |-> x.pipelines, nodes |-> x.nodes, starts |-> x.starts, wires |-> x.wires,
                 ports |-> x.ports, rels |-> x.rels]
<1> DEFINE a == (m.pipelines \ RemovedBy(T)) \union PipelinesBy(T)
           b == (m.nodes \ RemovedBy(T)) \union NodesBy(T)
           c == (m.starts \ RemovedBy(T)) \union StartsBy(T)
           d == (m.wires \ RemovedBy(T)) \union WiresBy(T)
           e == (m.ports \ RemovedBy(T)) \union PortsBy(T)
           f == {r \in m.rels : r[1] \notin RemovedBy(T) /\ r[3] \notin RemovedBy(T) /\ r \notin RetractedBy(T)}
                       \union RelatedBy(T)
<1>1. x = [pipelines |-> a, nodes |-> b, starts |-> c, wires |-> d, ports |-> e, rels |-> f]
  BY Zenon DEF After
<1> HIDE DEF a, b, c, d, e, f
<1>2. /\ x.pipelines = a /\ x.nodes = b /\ x.starts = c /\ x.wires = d /\ x.ports = e /\ x.rels = f
      /\ x = [pipelines |-> x.pipelines, nodes |-> x.nodes, starts |-> x.starts, wires |-> x.wires,
                 ports |-> x.ports, rels |-> x.rels]
  BY <1>1
<1>3. QED
  BY <1>2 DEF a, b, c, d, e, f

\* The first request made, the rest lead where they all led.
LEMMA AfterNext ==
  ASSUME NEW m, NEW w, NEW T, NoClash({w} \union T)
  PROVE  After(Applied(m, w), T) = After(m, {w} \union T) /\ NoClash(T)
<1> DEFINE U == {w} \union T
           x == Applied(m, w)
           y == After(x, T)
           z == After(m, U)
<1>1. RemovedBy(U) = w.removed \union RemovedBy(T) /\ RetractedBy(U) = w.retracted \union RetractedBy(T)
      /\ RelatedBy(U) = w.added.rels \union RelatedBy(T)
  BY DEF RemovedBy, RetractedBy, RelatedBy
<1>2. /\ x.pipelines = (m.pipelines \ w.removed) \union w.added.pipelines
      /\ x.nodes = (m.nodes \ w.removed) \union w.added.nodes
      /\ x.starts = (m.starts \ w.removed) \union w.added.starts
      /\ x.wires = (m.wires \ w.removed) \union w.added.wires
      /\ x.ports = (m.ports \ w.removed) \union w.added.ports
      /\ x.rels = {r \in m.rels : r[1] \notin w.removed /\ r[3] \notin w.removed /\ r \notin w.retracted}
                    \union w.added.rels
  BY AppliedIs
<1> HIDE DEF x
<1>3. /\ y.pipelines = (x.pipelines \ RemovedBy(T)) \union PipelinesBy(T)
      /\ y.nodes = (x.nodes \ RemovedBy(T)) \union NodesBy(T)
      /\ y.starts = (x.starts \ RemovedBy(T)) \union StartsBy(T)
      /\ y.wires = (x.wires \ RemovedBy(T)) \union WiresBy(T)
      /\ y.ports = (x.ports \ RemovedBy(T)) \union PortsBy(T)
      /\ y.rels = {r \in x.rels : r[1] \notin RemovedBy(T) /\ r[3] \notin RemovedBy(T) /\ r \notin RetractedBy(T)}
                    \union RelatedBy(T)
      /\ y = [pipelines |-> y.pipelines, nodes |-> y.nodes, starts |-> y.starts, wires |-> y.wires,
              ports |-> y.ports, rels |-> y.rels]
  BY AfterIs
<1>4. /\ z.pipelines = (m.pipelines \ RemovedBy(U)) \union PipelinesBy(U)
      /\ z.nodes = (m.nodes \ RemovedBy(U)) \union NodesBy(U)
      /\ z.starts = (m.starts \ RemovedBy(U)) \union StartsBy(U)
      /\ z.wires = (m.wires \ RemovedBy(U)) \union WiresBy(U)
      /\ z.ports = (m.ports \ RemovedBy(U)) \union PortsBy(U)
      /\ z.rels = {r \in m.rels : r[1] \notin RemovedBy(U) /\ r[3] \notin RemovedBy(U) /\ r \notin RetractedBy(U)}
                    \union RelatedBy(U)
      /\ z = [pipelines |-> z.pipelines, nodes |-> z.nodes, starts |-> z.starts, wires |-> z.wires,
              ports |-> z.ports, rels |-> z.rels]
  <2> HIDE DEF U
  <2> QED BY AfterIs
<1>5. /\ PipelinesBy(U) = w.added.pipelines \union PipelinesBy(T)
      /\ NodesBy(U) = w.added.nodes \union NodesBy(T)
      /\ StartsBy(U) = w.added.starts \union StartsBy(T)
      /\ WiresBy(U) = w.added.wires \union WiresBy(T)
      /\ PortsBy(U) = w.added.ports \union PortsBy(T)
  BY DEF PipelinesBy, NodesBy, StartsBy, WiresBy, PortsBy
<1>6. w \in U /\ T \subseteq U
  OBVIOUS
<1>7. /\ \A v \in w.added.pipelines \union w.added.nodes \union w.added.starts \union w.added.wires \union w.added.ports :
           v \notin RemovedBy(T)
      /\ \A r \in w.added.rels : r[1] \notin RemovedBy(T) /\ r[3] \notin RemovedBy(T) /\ r \notin RetractedBy(T)
  BY <1>1, <1>6 DEF NoClash, ThingsOf
<1>8. NoClash(T)
  BY <1>1, <1>6 DEF NoClash
<1> HIDE DEF y, z, U
<1>9. y.pipelines = z.pipelines
  BY <1>1, <1>2, <1>3, <1>4, <1>5, <1>7
<1>10. y.nodes = z.nodes
  BY <1>1, <1>2, <1>3, <1>4, <1>5, <1>7
<1>11. y.starts = z.starts
  BY <1>1, <1>2, <1>3, <1>4, <1>5, <1>7
<1>12. y.wires = z.wires
  BY <1>1, <1>2, <1>3, <1>4, <1>5, <1>7
<1>13. y.ports = z.ports
  BY <1>1, <1>2, <1>3, <1>4, <1>5, <1>7
<1>14. y.rels = z.rels
  BY <1>1, <1>2, <1>3, <1>4, <1>7
<1>15. y = z
  BY <1>3, <1>4, <1>9, <1>10, <1>11, <1>12, <1>13, <1>14
<1>16. QED
  BY <1>8, <1>15 DEF y, z, U, x

\* Models that hold the same read alike.
LEMMA LoadAlike ==
  ASSUME NEW m, NEW x, x.nodes = m.nodes, x.starts = m.starts, x.wires = m.wires, x.ports = m.ports,
         x.rels = m.rels, NEW p
  PROVE  loadPipeline(x, p) = loadPipeline(m, p)
<1>1. \A s, k : Reached(x, s, k) = Reached(m, s, k)
  BY DEF Reached
<1>2. NodesOf(x, p) = NodesOf(m, p)
  BY <1>1 DEF NodesOf
<1>3. \A n : PortsOf(x, n) = PortsOf(m, n)
  BY <1>1 DEF PortsOf
<1>4. \A n : outgoingWires(x, n) = outgoingWires(m, n)
  BY <1>1 DEF outgoingWires
<1>5. \A n, w : WireRead(x, n, w) = WireRead(m, n, w)
  BY <1>1 DEF WireRead
<1> DEFINE N == NodesOf(m, p)
           ns(q) == {[id |-> n, start |-> n \in q.starts, ports |-> PortsOf(q, n)] : n \in N}
           W(q, n) == {WireRead(q, n, w) : w \in outgoingWires(q, n)}
           es(q) == {e \in UNION {W(q, n) : n \in N} : e.target \in N}
<1>6. loadPipeline(m, p) = [nodes |-> ns(m), edges |-> es(m)] /\ loadPipeline(x, p) = [nodes |-> ns(x), edges |-> es(x)]
  BY <1>2 DEF loadPipeline
<1>7. ns(x) = ns(m)
  BY <1>3
<1>8. es(x) = es(m)
  <2>1. \A n \in N : W(x, n) = W(m, n)
    BY <1>4, <1>5
  <2> HIDE DEF N, W
  <2>2. QED
    BY <2>1
<1>9. QED
  BY <1>6, <1>7, <1>8

\* With no request left, the model reads as it does.
LEMMA AfterNothing ==
  ASSUME NEW m, NEW p
  PROVE  loadPipeline(After(m, {}), p) = loadPipeline(m, p)
<1> DEFINE x == After(m, {})
<1>1. /\ RemovedBy({}) = {} /\ RetractedBy({}) = {} /\ RelatedBy({}) = {}
      /\ NodesBy({}) = {} /\ StartsBy({}) = {} /\ WiresBy({}) = {} /\ PortsBy({}) = {}
  BY DEF RemovedBy, RetractedBy, RelatedBy, NodesBy, StartsBy, WiresBy, PortsBy
<1> DEFINE T == {}
<1>1a. /\ x.nodes = (m.nodes \ RemovedBy(T)) \union NodesBy(T)
       /\ x.starts = (m.starts \ RemovedBy(T)) \union StartsBy(T)
       /\ x.wires = (m.wires \ RemovedBy(T)) \union WiresBy(T)
       /\ x.ports = (m.ports \ RemovedBy(T)) \union PortsBy(T)
       /\ x.rels = {r \in m.rels : r[1] \notin RemovedBy(T) /\ r[3] \notin RemovedBy(T) /\ r \notin RetractedBy(T)}
                     \union RelatedBy(T)
  <2>1. x = After(m, T)
    OBVIOUS
  <2> HIDE DEF x, T
  <2> QED BY <2>1, AfterIs
<1> HIDE DEF x
<1>2. x.nodes = m.nodes /\ x.starts = m.starts /\ x.wires = m.wires /\ x.ports = m.ports /\ x.rels = m.rels
  BY <1>1, <1>1a
<1>3. loadPipeline(x, p) = loadPipeline(m, p)
  BY <1>2, LoadAlike
<1>4. QED
  BY <1>3 DEF x

\* Requests that keep to the kinds lead to a model that does.
LEMMA AfterFits ==
  ASSUME NEW kind, NEW m, NEW T, Fits(m, kind), \A w \in T : RequestFits(w, kind)
  PROVE  Fits(After(m, T), kind)
<1> DEFINE x == After(m, T)
<1>1. /\ x.pipelines = (m.pipelines \ RemovedBy(T)) \union PipelinesBy(T)
      /\ x.nodes = (m.nodes \ RemovedBy(T)) \union NodesBy(T)
      /\ x.starts = (m.starts \ RemovedBy(T)) \union StartsBy(T)
      /\ x.wires = (m.wires \ RemovedBy(T)) \union WiresBy(T)
      /\ x.ports = (m.ports \ RemovedBy(T)) \union PortsBy(T)
      /\ x.rels = {r \in m.rels : r[1] \notin RemovedBy(T) /\ r[3] \notin RemovedBy(T) /\ r \notin RetractedBy(T)}
                    \union RelatedBy(T)
  BY AfterIs
<1> HIDE DEF x
<1>2. \A w \in T : Fits(w.added, kind)
  BY DEF RequestFits
<1>3. /\ x.pipelines \subseteq Of(kind, "pipeline") /\ x.nodes \subseteq NodesIn(kind)
      /\ x.wires \subseteq Of(kind, "wire") /\ x.ports \subseteq Of(kind, "port")
  BY <1>1, <1>2 DEF Fits, PipelinesBy, NodesBy, WiresBy, PortsBy
<1>4. x.starts = x.nodes \intersect Of(kind, "start")
  <2>1. \A w \in T : w.added.starts = w.added.nodes \intersect Of(kind, "start")
    BY <1>2 DEF Fits
  <2>2. m.starts = m.nodes \intersect Of(kind, "start")
    BY DEF Fits
  <2>3. QED
    BY <1>1, <2>1, <2>2 DEF NodesBy, StartsBy
<1>5. x.rels \subseteq RelsIn(kind)
  BY <1>1, <1>2 DEF Fits, RelatedBy
<1>6. ASSUME NEW r \in x.rels, r[2] = "has", r[3] \in Of(kind, "port")
      PROVE  r[3] \in x.ports
  <2>1. CASE r \in m.rels /\ r[3] \notin RemovedBy(T)
    BY <1>1, <1>6, <2>1 DEF Fits
  <2>2. CASE r \in RelatedBy(T)
    <3>1. PICK w \in T : r \in w.added.rels
      BY <2>2 DEF RelatedBy
    <3>2. r[3] \in w.added.ports
      BY <1>2, <1>6, <3>1 DEF Fits
    <3>3. QED
      BY <1>1, <3>2 DEF PortsBy
  <2>3. QED
    BY <1>1, <2>1, <2>2
<1>7. QED
  BY <1>3, <1>4, <1>5, <1>6 DEF Fits, x

-----------------------------------------------------------------------------
\* A sound save: what its requests add and take away, taken together.

\* A wire has one target and one port it comes from, and one node holds it.
Single(rels, wires) ==
  \A r, s \in rels : r[2] = s[2] => /\ r[2] \in {"wire", "in"} /\ r[1] = s[1] => r = s
                                    /\ r[2] = "has" /\ r[3] = s[3] /\ r[3] \in wires => r = s

\* The relationships of a wire e that is the Thing x.
WireRels(x, e) == {<<e.source, "has", x>>, <<x, "wire", e.target>>, <<x, "in", e.outPort>>, <<x, "out", e.inPort>>}
                    \union {<<x, "taken", t>> : t \in e.taken}

FragmentRels(d, p) == {<<p, "has", n.id>> : n \in d.nodes}
                        \union (UNION {{<<n.id, "has", q>> : q \in n.ports} : n \in Started(d)})

NewEdges(d, m, P) == {e \in d.edges : Known(m, P, e) = {}}

\* What a wire the model holds is taken on, and is no longer.
Marks(m, x, e)   == {<<x, "taken", t>> : t \in e.taken \ Reached(m, x, "taken")}
Unmarks(m, x, e) == {<<x, "taken", t>> : t \in Reached(m, x, "taken") \ e.taken}

\* A sound save of the drawing d into the pipeline p of the model m: the Things up to k are there, wire[e] is a Thing
\* of its own for each wire.
SoundPlan(k, kind, k2, kind2, m, d, p, wire) ==
  /\ k \in Nat /\ k2 \in Nat /\ DOMAIN kind = 1..k /\ DOMAIN kind2 = 1..k2
  /\ Fits(m, kind) /\ Fits(m, kind2)
  /\ CanvasFits(d, kind2, 0)
  /\ \A n \in d.nodes : n.id > 0
  /\ p \in Of(kind2, "pipeline")
  /\ \A e \in d.edges : wire[e] \in Of(kind2, "wire") /\ wire[e] > k
  /\ \A e, f \in d.edges : wire[e] = wire[f] => e = f
  /\ Single(m.rels, m.wires)
  /\ \A n \in d.nodes : n.id <= k => n.id \in NodesOf(m, p)
  /\ \A n \in d.nodes, x \in m.nodes :
        n.start => IF x = n.id THEN OwnPorts(m, x) \subseteq n.ports ELSE OwnPorts(m, x) \intersect n.ports = {}
  /\ \A e, f \in d.edges : wireKey(e) = wireKey(f) => e = f
  /\ \A x, y \in PersistedWires(m, NodesOf(m, p)) :
        wireKey(WireRead(m, x[1], x[2])) = wireKey(WireRead(m, y[1], y[2])) => x = y
  /\ \A e \in d.edges : \E n \in d.nodes : n.id = e.source /\ e.outPort \in n.ports

PlanOf(d, m, p, wire) == Requested(d, m, p, NodesOf(m, p), wire)
WiresOf(m, p)         == PersistedWires(m, NodesOf(m, p))
GoneOf(d, m, p)       == Undesired(d, m, WiresOf(m, p)) \union Goes(d, m, NodesOf(m, p))

\* What the requests of a plan add and take, taken together.
LEMMA PiecesAdd ==
  ASSUME NEW x, NEW e
  PROVE  /\ \A w \in Pieces(x, e) : /\ w.removed = {} /\ w.retracted = {}
                                    /\ w.added.pipelines = {} /\ w.added.nodes = {} /\ w.added.starts = {}
                                    /\ w.added.wires \subseteq {x} /\ w.added.ports = {}
                                    /\ w.added.rels \subseteq WireRels(x, e)
         /\ \E w \in Pieces(x, e) : x \in w.added.wires
         /\ \A r \in WireRels(x, e) : \E w \in Pieces(x, e) : r \in w.added.rels
<1> DEFINE a == Adds([Nothing EXCEPT !.wires = {x}])
           S == {<<e.source, "has", x>>, <<x, "wire", e.target>>, <<x, "in", e.outPort>>, <<x, "out", e.inPort>>}
                       \union {<<x, "taken", t>> : t \in e.taken}
<1>1. /\ a.removed = {} /\ a.retracted = {}
      /\ a.added.pipelines = {} /\ a.added.nodes = {} /\ a.added.starts = {}
      /\ a.added.wires = {x} /\ a.added.ports = {} /\ a.added.rels = {}
  BY WireAddIs
<1>2. a \in Pieces(x, e)
  BY DEF Pieces
<1>3. \A r \in S : Relates(r) \in Pieces(x, e)
  BY DEF Pieces
<1>4. WireRels(x, e) = S
  BY DEF WireRels
<1> HIDE DEF a, S
<1>5. \A w \in Pieces(x, e) : w = a \/ \E r \in S : w = Relates(r)
  BY PiecesAre DEF a, S
<1>6. ASSUME NEW r \in S
      PROVE  /\ Relates(r).removed = {} /\ Relates(r).retracted = {}
             /\ Relates(r).added.pipelines = {} /\ Relates(r).added.nodes = {} /\ Relates(r).added.starts = {}
             /\ Relates(r).added.wires = {} /\ Relates(r).added.ports = {} /\ Relates(r).added.rels = {r}
  BY RelatesIs
<1>7. ASSUME NEW w \in Pieces(x, e)
      PROVE  /\ w.removed = {} /\ w.retracted = {}
             /\ w.added.pipelines = {} /\ w.added.nodes = {} /\ w.added.starts = {}
             /\ w.added.wires \subseteq {x} /\ w.added.ports = {}
             /\ w.added.rels \subseteq S
  <2>1. CASE w = a
    BY <1>1, <2>1
  <2>2. CASE \E r \in S : w = Relates(r)
    BY <1>6, <2>2
  <2>3. QED
    BY <1>5, <2>1, <2>2
<1>8. \E w \in Pieces(x, e) : x \in w.added.wires
  BY <1>1, <1>2
<1>9. \A r \in S : \E w \in Pieces(x, e) : r \in w.added.rels
  BY <1>3, <1>6
<1>10. QED
  BY <1>4, <1>7, <1>8, <1>9

\* What the changes of a wire the model holds add and end.
LEMMA ChangesAdd ==
  ASSUME NEW m, NEW x, NEW e
  PROVE  /\ \A w \in Changes(m, x, e) :
              /\ w.removed = {} /\ w.retracted \subseteq Unmarks(m, x, e)
              /\ w.added.pipelines = {} /\ w.added.nodes = {} /\ w.added.starts = {}
              /\ w.added.wires = {} /\ w.added.ports = {} /\ w.added.rels \subseteq Marks(m, x, e)
         /\ \A r \in Marks(m, x, e) : \E w \in Changes(m, x, e) : r \in w.added.rels
         /\ \A r \in Unmarks(m, x, e) : \E w \in Changes(m, x, e) : r \in w.retracted
<1>1. Changes(m, x, e) = {Relates(r) : r \in Marks(m, x, e)} \union {Retracts(r) : r \in Unmarks(m, x, e)}
  BY DEF Changes, Marks, Unmarks
<1>2. ASSUME NEW r
      PROVE  /\ Relates(r).removed = {} /\ Relates(r).retracted = {}
             /\ Relates(r).added.pipelines = {} /\ Relates(r).added.nodes = {} /\ Relates(r).added.starts = {}
             /\ Relates(r).added.wires = {} /\ Relates(r).added.ports = {} /\ Relates(r).added.rels = {r}
             /\ Retracts(r).removed = {} /\ Retracts(r).retracted = {r}
             /\ Retracts(r).added.pipelines = {} /\ Retracts(r).added.nodes = {} /\ Retracts(r).added.starts = {}
             /\ Retracts(r).added.wires = {} /\ Retracts(r).added.ports = {} /\ Retracts(r).added.rels = {}
  BY RelatesIs, RetractsIs
<1>3. ASSUME NEW w \in Changes(m, x, e)
      PROVE  /\ w.removed = {} /\ w.retracted \subseteq Unmarks(m, x, e)
             /\ w.added.pipelines = {} /\ w.added.nodes = {} /\ w.added.starts = {}
             /\ w.added.wires = {} /\ w.added.ports = {} /\ w.added.rels \subseteq Marks(m, x, e)
  <2>1. CASE \E r \in Marks(m, x, e) : w = Relates(r)
    BY <1>2, <2>1
  <2>2. CASE \E r \in Unmarks(m, x, e) : w = Retracts(r)
    BY <1>2, <2>2
  <2>3. QED
    BY <1>1, <2>1, <2>2
<1>4. \A r \in Marks(m, x, e) : \E w \in Changes(m, x, e) : r \in w.added.rels
  BY <1>1, <1>2
<1>5. \A r \in Unmarks(m, x, e) : \E w \in Changes(m, x, e) : r \in w.retracted
  BY <1>1, <1>2
<1>6. QED
  BY <1>3, <1>4, <1>5

\* The wires a model holds of a pipeline are told from one another by their keys.
Told(m, P) == \A x, y \in P : wireKey(WireRead(m, x[1], x[2])) = wireKey(WireRead(m, y[1], y[2])) => x = y

\* What a plan asks for, where wires are told apart by their keys.
LEMMA PlanRequests ==
  ASSUME NEW d, NEW m, NEW p, NEW wire, Told(m, WiresOf(m, p)), NEW T, T = PlanOf(d, m, p, wire)
  PROVE  /\ Fragment(d, p) \in T
         /\ \A e \in NewEdges(d, m, WiresOf(m, p)) : Pieces(wire[e], e) \subseteq T
         /\ \A e \in d.edges : \A q \in Known(m, WiresOf(m, p), e) : Changes(m, q[2], e) \subseteq T
         /\ \A x \in GoneOf(d, m, p) : Removes(x) \in T
         /\ \A w \in T : \/ w = Fragment(d, p)
                         \/ \E e \in NewEdges(d, m, WiresOf(m, p)) : w \in Pieces(wire[e], e)
                         \/ \E e \in d.edges : \E q \in Known(m, WiresOf(m, p), e) : w \in Changes(m, q[2], e)
                         \/ \E x \in GoneOf(d, m, p) : w = Removes(x)
<1> DEFINE N == NodesOf(m, p)
           P == PersistedWires(m, N)
           G == Undesired(d, m, P) \union Goes(d, m, N)
<1>1. T = {Fragment(d, p)} \union (UNION {Requests(m, P, e, wire[e]) : e \in d.edges}) \union {Removes(x) : x \in G}
  BY Zenon DEF PlanOf, Requested
<1>2. WiresOf(m, p) = P /\ GoneOf(d, m, p) = G
  BY DEF WiresOf, GoneOf
<1>3. \A w \in T : \/ w = Fragment(d, p)
                   \/ \E e \in d.edges : Known(m, P, e) = {} /\ w \in Pieces(wire[e], e)
                   \/ \E e \in d.edges : \E q \in Known(m, P, e) : w \in Changes(m, q[2], e)
                   \/ \E x \in G : w = Removes(x)
  BY RequestedIs DEF PlanOf
<1> HIDE DEF N, P, G
<1>4. ASSUME NEW e \in d.edges, NEW q \in Known(m, P, e)
      PROVE  Requests(m, P, e, wire[e]) = Changes(m, q[2], e)
  <2>1. \A y \in Known(m, P, e) : y = q
    BY <1>2 DEF Known, Told
  <2>2. The(Known(m, P, e)) = q
    BY <2>1 DEF The
  <2>3. Known(m, P, e) # {}
    OBVIOUS
  <2>4. QED
    BY <2>2, <2>3 DEF Requests
<1>5. \A e \in d.edges : Known(m, P, e) = {} => Requests(m, P, e, wire[e]) = Pieces(wire[e], e)
  BY DEF Requests
<1>6. \A e \in d.edges : Requests(m, P, e, wire[e]) \subseteq T
  BY <1>1
<1>7. /\ Fragment(d, p) \in T
      /\ \A x \in G : Removes(x) \in T
  BY <1>1
<1>8. \A e \in NewEdges(d, m, P) : Pieces(wire[e], e) \subseteq T
  BY <1>5, <1>6 DEF NewEdges
<1>9. \A e \in d.edges : \A q \in Known(m, P, e) : Changes(m, q[2], e) \subseteq T
  BY <1>4, <1>6
<1>10. \A w \in T : \/ w = Fragment(d, p)
                    \/ \E e \in NewEdges(d, m, P) : w \in Pieces(wire[e], e)
                    \/ \E e \in d.edges : \E q \in Known(m, P, e) : w \in Changes(m, q[2], e)
                    \/ \E x \in G : w = Removes(x)
  BY <1>3 DEF NewEdges
<1>11. QED
  BY <1>2, <1>7, <1>8, <1>9, <1>10

\* What a plan adds and takes, taken together.
MarksOf(d, m, P)   == UNION {UNION {Marks(m, q[2], e) : q \in Known(m, P, e)} : e \in d.edges}
UnmarksOf(d, m, P) == UNION {UNION {Unmarks(m, q[2], e) : q \in Known(m, P, e)} : e \in d.edges}
NewRels(d, m, P, wire) == UNION {WireRels(wire[e], e) : e \in NewEdges(d, m, P)}
NewWires(d, m, P, wire) == {wire[e] : e \in NewEdges(d, m, P)}
StartedPorts(d) == UNION {n.ports : n \in Started(d)}

\* What a plan adds and takes, taken together.
LEMMA PlanIs ==
  ASSUME NEW d, NEW m, NEW p, NEW wire, Told(m, WiresOf(m, p)), NEW T, T = PlanOf(d, m, p, wire)
  PROVE  /\ RemovedBy(T) = GoneOf(d, m, p)
         /\ RetractedBy(T) = UnmarksOf(d, m, WiresOf(m, p))
         /\ RelatedBy(T) = FragmentRels(d, p) \union NewRels(d, m, WiresOf(m, p), wire) \union MarksOf(d, m, WiresOf(m, p))
         /\ PipelinesBy(T) = {p}
         /\ NodesBy(T) = Ids(d)
         /\ WiresBy(T) = NewWires(d, m, WiresOf(m, p), wire)
         /\ PortsBy(T) = StartedPorts(d)
<1> DEFINE P == WiresOf(m, p)
           G == GoneOf(d, m, p)
           E == NewEdges(d, m, P)
           f == Fragment(d, p)
           Q == StartedPorts(d)
<1>1. /\ f \in T
      /\ \A e \in E : Pieces(wire[e], e) \subseteq T
      /\ \A e \in d.edges : \A q \in Known(m, P, e) : Changes(m, q[2], e) \subseteq T
      /\ \A x \in G : Removes(x) \in T
      /\ \A w \in T : \/ w = f
                      \/ \E e \in E : w \in Pieces(wire[e], e)
                      \/ \E e \in d.edges : \E q \in Known(m, P, e) : w \in Changes(m, q[2], e)
                      \/ \E x \in G : w = Removes(x)
  BY PlanRequests
<1>2. /\ f.removed = {} /\ f.retracted = {} /\ f.added.pipelines = {p} /\ f.added.nodes = Ids(d)
      /\ f.added.wires = {} /\ f.added.ports = Q /\ f.added.rels = FragmentRels(d, p)
  BY FragmentIs DEF FragmentRels, StartedPorts
<1> HIDE DEF P, G, E, f, Q
<1>3. ASSUME NEW w \in T
      PROVE  /\ w.removed \subseteq G /\ w.retracted \subseteq UnmarksOf(d, m, P)
             /\ w.added.rels \subseteq FragmentRels(d, p) \union NewRels(d, m, P, wire) \union MarksOf(d, m, P)
             /\ w.added.pipelines \subseteq {p} /\ w.added.nodes \subseteq Ids(d)
             /\ w.added.wires \subseteq {wire[e] : e \in E} /\ w.added.ports \subseteq Q
  <2>1. CASE w = f
    BY <1>2, <2>1
  <2>2. CASE \E e \in E : w \in Pieces(wire[e], e)
    <3>1. PICK e \in E : w \in Pieces(wire[e], e)
      BY <2>2
    <3>2. /\ w.removed = {} /\ w.retracted = {}
          /\ w.added.pipelines = {} /\ w.added.nodes = {}
          /\ w.added.wires \subseteq {wire[e]} /\ w.added.ports = {}
          /\ w.added.rels \subseteq WireRels(wire[e], e)
      BY <3>1, PiecesAdd
    <3>3. WireRels(wire[e], e) \subseteq NewRels(d, m, P, wire)
      BY DEF NewRels, E
    <3>4. QED
      BY <3>2, <3>3
  <2>3. CASE \E e \in d.edges : \E q \in Known(m, P, e) : w \in Changes(m, q[2], e)
    <3>1. PICK e \in d.edges : \E q \in Known(m, P, e) : w \in Changes(m, q[2], e)
      BY <2>3
    <3>2. PICK q \in Known(m, P, e) : w \in Changes(m, q[2], e)
      BY <3>1
    <3>3. /\ w.removed = {} /\ w.retracted \subseteq Unmarks(m, q[2], e)
          /\ w.added.pipelines = {} /\ w.added.nodes = {}
          /\ w.added.wires = {} /\ w.added.ports = {} /\ w.added.rels \subseteq Marks(m, q[2], e)
      BY <3>2, ChangesAdd
    <3>4. Marks(m, q[2], e) \subseteq MarksOf(d, m, P) /\ Unmarks(m, q[2], e) \subseteq UnmarksOf(d, m, P)
      BY DEF MarksOf, UnmarksOf
    <3>5. QED
      BY <3>3, <3>4
  <2>4. CASE \E x \in G : w = Removes(x)
    <3>1. PICK x \in G : w = Removes(x)
      BY <2>4
    <3>2. /\ w.removed = {x} /\ w.retracted = {}
          /\ w.added.pipelines = {} /\ w.added.nodes = {}
          /\ w.added.wires = {} /\ w.added.ports = {} /\ w.added.rels = {}
      BY <3>1, RemovesIs
    <3>3. QED
      BY <3>2
  <2>5. QED
    BY <1>1, <2>1, <2>2, <2>3, <2>4
<1>4. G \subseteq RemovedBy(T)
  <2>1. \A x \in G : Removes(x).removed = {x}
    BY RemovesIs
  <2>2. QED
    BY <1>1, <2>1 DEF RemovedBy
<1>5. UnmarksOf(d, m, P) \subseteq RetractedBy(T)
  <2>1. ASSUME NEW e \in d.edges, NEW q \in Known(m, P, e), NEW r \in Unmarks(m, q[2], e)
        PROVE  r \in RetractedBy(T)
    <3>1. PICK w \in Changes(m, q[2], e) : r \in w.retracted
      BY ChangesAdd
    <3>2. QED
      BY <1>1, <3>1 DEF RetractedBy
  <2>2. QED
    BY <2>1 DEF UnmarksOf
<1>6. MarksOf(d, m, P) \subseteq RelatedBy(T)
  <2>1. ASSUME NEW e \in d.edges, NEW q \in Known(m, P, e), NEW r \in Marks(m, q[2], e)
        PROVE  r \in RelatedBy(T)
    <3>1. PICK w \in Changes(m, q[2], e) : r \in w.added.rels
      BY ChangesAdd
    <3>2. QED
      BY <1>1, <3>1 DEF RelatedBy
  <2>2. QED
    BY <2>1 DEF MarksOf
<1>7. NewRels(d, m, P, wire) \subseteq RelatedBy(T)
  <2>1. ASSUME NEW e \in E, NEW r \in WireRels(wire[e], e)
        PROVE  r \in RelatedBy(T)
    <3>1. PICK w \in Pieces(wire[e], e) : r \in w.added.rels
      BY PiecesAdd
    <3>2. QED
      BY <1>1, <3>1 DEF RelatedBy
  <2>2. QED
    BY <2>1 DEF NewRels, E
<1>8. NewWires(d, m, P, wire) \subseteq WiresBy(T)
  <2>1. ASSUME NEW e \in E
        PROVE  wire[e] \in WiresBy(T)
    <3>1. PICK w \in Pieces(wire[e], e) : wire[e] \in w.added.wires
      BY PiecesAdd
    <3>2. QED
      BY <1>1, <3>1 DEF WiresBy
  <2>2. QED
    BY <2>1 DEF NewWires, E
<1>9. RemovedBy(T) = G
  BY <1>3, <1>4 DEF RemovedBy
<1>10. RetractedBy(T) = UnmarksOf(d, m, P)
  BY <1>3, <1>5 DEF RetractedBy
<1>11. RelatedBy(T) = FragmentRels(d, p) \union NewRels(d, m, P, wire) \union MarksOf(d, m, P)
  <2>1. FragmentRels(d, p) \subseteq RelatedBy(T)
    BY <1>1, <1>2 DEF RelatedBy
  <2>2. QED
    BY <1>3, <1>6, <1>7, <2>1 DEF RelatedBy
<1>12. PipelinesBy(T) = {p}
  BY <1>1, <1>2, <1>3 DEF PipelinesBy
<1>13. NodesBy(T) = Ids(d)
  BY <1>1, <1>2, <1>3 DEF NodesBy
<1>14. WiresBy(T) = NewWires(d, m, P, wire)
  BY <1>3, <1>8 DEF WiresBy, NewWires, E
<1>15. PortsBy(T) = Q
  BY <1>1, <1>2, <1>3 DEF PortsBy
<1>16. QED
  BY <1>9, <1>10, <1>11, <1>12, <1>13, <1>14, <1>15 DEF P, G, E, Q

\* What the first request of a save relates.
LEMMA FragmentRel ==
  ASSUME NEW d, NEW p, NEW s, NEW k, NEW x
  PROVE  <<s, k, x>> \in FragmentRels(d, p) <=>
           k = "has" /\ ((s = p /\ x \in Ids(d)) \/ \E n \in Started(d) : s = n.id /\ x \in n.ports)
<1>1. <<s, k, x>> \in {<<p, "has", n.id>> : n \in d.nodes} <=> k = "has" /\ s = p /\ x \in Ids(d)
  BY DEF Ids
<1>2. <<s, k, x>> \in UNION {{<<n.id, "has", q>> : q \in n.ports} : n \in Started(d)}
        <=> k = "has" /\ \E n \in Started(d) : s = n.id /\ x \in n.ports
  <2>1. ASSUME NEW n \in Started(d)
        PROVE  <<s, k, x>> \in {<<n.id, "has", q>> : q \in n.ports} <=> k = "has" /\ s = n.id /\ x \in n.ports
    OBVIOUS
  <2>2. QED
    BY <2>1
<1>3. QED
  BY <1>1, <1>2 DEF FragmentRels

\* What the pieces of a wire relate.
LEMMA WireRel ==
  ASSUME NEW y, NEW e, NEW s, NEW k, NEW x
  PROVE  <<s, k, x>> \in WireRels(y, e) <=>
           \/ k = "has" /\ s = e.source /\ x = y
           \/ k = "wire" /\ s = y /\ x = e.target
           \/ k = "in" /\ s = y /\ x = e.outPort
           \/ k = "out" /\ s = y /\ x = e.inPort
           \/ k = "taken" /\ s = y /\ x \in e.taken
BY DEF WireRels

\* What the changes of a wire relate and end.
LEMMA MarkRel ==
  ASSUME NEW m, NEW y, NEW e, NEW s, NEW k, NEW x
  PROVE  /\ <<s, k, x>> \in Marks(m, y, e) <=> k = "taken" /\ s = y /\ x \in e.taken \ Reached(m, y, "taken")
         /\ <<s, k, x>> \in Unmarks(m, y, e) <=> k = "taken" /\ s = y /\ x \in Reached(m, y, "taken") \ e.taken
BY DEF Marks, Unmarks

\* What a plan T relates to what.
HasBy(d, m, p, wire, T, s, x) ==
  <<s, "has", x>> \in RelatedBy(T) <=>
     \/ s = p /\ x \in Ids(d)
     \/ \E n \in Started(d) : s = n.id /\ x \in n.ports
     \/ \E e \in NewEdges(d, m, WiresOf(m, p)) : s = e.source /\ x = wire[e]

WireBy(d, m, p, wire, T, s, x) ==
  /\ <<s, "wire", x>> \in RelatedBy(T) <=> \E e \in NewEdges(d, m, WiresOf(m, p)) : s = wire[e] /\ x = e.target
  /\ <<s, "in", x>> \in RelatedBy(T) <=> \E e \in NewEdges(d, m, WiresOf(m, p)) : s = wire[e] /\ x = e.outPort
  /\ <<s, "out", x>> \in RelatedBy(T) <=> \E e \in NewEdges(d, m, WiresOf(m, p)) : s = wire[e] /\ x = e.inPort

TakenBy(d, m, p, wire, T, s, x) ==
  /\ <<s, "taken", x>> \in RelatedBy(T) <=>
        \/ \E e \in NewEdges(d, m, WiresOf(m, p)) : s = wire[e] /\ x \in e.taken
        \/ \E e \in d.edges : \E q \in Known(m, WiresOf(m, p), e) : s = q[2] /\ x \in e.taken \ Reached(m, s, "taken")
  /\ \A k : <<s, k, x>> \in RetractedBy(T) <=>
        k = "taken" /\ \E e \in d.edges : \E q \in Known(m, WiresOf(m, p), e) : s = q[2] /\ x \in Reached(m, s, "taken") \ e.taken

\* What a plan relates one Thing to.
LEMMA PlanRelsOf ==
  ASSUME NEW d, NEW m, NEW p, NEW wire, Told(m, WiresOf(m, p)), NEW T, T = PlanOf(d, m, p, wire), NEW s, NEW x
  PROVE  HasBy(d, m, p, wire, T, s, x) /\ WireBy(d, m, p, wire, T, s, x) /\ TakenBy(d, m, p, wire, T, s, x)
<1> DEFINE P == WiresOf(m, p)
<1>1. /\ RetractedBy(T) = UnmarksOf(d, m, P)
      /\ RelatedBy(T) = FragmentRels(d, p) \union NewRels(d, m, P, wire) \union MarksOf(d, m, P)
  BY PlanIs
<1>2. \A k : <<s, k, x>> \in NewRels(d, m, P, wire) <=> \E e \in NewEdges(d, m, P) : <<s, k, x>> \in WireRels(wire[e], e)
  BY DEF NewRels
<1>3. \A k : <<s, k, x>> \in MarksOf(d, m, P) <=> \E e \in d.edges : \E q \in Known(m, P, e) : <<s, k, x>> \in Marks(m, q[2], e)
  BY DEF MarksOf
<1>4. \A k : <<s, k, x>> \in UnmarksOf(d, m, P) <=> \E e \in d.edges : \E q \in Known(m, P, e) : <<s, k, x>> \in Unmarks(m, q[2], e)
  BY DEF UnmarksOf
<1>5. /\ \A k : <<s, k, x>> \in FragmentRels(d, p) <=>
           k = "has" /\ ((s = p /\ x \in Ids(d)) \/ \E n \in Started(d) : s = n.id /\ x \in n.ports)
      /\ \A k, y, e : <<s, k, x>> \in WireRels(y, e) <=>
           \/ k = "has" /\ s = e.source /\ x = y
           \/ k = "wire" /\ s = y /\ x = e.target
           \/ k = "in" /\ s = y /\ x = e.outPort
           \/ k = "out" /\ s = y /\ x = e.inPort
           \/ k = "taken" /\ s = y /\ x \in e.taken
      /\ \A k, y, e : <<s, k, x>> \in Marks(m, y, e) <=> k = "taken" /\ s = y /\ x \in e.taken \ Reached(m, y, "taken")
      /\ \A k, y, e : <<s, k, x>> \in Unmarks(m, y, e) <=> k = "taken" /\ s = y /\ x \in Reached(m, y, "taken") \ e.taken
  BY FragmentRel, WireRel, MarkRel
<1>6. \A k : <<s, k, x>> \in RelatedBy(T) <=>
        \/ <<s, k, x>> \in FragmentRels(d, p) \/ <<s, k, x>> \in NewRels(d, m, P, wire)
        \/ <<s, k, x>> \in MarksOf(d, m, P)
  BY <1>1
<1>7. <<s, "has", x>> \in RelatedBy(T) <=>
              \/ s = p /\ x \in Ids(d)
              \/ \E n \in Started(d) : s = n.id /\ x \in n.ports
              \/ \E e \in NewEdges(d, m, P) : s = e.source /\ x = wire[e]
  BY <1>2, <1>3, <1>5, <1>6
<1>8. <<s, "wire", x>> \in RelatedBy(T) <=> \E e \in NewEdges(d, m, P) : s = wire[e] /\ x = e.target
  BY <1>2, <1>3, <1>5, <1>6
<1>9. <<s, "in", x>> \in RelatedBy(T) <=> \E e \in NewEdges(d, m, P) : s = wire[e] /\ x = e.outPort
  BY <1>2, <1>3, <1>5, <1>6
<1>10. <<s, "out", x>> \in RelatedBy(T) <=> \E e \in NewEdges(d, m, P) : s = wire[e] /\ x = e.inPort
  BY <1>2, <1>3, <1>5, <1>6
<1>11. <<s, "taken", x>> \in RelatedBy(T) <=>
              \/ \E e \in NewEdges(d, m, P) : s = wire[e] /\ x \in e.taken
              \/ \E e \in d.edges : \E q \in Known(m, P, e) : s = q[2] /\ x \in e.taken \ Reached(m, s, "taken")
  BY <1>2, <1>3, <1>5, <1>6
<1>12. \A k : <<s, k, x>> \in RetractedBy(T) <=>
              k = "taken" /\ \E e \in d.edges : \E q \in Known(m, P, e) : s = q[2] /\ x \in Reached(m, s, "taken") \ e.taken
  BY <1>1, <1>4, <1>5
<1>13. QED
  BY <1>7, <1>8, <1>9, <1>10, <1>11, <1>12 DEF HasBy, WireBy, TakenBy

\* The relationships a plan adds, a kind at a time.
LEMMA PlanRels ==
  ASSUME NEW d, NEW m, NEW p, NEW wire, Told(m, WiresOf(m, p)), NEW T, T = PlanOf(d, m, p, wire)
  PROVE  \A s, x : HasBy(d, m, p, wire, T, s, x) /\ WireBy(d, m, p, wire, T, s, x) /\ TakenBy(d, m, p, wire, T, s, x)
BY PlanRelsOf

\* What a plan is about: what is drawn, and what the model held before.
LEMMA PlanDrawn ==
  ASSUME NEW k, NEW kind, NEW k2, NEW kind2, NEW m, NEW d, NEW p, NEW wire,
         SoundPlan(k, kind, k2, kind2, m, d, p, wire)
  PROVE  /\ \A n \in d.nodes : n.id \in Ids(d) /\ n.id \in Of(kind2, IF n.start THEN "start" ELSE "call")
         /\ \A n \in Started(d) : n \in d.nodes /\ n.start /\ n.ports \subseteq Of(kind2, "port")
         /\ Ids(d) \subseteq NodesIn(kind2)
         /\ \A e \in d.edges : /\ e.source \in Ids(d) /\ e.target \in Ids(d)
                               /\ e.outPort \in Of(kind2, "port") \union {Service} /\ e.inPort = Service
                               /\ e.taken \subseteq {Success, Fail}
<1>1. CanvasFits(d, kind2, 0) /\ \A n \in d.nodes : n.id > 0
  BY DEF SoundPlan
<1>2. \A n \in d.nodes : NodeFits(n, kind2, 0) /\ n.id \in Ids(d) /\ n.id \in Of(kind2, IF n.start THEN "start" ELSE "call")
  BY <1>1 DEF CanvasFits, NodeFits, Ids
<1>3. \A n \in d.nodes : n.id \in NodesIn(kind2)
  <2>1. TAKE n \in d.nodes
  <2>2. n.id \in Of(kind2, "start") \/ n.id \in Of(kind2, "call")
    BY <1>2
  <2>3. QED
    BY <2>2 DEF NodesIn
<1>4. \A n \in Started(d) : n \in d.nodes /\ n.start /\ n.ports \subseteq Of(kind2, "port")
  BY <1>2 DEF Started, NodeFits
<1>5. \A e \in d.edges : /\ e.source \in Ids(d) /\ e.target \in Ids(d)
                         /\ e.outPort \in Of(kind2, "port") \union {Service} /\ e.inPort = Service
                         /\ e.taken \subseteq {Success, Fail}
  BY <1>1 DEF CanvasFits, EdgeFits
<1>6. Ids(d) \subseteq NodesIn(kind2)
  BY <1>3 DEF Ids
<1>7. QED
  BY <1>2, <1>4, <1>5, <1>6

\* What the model held before a sound plan is of numbers before those it takes.
LEMMA PlanHeld ==
  ASSUME NEW k, NEW kind, NEW k2, NEW kind2, NEW m, NEW d, NEW p, NEW wire,
         SoundPlan(k, kind, k2, kind2, m, d, p, wire)
  PROVE  /\ m.nodes \union m.wires \union m.ports \subseteq 1..k
         /\ \A s, j, x : x \in Reached(m, s, j) <=> <<s, j, x>> \in m.rels
         /\ \A s, j, x : x \in Reached(m, s, j) => s \in 1..k /\ (x \in DOMAIN kind2 => x \in 1..k)
         /\ \A i \in Ids(d) : i \in 1..k => i \in NodesOf(m, p)
         /\ \A e \in d.edges : wire[e] \notin 1..k
<1>1. /\ k \in Nat /\ k2 \in Nat /\ DOMAIN kind = 1..k /\ DOMAIN kind2 = 1..k2 /\ Fits(m, kind)
      /\ \A n \in d.nodes : n.id <= k => n.id \in NodesOf(m, p)
      /\ \A e \in d.edges : wire[e] > k
  BY DEF SoundPlan
<1>2. m.nodes \union m.wires \union m.ports \subseteq 1..k
  BY <1>1, KindOf DEF Fits
<1>1a. DOMAIN kind \subseteq Int
  BY <1>1
<1>3. \A s, j, x : x \in Reached(m, s, j) <=> <<s, j, x>> \in m.rels
  BY <1>1, <1>1a, ReachedFits
<1>4. ASSUME NEW s, NEW j, NEW x, x \in Reached(m, s, j)
      PROVE  s \in 1..k /\ (x \in DOMAIN kind2 => x \in 1..k)
  <2> DEFINE r == <<s, j, x>>
  <2>1. r \in m.rels /\ r[1] = s /\ r[3] = x
    BY <1>3, <1>4
  <2> HIDE DEF r
  <2>2. r[1] \in DOMAIN kind /\ r[3] \in DOMAIN kind \union {Service, Success, Fail}
    BY <1>1, <1>1a, <2>1, RelParts DEF Fits
  <2>3. x \in 1..k \union {Service, Success, Fail} /\ s \in 1..k
    BY <1>1, <2>1, <2>2
  <2>4. \A y \in {Service, Success, Fail} : y \notin 1..k2
    BY DrawingAssumption
  <2>5. QED
    BY <1>1, <2>3, <2>4
<1>5. \A i \in Ids(d) : i \in 1..k => i \in NodesOf(m, p)
  BY <1>1 DEF Ids
<1>6. \A e \in d.edges : wire[e] \notin 1..k
  BY <1>1
<1>7. QED
  BY <1>2, <1>3, <1>4, <1>5, <1>6

\* What a sound plan takes away is nothing that is drawn.
LEMMA PlanSpares ==
  ASSUME NEW k, NEW kind, NEW k2, NEW kind2, NEW m, NEW d, NEW p, NEW wire,
         SoundPlan(k, kind, k2, kind2, m, d, p, wire), NEW G, G = GoneOf(d, m, p)
  PROVE  /\ G \subseteq m.nodes \union m.wires \union m.ports
         /\ G \subseteq NodesIn(kind2) \union Of(kind2, "wire") \union Of(kind2, "port")
         /\ \A x \in G : x \in m.wires => x \in Undesired(d, m, WiresOf(m, p))
         /\ \A i \in Ids(d) : i \notin G
         /\ \A x \in NodesOf(m, p) : x \notin Ids(d) => x \in G
         /\ \A n \in Started(d) : \A q \in n.ports : q \notin G
         /\ \A e \in d.edges : e.outPort \notin G /\ wire[e] \notin G
         /\ p \notin G /\ Service \notin G /\ Success \notin G /\ Fail \notin G
<1> DEFINE P == WiresOf(m, p)
           N == NodesOf(m, p)
<1>1. /\ Fits(m, kind) /\ Fits(m, kind2) /\ DOMAIN kind2 = 1..k2 /\ p \in Of(kind2, "pipeline")
      /\ \A n \in d.nodes, x \in m.nodes :
           n.start => IF x = n.id THEN OwnPorts(m, x) \subseteq n.ports ELSE OwnPorts(m, x) \intersect n.ports = {}
      /\ \A e \in d.edges : \E n \in d.nodes : n.id = e.source /\ e.outPort \in n.ports
      /\ CanvasFits(d, kind2, 0)
  BY DEF SoundPlan
<1>2. G = Undesired(d, m, P) \union GoneNodes(d, N) \union UNION {OwnPorts(m, n) : n \in GoneNodes(d, N)}
  BY DEF GoneOf, Goes
<1>3. Undesired(d, m, P) \subseteq m.wires
  <2>1. ASSUME NEW y \in Undesired(d, m, P)
        PROVE  y \in m.wires
    <3>1. PICK x \in P : y = x[2]
      BY DEF Undesired
    <3>2. QED
      BY <3>1, KnownIn DEF WiresOf
  <2>2. QED
    BY <2>1
<1>4. GoneNodes(d, N) = N \ Ids(d) /\ N \subseteq m.nodes
  BY DEF GoneNodes, Ids, NodesOf
<1>5. \A n : OwnPorts(m, n) \subseteq m.ports
  BY DEF OwnPorts
<1> HIDE DEF P, N
<1>6. G \subseteq m.nodes \union m.wires \union m.ports
  BY <1>2, <1>3, <1>4, <1>5
<1>7. m.nodes \subseteq NodesIn(kind2) /\ m.wires \subseteq Of(kind2, "wire") /\ m.ports \subseteq Of(kind2, "port")
  BY <1>1 DEF Fits
<1>8. \A x \in G : x \in m.wires => x \in Undesired(d, m, P)
  BY <1>2, <1>4, <1>5, <1>7, KindOf
<1>9. Ids(d) \subseteq NodesIn(kind2)
  BY PlanDrawn
<1>10. \A i \in Ids(d) : i \notin G
  BY <1>2, <1>3, <1>4, <1>5, <1>7, <1>9, KindOf
<1>11. \A x \in N : x \notin Ids(d) => x \in G
  BY <1>2, <1>4
<1>12. ASSUME NEW q \in Of(kind2, "port"), q \in G
       PROVE  \E x \in m.nodes : x \notin Ids(d) /\ q \in OwnPorts(m, x)
  BY <1>2, <1>3, <1>4, <1>7, <1>12, KindOf
<1>13. ASSUME NEW n \in Started(d), NEW q \in n.ports
       PROVE  q \notin G
  <2>1. n \in d.nodes /\ n.start /\ q \in Of(kind2, "port") /\ n.id \in Ids(d)
    BY PlanDrawn
  <2>2. SUFFICES ASSUME q \in G
                 PROVE  FALSE
    OBVIOUS
  <2>3. PICK x \in m.nodes : x \notin Ids(d) /\ q \in OwnPorts(m, x)
    BY <1>12, <2>1, <2>2
  <2>4. x # n.id
    BY <2>1, <2>3
  <2>5. OwnPorts(m, x) \intersect n.ports = {}
    BY <1>1, <2>1, <2>4
  <2>6. QED
    BY <2>3, <2>5
<1>14. Service \notin G /\ Success \notin G /\ Fail \notin G
  <2>1. G \subseteq 1..k2
    BY <1>1, <1>6, <1>7, KindOf
  <2>2. QED
    BY <2>1, DrawingAssumption
<1>15. ASSUME NEW e \in d.edges
       PROVE  e.outPort \notin G
  <2>1. PICK n \in d.nodes : n.id = e.source /\ e.outPort \in n.ports
    BY <1>1
  <2>2. CASE n.start
    BY <1>13, <2>1, <2>2 DEF Started
  <2>3. CASE ~n.start
    <3>1. n.ports = {Service}
      BY <1>1, <2>3 DEF CanvasFits, NodeFits
    <3>2. QED
      BY <1>14, <2>1, <3>1
  <2>4. QED
    BY <2>2, <2>3
<1>16. \A e \in d.edges : wire[e] \notin G
  BY <1>6, PlanHeld
<1>17. p \notin G
  BY <1>1, <1>6, <1>7, KindOf
<1>18. G \subseteq NodesIn(kind2) \union Of(kind2, "wire") \union Of(kind2, "port")
  BY <1>6, <1>7
<1>19. QED
  BY <1>6, <1>8, <1>10, <1>11, <1>13, <1>14, <1>15, <1>16, <1>17, <1>18 DEF P, N

\* A wire the model holds that is drawn too: it stays, and is the one for that wire only.
LEMMA PlanKnown ==
  ASSUME NEW k, NEW kind, NEW k2, NEW kind2, NEW m, NEW d, NEW p, NEW wire,
         SoundPlan(k, kind, k2, kind2, m, d, p, wire),
         NEW e \in d.edges, NEW q \in Known(m, WiresOf(m, p), e)
  PROVE  /\ q = <<q[1], q[2]>> /\ q[1] \in NodesOf(m, p) /\ q[2] \in outgoingWires(m, q[1]) /\ q[2] \in m.wires
         /\ wireKey(WireRead(m, q[1], q[2])) = wireKey(e)
         /\ q[2] \notin GoneOf(d, m, p)
         /\ \A f \in d.edges : \A x \in Known(m, WiresOf(m, p), f) : x[2] = q[2] => f = e /\ x = q
<1> DEFINE P == WiresOf(m, p)
<1>0. q \in P /\ wireKey(WireRead(m, q[1], q[2])) = wireKey(e)
  BY DEF Known
<1>1. \A x \in P : x = <<x[1], x[2]>> /\ x[1] \in NodesOf(m, p) /\ x[2] \in outgoingWires(m, x[1]) /\ x[2] \in m.wires
  BY KnownIn DEF WiresOf
<1>2. /\ Single(m.rels, m.wires) /\ \A f, g \in d.edges : wireKey(f) = wireKey(g) => f = g
      /\ \A s, j, x : x \in Reached(m, s, j) <=> <<s, j, x>> \in m.rels
  BY PlanHeld DEF SoundPlan
<1>3. ASSUME NEW x \in P, NEW y \in P, x[2] = y[2]
      PROVE  x = y
  <2> DEFINE r == <<x[1], "has", x[2]>>
             s == <<y[1], "has", y[2]>>
  <2>1. r \in m.rels /\ s \in m.rels
    BY <1>1, <1>2 DEF outgoingWires
  <2>2. r[1] = x[1] /\ r[2] = "has" /\ r[3] = x[2] /\ s[1] = y[1] /\ s[2] = "has" /\ s[3] = y[2]
    OBVIOUS
  <2> HIDE DEF r, s
  <2>3. r = s
    BY <1>1, <1>2, <1>3, <2>1, <2>2 DEF Single
  <2>4. x[1] = y[1]
    BY <2>2, <2>3
  <2>5. QED
    BY <1>1, <1>3, <2>4
<1>4. ASSUME NEW f \in d.edges, NEW x \in Known(m, P, f), x[2] = q[2]
      PROVE  f = e /\ x = q
  <2>1. x \in P /\ wireKey(WireRead(m, x[1], x[2])) = wireKey(f)
    BY DEF Known
  <2>2. x = q
    BY <1>0, <1>3, <1>4, <2>1
  <2>3. QED
    BY <1>0, <1>2, <2>1, <2>2
<1>5. q[2] \notin GoneOf(d, m, p)
  <2>1. SUFFICES ASSUME q[2] \in Undesired(d, m, P)
                 PROVE  FALSE
    BY <1>0, <1>1, PlanSpares
  <2>2. PICK x \in P : x[2] = q[2] /\ \A f \in d.edges : wireKey(f) # wireKey(WireRead(m, x[1], x[2]))
    BY <2>1 DEF Undesired
  <2>3. x = q
    BY <1>0, <1>3, <2>2
  <2>4. QED
    BY <1>0, <2>2, <2>3
<1> HIDE DEF P
<1>6. QED
  BY <1>0, <1>1, <1>4, <1>5 DEF P

\* No request of a sound plan takes away what another adds.
LEMMA PlanClash ==
  ASSUME NEW k, NEW kind, NEW k2, NEW kind2, NEW m, NEW d, NEW p, NEW wire,
         SoundPlan(k, kind, k2, kind2, m, d, p, wire), NEW T, T = PlanOf(d, m, p, wire),
         \A w \in T : RequestFits(w, kind2)
  PROVE  NoClash(T)
<1> DEFINE P == WiresOf(m, p)
           G == GoneOf(d, m, p)
           E == NewEdges(d, m, P)
<1>1. Told(m, P)
  BY DEF SoundPlan, Told, WiresOf
<1>2. /\ RemovedBy(T) = G
      /\ RetractedBy(T) = UnmarksOf(d, m, P)
      /\ RelatedBy(T) = FragmentRels(d, p) \union NewRels(d, m, P, wire) \union MarksOf(d, m, P)
      /\ PipelinesBy(T) = {p}
      /\ NodesBy(T) = Ids(d)
      /\ WiresBy(T) = NewWires(d, m, P, wire)
      /\ PortsBy(T) = StartedPorts(d)
  BY <1>1, PlanIs
<1>3. \A w \in T : w.added.starts \subseteq w.added.nodes
  BY DEF RequestFits, Fits
<1>4. /\ \A i \in Ids(d) : i \notin G
      /\ \A n \in Started(d) : \A q \in n.ports : q \notin G
      /\ \A e \in d.edges : e.outPort \notin G /\ wire[e] \notin G
      /\ p \notin G /\ Service \notin G /\ Success \notin G /\ Fail \notin G
  BY PlanSpares
<1>5. E \subseteq d.edges
  BY DEF NewEdges
<1>6. /\ \A n \in Started(d) : n.id \in Ids(d)
      /\ \A e \in d.edges : /\ e.source \in Ids(d) /\ e.target \in Ids(d) /\ e.inPort = Service
                            /\ e.taken \subseteq {Success, Fail}
  BY PlanDrawn
<1>7. \A e \in d.edges : \A q \in Known(m, P, e) :
        /\ q[2] \notin G /\ q[2] \in m.wires
        /\ \A f \in d.edges : \A x \in Known(m, P, f) : x[2] = q[2] => f = e /\ x = q
  BY PlanKnown
<1>8. m.wires \subseteq 1..k /\ \A e \in d.edges : wire[e] \notin 1..k
  BY PlanHeld
<1>8a. \A s, x : HasBy(d, m, p, wire, T, s, x)
  BY <1>1, PlanRels
<1>8b. \A s, x : WireBy(d, m, p, wire, T, s, x)
  BY <1>1, PlanRels
<1>8c. \A s, x : TakenBy(d, m, p, wire, T, s, x)
  BY <1>1, PlanRels
<1>9a. \A s, x : <<s, "has", x>> \in RelatedBy(T) <=>
                     \/ s = p /\ x \in Ids(d)
                     \/ \E n \in Started(d) : s = n.id /\ x \in n.ports
                     \/ \E e \in E : s = e.source /\ x = wire[e]
  BY <1>8a DEF HasBy
<1>9b1. ASSUME NEW s, NEW x, <<s, "wire", x>> \in RelatedBy(T)
       PROVE  \E e \in E : s = wire[e] /\ x = e.target
  <2>1. WireBy(d, m, p, wire, T, s, x)
    BY <1>8b
  <2>2. QED
    BY <1>9b1, <2>1 DEF WireBy
<1>9b2. ASSUME NEW s, NEW x, <<s, "in", x>> \in RelatedBy(T)
       PROVE  \E e \in E : s = wire[e] /\ x = e.outPort
  <2>1. WireBy(d, m, p, wire, T, s, x)
    BY <1>8b
  <2>2. QED
    BY <1>9b2, <2>1 DEF WireBy
<1>9b3. ASSUME NEW s, NEW x, <<s, "out", x>> \in RelatedBy(T)
       PROVE  \E e \in E : s = wire[e] /\ x = e.inPort
  <2>1. WireBy(d, m, p, wire, T, s, x)
    BY <1>8b
  <2>2. QED
    BY <1>9b3, <2>1 DEF WireBy
<1>9c. \A s, x : <<s, "taken", x>> \in RelatedBy(T) <=>
                     \/ \E e \in E : s = wire[e] /\ x \in e.taken
                     \/ \E e \in d.edges : \E q \in Known(m, P, e) : s = q[2] /\ x \in e.taken \ Reached(m, s, "taken")
  BY <1>8c DEF TakenBy
<1>9d. \A s, x, j : <<s, j, x>> \in RetractedBy(T) =>
                     j = "taken" /\ \E e \in d.edges : \E q \in Known(m, P, e) : s = q[2] /\ x \in Reached(m, s, "taken") \ e.taken
  BY <1>8c DEF TakenBy
<1> HIDE DEF P, G, E
<1>10. ASSUME NEW w \in T, NEW x \in ThingsOf(w.added) \union w.added.starts
       PROVE  x \notin RemovedBy(T)
  <2>1. x \in w.added.pipelines \/ x \in w.added.nodes \/ x \in w.added.wires \/ x \in w.added.ports
    BY <1>3 DEF ThingsOf
  <2>2. CASE x \in w.added.pipelines
    BY <1>2, <1>4, <2>2 DEF PipelinesBy
  <2>3. CASE x \in w.added.nodes
    BY <1>2, <1>4, <2>3 DEF NodesBy
  <2>4. CASE x \in w.added.wires
    BY <1>2, <1>4, <1>5, <2>4 DEF WiresBy, NewWires, E
  <2>5. CASE x \in w.added.ports
    BY <1>2, <1>4, <2>5 DEF PortsBy, StartedPorts
  <2>6. QED
    BY <2>1, <2>2, <2>3, <2>4, <2>5
<1>11. ASSUME NEW s, NEW j, NEW x, <<s, j, x>> \in RelatedBy(T), j \in {"has", "wire", "in", "out", "taken"}
       PROVE  s \notin G /\ x \notin G /\ <<s, j, x>> \notin RetractedBy(T)
  <2>0. j # "taken" => <<s, j, x>> \notin RetractedBy(T)
    BY <1>9d
  <2>1. CASE j = "has"
    BY <1>4, <1>5, <1>6, <1>9a, <1>11, <2>0, <2>1
  <2>2. CASE j = "wire"
    <3>0. <<s, "wire", x>> \in RelatedBy(T)
      BY <1>11, <2>2
    <3>1. PICK e \in E : s = wire[e] /\ x = e.target
      BY <1>9b1, <3>0
    <3>2. QED
      BY <1>4, <1>5, <1>6, <2>0, <2>2, <3>1
  <2>3. CASE j = "in"
    <3>0. <<s, "in", x>> \in RelatedBy(T)
      BY <1>11, <2>3
    <3>1. PICK e \in E : s = wire[e] /\ x = e.outPort
      BY <1>9b2, <3>0
    <3>2. QED
      BY <1>4, <1>5, <1>6, <2>0, <2>3, <3>1
  <2>4. CASE j = "out"
    <3>0. <<s, "out", x>> \in RelatedBy(T)
      BY <1>11, <2>4
    <3>1. PICK e \in E : s = wire[e] /\ x = e.inPort
      BY <1>9b3, <3>0
    <3>2. QED
      BY <1>4, <1>5, <1>6, <2>0, <2>4, <3>1
  <2>5. CASE j = "taken"
    <3>1. \/ \E e \in E : s = wire[e] /\ x \in e.taken
          \/ \E e \in d.edges : \E q \in Known(m, P, e) : s = q[2] /\ x \in e.taken \ Reached(m, s, "taken")
      BY <1>9c, <1>11, <2>5
    <3>2. CASE \E e \in E : s = wire[e] /\ x \in e.taken
      <4>1. PICK e \in E : s = wire[e] /\ x \in e.taken
        BY <3>2
      <4>2. e \in d.edges /\ x \in {Success, Fail}
        BY <1>5, <1>6, <4>1
      <4>3. s \notin G /\ x \notin G
        BY <1>4, <4>1, <4>2
      <4>4. \A f \in d.edges : \A q \in Known(m, P, f) : s # q[2]
        BY <1>7, <1>8, <4>1, <4>2
      <4>5. QED
        BY <1>9d, <2>5, <4>3, <4>4
    <3>3. CASE \E e \in d.edges : \E q \in Known(m, P, e) : s = q[2] /\ x \in e.taken \ Reached(m, s, "taken")
      <4>1. PICK e \in d.edges : \E q \in Known(m, P, e) : s = q[2] /\ x \in e.taken \ Reached(m, s, "taken")
        BY <3>3
      <4>2. PICK q \in Known(m, P, e) : s = q[2] /\ x \in e.taken \ Reached(m, s, "taken")
        BY <4>1
      <4>3. s \notin G /\ x \notin G
        BY <1>4, <1>6, <1>7, <4>2
      <4>4. ASSUME NEW f \in d.edges, NEW y \in Known(m, P, f), s = y[2], x \in Reached(m, s, "taken") \ f.taken
            PROVE  FALSE
        BY <4>2, <4>4
      <4>5. QED
        BY <1>9d, <2>5, <4>3, <4>4
    <3>4. QED
      BY <3>1, <3>2, <3>3
  <2>6. QED
    BY <1>11, <2>1, <2>2, <2>3, <2>4, <2>5
<1>12. ASSUME NEW w \in T, NEW r \in w.added.rels
       PROVE  r[1] \notin RemovedBy(T) /\ r[3] \notin RemovedBy(T) /\ r \notin RetractedBy(T)
  <2>1. r \in RelsIn(kind2) /\ r \in RelatedBy(T)
    BY DEF RequestFits, Fits, RelatedBy
  <2>1a. DOMAIN kind2 \subseteq Int
    BY DEF SoundPlan
  <2>2. r = <<r[1], r[2], r[3]>> /\ r[2] \in {"has", "wire", "in", "out", "taken"}
    BY <2>1, <2>1a, RelParts
  <2>3. r[1] \notin G /\ r[3] \notin G /\ <<r[1], r[2], r[3]>> \notin RetractedBy(T)
    BY <1>11, <2>1, <2>2
  <2>4. QED
    BY <1>2, <2>2, <2>3
<1>13. QED
  BY <1>10, <1>12 DEF NoClash

\* The nodes of the pipeline, once the plan is done.
LEMMA PlanNodes ==
  ASSUME NEW k, NEW kind, NEW k2, NEW kind2, NEW m, NEW d, NEW p, NEW wire,
         SoundPlan(k, kind, k2, kind2, m, d, p, wire), NEW T, T = PlanOf(d, m, p, wire),
         \A w \in T : RequestFits(w, kind2), NEW x, x = After(m, T)
  PROVE  /\ Fits(x, kind2)
         /\ \A s, j, y : y \in Reached(x, s, j) <=>
              \/ y \in Reached(m, s, j) /\ s \notin GoneOf(d, m, p) /\ y \notin GoneOf(d, m, p) /\ <<s, j, y>> \notin RetractedBy(T)
              \/ <<s, j, y>> \in RelatedBy(T)
         /\ x.nodes = (m.nodes \ GoneOf(d, m, p)) \union Ids(d)
         /\ x.wires = (m.wires \ GoneOf(d, m, p)) \union NewWires(d, m, WiresOf(m, p), wire)
         /\ x.ports = (m.ports \ GoneOf(d, m, p)) \union StartedPorts(d)
         /\ NodesOf(x, p) = Ids(d)
<1> DEFINE P == WiresOf(m, p)
           G == GoneOf(d, m, p)
           E == NewEdges(d, m, P)
<1>1. Told(m, P) /\ Fits(m, kind2) /\ DOMAIN kind2 \subseteq Int /\ p \in Of(kind2, "pipeline")
  BY DEF SoundPlan, Told, WiresOf
<1>2. /\ RemovedBy(T) = G
      /\ RetractedBy(T) = UnmarksOf(d, m, P)
      /\ RelatedBy(T) = FragmentRels(d, p) \union NewRels(d, m, P, wire) \union MarksOf(d, m, P)
      /\ PipelinesBy(T) = {p}
      /\ NodesBy(T) = Ids(d)
      /\ WiresBy(T) = NewWires(d, m, P, wire)
      /\ PortsBy(T) = StartedPorts(d)
  BY <1>1, PlanIs
<1>3. /\ x.nodes = (m.nodes \ RemovedBy(T)) \union NodesBy(T)
      /\ x.wires = (m.wires \ RemovedBy(T)) \union WiresBy(T)
      /\ x.ports = (m.ports \ RemovedBy(T)) \union PortsBy(T)
      /\ x.rels = {r \in m.rels : r[1] \notin RemovedBy(T) /\ r[3] \notin RemovedBy(T) /\ r \notin RetractedBy(T)}
                    \union RelatedBy(T)
  BY AfterIs
<1>4. Fits(x, kind2)
  BY <1>1, AfterFits
<1>5. /\ \A s, j, y : y \in Reached(m, s, j) <=> <<s, j, y>> \in m.rels
      /\ \A s, j, y : y \in Reached(x, s, j) <=> <<s, j, y>> \in x.rels
  BY <1>1, <1>4, ReachedFits
<1>5a. \A s, y : HasBy(d, m, p, wire, T, s, y)
  BY <1>1, PlanRels
<1>6. \A s, y : <<s, "has", y>> \in RelatedBy(T) <=>
                     \/ s = p /\ y \in Ids(d)
                     \/ \E n \in Started(d) : s = n.id /\ y \in n.ports
                     \/ \E e \in E : s = e.source /\ y = wire[e]
  BY <1>5a DEF HasBy
<1>7. /\ \A i \in Ids(d) : i \notin G
      /\ \A y \in NodesOf(m, p) : y \notin Ids(d) => y \in G
      /\ p \notin G
  BY PlanSpares
<1> HIDE DEF P, G, E
<1>8. ASSUME NEW s, NEW j, NEW y
      PROVE  y \in Reached(x, s, j) <=>
              \/ y \in Reached(m, s, j) /\ s \notin G /\ y \notin G /\ <<s, j, y>> \notin RetractedBy(T)
              \/ <<s, j, y>> \in RelatedBy(T)
  <2> DEFINE r == <<s, j, y>>
  <2>1. r[1] = s /\ r[3] = y
    OBVIOUS
  <2>2. (y \in Reached(x, s, j) <=> r \in x.rels) /\ (y \in Reached(m, s, j) <=> r \in m.rels)
    BY <1>5
  <2> HIDE DEF r
  <2>3. y \in Reached(x, s, j) <=>
              \/ y \in Reached(m, s, j) /\ s \notin G /\ y \notin G /\ r \notin RetractedBy(T)
              \/ r \in RelatedBy(T)
    BY <1>2, <1>3, <2>1, <2>2
  <2>4. QED
    BY <2>3 DEF r
<1>9. x.nodes = (m.nodes \ G) \union Ids(d)
  BY <1>2, <1>3
<1>10. x.wires = (m.wires \ G) \union NewWires(d, m, P, wire)
  BY <1>2, <1>3
<1>11. x.ports = (m.ports \ G) \union StartedPorts(d)
  BY <1>2, <1>3
<1>12. ASSUME NEW y \in NodesOf(x, p)
       PROVE  y \in Ids(d)
  <2>1. y \in x.nodes /\ y \in Reached(x, p, "has")
    BY DEF NodesOf
  <2>2. CASE y \in m.nodes /\ y \notin G
    <3>1. y \in Reached(m, p, "has") \/ <<p, "has", y>> \in RelatedBy(T)
      BY <1>8, <2>1
    <3>2. CASE y \in Reached(m, p, "has")
      BY <1>7, <2>2, <3>2 DEF NodesOf
    <3>3. CASE <<p, "has", y>> \in RelatedBy(T)
      \* A pipeline is no node, and holds no port and no wire.
      <4>1. \A n \in Started(d) : n.id # p
        BY <1>1, PlanDrawn, KindOf
      <4>2. \A e \in E : e.source # p
        BY <1>1, PlanDrawn, KindOf DEF E, NewEdges
      <4>3. QED
        BY <1>6, <3>3, <4>1, <4>2
    <3>4. QED
      BY <3>1, <3>2, <3>3
  <2>3. CASE y \in Ids(d)
    BY <2>3
  <2>4. QED
    BY <1>9, <2>1, <2>2, <2>3
<1>13. ASSUME NEW y \in Ids(d)
       PROVE  y \in NodesOf(x, p)
  <2>1. y \in x.nodes
    BY <1>9
  <2>2. <<p, "has", y>> \in RelatedBy(T)
    BY <1>6
  <2>3. y \in Reached(x, p, "has")
    BY <1>8, <2>2
  <2>4. QED
    BY <2>1, <2>3 DEF NodesOf
<1>14. NodesOf(x, p) = Ids(d)
  BY <1>12, <1>13
<1>15. QED
  BY <1>4, <1>8, <1>9, <1>10, <1>11, <1>14 DEF P, G, E

-----------------------------------------------------------------------------
\* A sound save that is done, and what is read of it.

\* The model x once the requests T of a sound save of d are made.
PlanDone(k, kind, k2, kind2, m, d, p, wire, T, x) ==
  /\ SoundPlan(k, kind, k2, kind2, m, d, p, wire)
  /\ T = PlanOf(d, m, p, wire)
  /\ \A w \in T : RequestFits(w, kind2)
  /\ x = After(m, T)

\* What is reached once it is done.
LEMMA DoneReached ==
  ASSUME NEW k, NEW kind, NEW k2, NEW kind2, NEW m, NEW d, NEW p, NEW wire, NEW T, NEW x,
         PlanDone(k, kind, k2, kind2, m, d, p, wire, T, x), NEW s, NEW j, NEW y
  PROVE  /\ y \in Reached(x, s, j) <=>
              \/ y \in Reached(m, s, j) /\ s \notin GoneOf(d, m, p) /\ y \notin GoneOf(d, m, p) /\ <<s, j, y>> \notin RetractedBy(T)
              \/ <<s, j, y>> \in RelatedBy(T)
         /\ HasBy(d, m, p, wire, T, s, y)
         /\ WireBy(d, m, p, wire, T, s, y)
         /\ TakenBy(d, m, p, wire, T, s, y)
         /\ j # "taken" => <<s, j, y>> \notin RetractedBy(T)
<1>1. Told(m, WiresOf(m, p)) /\ T = PlanOf(d, m, p, wire)
  BY DEF PlanDone, SoundPlan, Told, WiresOf
<1>2. HasBy(d, m, p, wire, T, s, y) /\ WireBy(d, m, p, wire, T, s, y) /\ TakenBy(d, m, p, wire, T, s, y)
  BY <1>1, PlanRels
<1>3. j # "taken" => <<s, j, y>> \notin RetractedBy(T)
  BY <1>2 DEF TakenBy
<1>4. y \in Reached(x, s, j) <=>
              \/ y \in Reached(m, s, j) /\ s \notin GoneOf(d, m, p) /\ y \notin GoneOf(d, m, p) /\ <<s, j, y>> \notin RetractedBy(T)
              \/ <<s, j, y>> \in RelatedBy(T)
  <2>1. /\ SoundPlan(k, kind, k2, kind2, m, d, p, wire) /\ T = PlanOf(d, m, p, wire)
        /\ \A w \in T : RequestFits(w, kind2)
        /\ x = After(m, T)
    BY DEF PlanDone
  <2>2. QED
    BY <2>1, PlanNodes
<1>5. QED
  BY <1>2, <1>3, <1>4

\* A wire that was new is as it is drawn.
LEMMA NewReached ==
  ASSUME NEW k, NEW kind, NEW k2, NEW kind2, NEW m, NEW d, NEW p, NEW wire, NEW T, NEW x,
         PlanDone(k, kind, k2, kind2, m, d, p, wire, T, x), NEW e \in NewEdges(d, m, WiresOf(m, p))
  PROVE  /\ \A y : y \in Reached(x, wire[e], "wire") <=> y = e.target
         /\ \A y : y \in Reached(x, wire[e], "in") <=> y = e.outPort
         /\ \A y : y \in Reached(x, wire[e], "out") <=> y = e.inPort
         /\ \A y : y \in Reached(x, wire[e], "taken") <=> y \in e.taken
         /\ \A s : wire[e] \in Reached(x, s, "has") <=> s = e.source
<1> DEFINE E == NewEdges(d, m, WiresOf(m, p))
           P == WiresOf(m, p)
           u == wire[e]
<1>1. SoundPlan(k, kind, k2, kind2, m, d, p, wire)
  BY DEF PlanDone
<1>2. e \in d.edges /\ E \subseteq d.edges /\ \A f \in E : wire[f] = u => f = e
  BY <1>1 DEF NewEdges, SoundPlan
<1>3. u \notin 1..k /\ m.wires \subseteq 1..k
  BY <1>1, <1>2, PlanHeld
<1>4. \A s, j, y : y \in Reached(m, s, j) => s \in 1..k /\ (y \in DOMAIN kind2 => y \in 1..k)
  BY <1>1, PlanHeld
<1>4a. u \in Of(kind2, "wire") /\ u \in DOMAIN kind2
  BY <1>1, <1>2 DEF SoundPlan, Of
<1>5. \A f \in d.edges : \A q \in Known(m, P, f) : q[2] # u
  BY <1>1, <1>3, PlanKnown
<1>6. ASSUME NEW y, NEW j
      PROVE  y \in Reached(x, u, j) <=> <<u, j, y>> \in RelatedBy(T)
  <2>1. y \notin Reached(m, u, j)
    BY <1>3, <1>4
  <2>2. QED
    BY <2>1, DoneReached
<1>7. ASSUME NEW y
      PROVE  WireBy(d, m, p, wire, T, u, y) /\ TakenBy(d, m, p, wire, T, u, y)
  BY DoneReached
<1>8. \A y : y \in Reached(x, u, "wire") <=> y = e.target
  <2>1. TAKE y
  <2>2. <<u, "wire", y>> \in RelatedBy(T) <=> \E f \in E : u = wire[f] /\ y = f.target
    BY <1>7 DEF WireBy
  <2>3. QED
    BY <1>2, <1>6, <2>2
<1>9. \A y : y \in Reached(x, u, "in") <=> y = e.outPort
  <2>1. TAKE y
  <2>2. <<u, "in", y>> \in RelatedBy(T) <=> \E f \in E : u = wire[f] /\ y = f.outPort
    BY <1>7 DEF WireBy
  <2>3. QED
    BY <1>2, <1>6, <2>2
<1>10. \A y : y \in Reached(x, u, "out") <=> y = e.inPort
  <2>1. TAKE y
  <2>2. <<u, "out", y>> \in RelatedBy(T) <=> \E f \in E : u = wire[f] /\ y = f.inPort
    BY <1>7 DEF WireBy
  <2>3. QED
    BY <1>2, <1>6, <2>2
<1>11. \A y : y \in Reached(x, u, "taken") <=> y \in e.taken
  <2>1. TAKE y
  <2>2. <<u, "taken", y>> \in RelatedBy(T) <=>
          \/ \E f \in E : u = wire[f] /\ y \in f.taken
          \/ \E f \in d.edges : \E q \in Known(m, P, f) : u = q[2] /\ y \in f.taken \ Reached(m, u, "taken")
    BY <1>7 DEF TakenBy
  <2>3. ~\E f \in d.edges : \E q \in Known(m, P, f) : u = q[2] /\ y \in f.taken \ Reached(m, u, "taken")
    BY <1>5
  <2>4. QED
    BY <1>2, <1>6, <2>2, <2>3
<1>12. ASSUME NEW s
       PROVE  u \in Reached(x, s, "has") <=> s = e.source
  <2>1. u \notin Reached(m, s, "has")
    BY <1>3, <1>4, <1>4a
  <2>2. u \in Reached(x, s, "has") <=> <<s, "has", u>> \in RelatedBy(T)
    BY <2>1, DoneReached
  <2>3. HasBy(d, m, p, wire, T, s, u)
    BY DoneReached
  <2>4. <<s, "has", u>> \in RelatedBy(T) <=>
          \/ s = p /\ u \in Ids(d)
          \/ \E n \in Started(d) : s = n.id /\ u \in n.ports
          \/ \E f \in E : s = f.source /\ u = wire[f]
    BY <2>3 DEF HasBy
  <2>5. u \notin Ids(d) /\ \A n \in Started(d) : u \notin n.ports
    <3>1. Ids(d) \subseteq NodesIn(kind2) /\ \A n \in Started(d) : n.ports \subseteq Of(kind2, "port")
      BY <1>1, PlanDrawn
    <3>2. NodesIn(kind2) \intersect Of(kind2, "wire") = {} /\ Of(kind2, "port") \intersect Of(kind2, "wire") = {}
      BY KindOf
    <3>3. QED
      BY <1>4a, <3>1, <3>2
  <2>6. QED
    BY <1>2, <2>2, <2>4, <2>5
<1>13. QED
  BY <1>8, <1>9, <1>10, <1>11, <1>12

\* A wire the model held before keeps its ends and who holds it, or goes.
LEMMA OldReached ==
  ASSUME NEW k, NEW kind, NEW k2, NEW kind2, NEW m, NEW d, NEW p, NEW wire, NEW T, NEW x,
         PlanDone(k, kind, k2, kind2, m, d, p, wire, T, x), NEW w \in m.wires
  PROVE  /\ \A j \in {"wire", "in", "out"} : \A y :
              y \in Reached(x, w, j) <=> y \in Reached(m, w, j) /\ w \notin GoneOf(d, m, p) /\ y \notin GoneOf(d, m, p)
         /\ \A s : w \in Reached(x, s, "has") <=>
              w \in Reached(m, s, "has") /\ s \notin GoneOf(d, m, p) /\ w \notin GoneOf(d, m, p)
<1> DEFINE E == NewEdges(d, m, WiresOf(m, p))
           G == GoneOf(d, m, p)
<1>1. SoundPlan(k, kind, k2, kind2, m, d, p, wire)
  BY DEF PlanDone
<1>2. E \subseteq d.edges
  BY DEF NewEdges
<1>3. w \in 1..k /\ \A f \in E : wire[f] # w
  BY <1>1, <1>2, PlanHeld
<1>4. w \in Of(kind2, "wire")
  BY <1>1 DEF SoundPlan, Fits
<1> HIDE DEF G
<1>5. ASSUME NEW j \in {"wire", "in", "out"}, NEW y
      PROVE  y \in Reached(x, w, j) <=> y \in Reached(m, w, j) /\ w \notin G /\ y \notin G
  <2>1. WireBy(d, m, p, wire, T, w, y)
    BY DoneReached
  <2>2. /\ <<w, "wire", y>> \notin RelatedBy(T)
        /\ <<w, "in", y>> \notin RelatedBy(T)
        /\ <<w, "out", y>> \notin RelatedBy(T)
    BY <1>3, <2>1 DEF WireBy
  <2>3. <<w, j, y>> \notin RelatedBy(T)
    BY <2>2
  <2>4. <<w, j, y>> \notin RetractedBy(T)
    <3>1. j # "taken"
      OBVIOUS
    <3>2. QED
      BY <3>1, DoneReached
  <2>5. y \in Reached(x, w, j) <=>
              \/ y \in Reached(m, w, j) /\ w \notin G /\ y \notin G /\ <<w, j, y>> \notin RetractedBy(T)
              \/ <<w, j, y>> \in RelatedBy(T)
    BY DoneReached DEF G
  <2>6. QED
    BY <2>3, <2>4, <2>5
<1>6. ASSUME NEW s
      PROVE  w \in Reached(x, s, "has") <=> w \in Reached(m, s, "has") /\ s \notin G /\ w \notin G
  <2>1. HasBy(d, m, p, wire, T, s, w)
    BY DoneReached
  <2>2. w \notin Ids(d) /\ \A n \in Started(d) : w \notin n.ports
    <3>1. Ids(d) \subseteq NodesIn(kind2) /\ \A n \in Started(d) : n.ports \subseteq Of(kind2, "port")
      BY <1>1, PlanDrawn
    <3>2. NodesIn(kind2) \intersect Of(kind2, "wire") = {} /\ Of(kind2, "port") \intersect Of(kind2, "wire") = {}
      BY KindOf
    <3>3. QED
      BY <1>4, <3>1, <3>2
  <2>3. <<s, "has", w>> \notin RelatedBy(T)
    BY <1>3, <2>1, <2>2 DEF HasBy
  <2>4. <<s, "has", w>> \notin RetractedBy(T)
    BY DoneReached
  <2>5. w \in Reached(x, s, "has") <=>
              \/ w \in Reached(m, s, "has") /\ s \notin G /\ w \notin G /\ <<s, "has", w>> \notin RetractedBy(T)
              \/ <<s, "has", w>> \in RelatedBy(T)
    BY DoneReached DEF G
  <2>6. QED
    BY <2>3, <2>4, <2>5
<1>7. QED
  BY <1>5, <1>6 DEF G

EndsOf(m, n, w, e) ==
  /\ e.source = n /\ e.outPort = The(Reached(m, w, "in"))
  /\ e.target = The(Reached(m, w, "wire") \intersect m.nodes)
  /\ e.inPort = The(Reached(m, w, "out"))

\* Wires of one key have the same ends.
LEMMA KeyParts ==
  ASSUME NEW m, NEW n, NEW w, NEW e, wireKey(WireRead(m, n, w)) = wireKey(e)
  PROVE  EndsOf(m, n, w, e)
<1> DEFINE a == The(Reached(m, w, "in"))
           b == The(Reached(m, w, "wire") \intersect m.nodes)
           c == The(Reached(m, w, "out"))
           r == [source |-> n, outPort |-> a, target |-> b, inPort |-> c, taken |-> Reached(m, w, "taken")]
<1>1. WireRead(m, n, w) = r
  BY Zenon DEF WireRead
<1>2. wireKey(r) = <<n, a, b, c>>
  <2> HIDE DEF a, b, c
  <2>1. r.source = n /\ r.outPort = a /\ r.target = b /\ r.inPort = c
    OBVIOUS
  <2> QED
    BY <2>1 DEF wireKey
<1>3. wireKey(e) = <<e.source, e.outPort, e.target, e.inPort>>
  BY DEF wireKey
<1> HIDE DEF a, b, c, r
<1>4. <<e.source, e.outPort, e.target, e.inPort>> = <<n, a, b, c>>
  BY <1>1, <1>2, <1>3
<1>5. e.source = n /\ e.outPort = a /\ e.target = b /\ e.inPort = c
  BY <1>4
<1>6. QED
  BY <1>5 DEF a, b, c, EndsOf

\* The element of a set that has one.
LEMMA TheOnly ==
  ASSUME NEW S, NEW x, \A y : y \in S <=> y = x
  PROVE  The(S) = x /\ S = {x}
BY DEF The

\* The element of a set is in it.
LEMMA TheIn ==
  ASSUME NEW S, S # {}
  PROVE  The(S) \in S
BY DEF The

\* A wire reads as the wire e where its relationships are those of e.
LEMMA ReadAs ==
  ASSUME NEW m, NEW n, NEW w, NEW kind, NEW ids, NEW e, EdgeFits(e, kind, ids), n = e.source, e.target \in m.nodes,
         \A y : y \in Reached(m, w, "wire") <=> y = e.target,
         \A y : y \in Reached(m, w, "in") <=> y = e.outPort,
         \A y : y \in Reached(m, w, "out") <=> y = e.inPort,
         \A y : y \in Reached(m, w, "taken") <=> y \in e.taken,
         w \in Reached(m, n, "has"), w \in m.wires
  PROVE  w \in outgoingWires(m, n) /\ WireRead(m, n, w) = e
<1> DEFINE a == The(Reached(m, w, "in"))
           b == The(Reached(m, w, "wire") \intersect m.nodes)
           c == The(Reached(m, w, "out"))
           t == Reached(m, w, "taken")
<1>1. \A y : y \in Reached(m, w, "wire") \intersect m.nodes <=> y = e.target
  OBVIOUS
<1>2. a = e.outPort
  BY TheOnly
<1>3. b = e.target
  <2> DEFINE B == Reached(m, w, "wire") \intersect m.nodes
  <2>1. \A y : y \in B <=> y = e.target
    BY <1>1
  <2> HIDE DEF B
  <2>2. The(B) = e.target
    BY <2>1, TheOnly
  <2>3. QED
    BY <2>2 DEF B
<1>4. c = e.inPort
  BY TheOnly
<1>5. t = e.taken
  OBVIOUS
<1>6. e = [source |-> e.source, outPort |-> e.outPort, target |-> e.target, inPort |-> e.inPort, taken |-> e.taken]
  BY DEF EdgeFits
<1>7. WireRead(m, n, w) = [source |-> n, outPort |-> a, target |-> b, inPort |-> c, taken |-> t]
  BY Zenon DEF WireRead
<1>8. w \in outgoingWires(m, n)
  BY DEF outgoingWires
<1> HIDE DEF a, b, c, t
<1>9. [source |-> n, outPort |-> a, target |-> b, inPort |-> c, taken |-> t]
        = [source |-> e.source, outPort |-> e.outPort, target |-> e.target, inPort |-> e.inPort, taken |-> e.taken]
  BY <1>2, <1>3, <1>4, <1>5
<1>10. WireRead(m, n, w) = e
  BY <1>6, <1>7, <1>9
<1>11. QED
  BY <1>8, <1>10

\* A wire of one target and one port it comes from.
LEMMA SingleReached ==
  ASSUME NEW kind, DOMAIN kind \subseteq Int, NEW m, Fits(m, kind), Single(m.rels, m.wires),
         NEW w, NEW j \in {"wire", "in"}, NEW y \in Reached(m, w, j), NEW z \in Reached(m, w, j)
  PROVE  y = z
<1> DEFINE r == <<w, j, y>>
           s == <<w, j, z>>
<1>1. r \in m.rels /\ s \in m.rels
  BY ReachedFits
<1>2. r[1] = w /\ r[2] = j /\ r[3] = y /\ s[1] = w /\ s[2] = j /\ s[3] = z
  OBVIOUS
<1> HIDE DEF r, s
<1>3. r = s
  BY <1>1, <1>2 DEF Single
<1>4. QED
  BY <1>2, <1>3

\* The wires a node has, of a plan that is done.
LEMMA NewRead ==
  ASSUME NEW k, NEW kind, NEW k2, NEW kind2, NEW m, NEW d, NEW p, NEW wire, NEW T, NEW x,
         PlanDone(k, kind, k2, kind2, m, d, p, wire, T, x), NEW e \in NewEdges(d, m, WiresOf(m, p))
  PROVE  wire[e] \in outgoingWires(x, e.source) /\ WireRead(x, e.source, wire[e]) = e
<1>1. SoundPlan(k, kind, k2, kind2, m, d, p, wire) /\ T = PlanOf(d, m, p, wire)
      /\ (\A w \in T : RequestFits(w, kind2)) /\ x = After(m, T)
  BY DEF PlanDone
<1>2. e \in d.edges
  BY DEF NewEdges
<1>3. EdgeFits(e, kind2, Ids(d))
  BY <1>1, <1>2 DEF SoundPlan, CanvasFits
<1>4. /\ x.nodes = (m.nodes \ GoneOf(d, m, p)) \union Ids(d)
      /\ x.wires = (m.wires \ GoneOf(d, m, p)) \union NewWires(d, m, WiresOf(m, p), wire)
  BY <1>1, PlanNodes
<1>5. e.target \in x.nodes
  BY <1>1, <1>2, <1>4, PlanDrawn
<1>6. wire[e] \in x.wires
  BY <1>4 DEF NewWires
<1>7. /\ \A y : y \in Reached(x, wire[e], "wire") <=> y = e.target
      /\ \A y : y \in Reached(x, wire[e], "in") <=> y = e.outPort
      /\ \A y : y \in Reached(x, wire[e], "out") <=> y = e.inPort
      /\ \A y : y \in Reached(x, wire[e], "taken") <=> y \in e.taken
      /\ wire[e] \in Reached(x, e.source, "has")
  BY NewReached
<1>8. QED
  BY <1>3, <1>5, <1>6, <1>7, ReadAs

\* A wire that was known reads as it is drawn.
LEMMA KnownRead ==
  ASSUME NEW k, NEW kind, NEW k2, NEW kind2, NEW m, NEW d, NEW p, NEW wire, NEW T, NEW x,
         PlanDone(k, kind, k2, kind2, m, d, p, wire, T, x), NEW e \in d.edges, NEW q \in Known(m, WiresOf(m, p), e)
  PROVE  /\ q[1] = e.source
         /\ q[2] \in outgoingWires(x, e.source) /\ WireRead(x, e.source, q[2]) = e
<1> DEFINE G == GoneOf(d, m, p)
           P == WiresOf(m, p)
           w == q[2]
           n == q[1]
<1>1. SoundPlan(k, kind, k2, kind2, m, d, p, wire) /\ T = PlanOf(d, m, p, wire)
      /\ (\A y \in T : RequestFits(y, kind2)) /\ x = After(m, T)
  BY DEF PlanDone
<1>2. /\ n \in NodesOf(m, p) /\ w \in outgoingWires(m, n) /\ w \in m.wires /\ w \notin G
      /\ wireKey(WireRead(m, n, w)) = wireKey(e)
      /\ \A f \in d.edges : \A y \in Known(m, P, f) : y[2] = w => f = e
  BY <1>1, PlanKnown
<1> HIDE DEF G, P, w, n
<1>3. EdgeFits(e, kind2, Ids(d))
  BY <1>1 DEF SoundPlan, CanvasFits
<1>4. /\ Fits(m, kind2) /\ DOMAIN kind2 \subseteq Int /\ Single(m.rels, m.wires)
  BY <1>1 DEF SoundPlan
<1>5. /\ e.source = n /\ e.outPort = The(Reached(m, w, "in"))
      /\ e.target = The(Reached(m, w, "wire") \intersect m.nodes)
      /\ e.inPort = The(Reached(m, w, "out"))
  <2>1. wireKey(WireRead(m, n, w)) = wireKey(e)
    BY <1>2
  <2>2. EndsOf(m, n, w, e)
    BY <2>1, KeyParts
  <2>3. QED
    BY <2>2 DEF EndsOf
<1>6. /\ e.outPort \in Reached(m, w, "in")
      /\ e.target \in Reached(m, w, "wire") /\ e.target \in m.nodes
      /\ e.inPort \in Reached(m, w, "out")
      /\ w \in Reached(m, n, "has")
  BY <1>2, <1>5, TheIn DEF outgoingWires
<1>7. /\ e.source \in Ids(d) /\ e.target \in Ids(d) /\ e.inPort = Service
  BY <1>1, PlanDrawn
<1>8. /\ \A i \in Ids(d) : i \notin G
      /\ e.outPort \notin G /\ Service \notin G
  BY <1>1, PlanSpares DEF G
<1>9. /\ x.nodes = (m.nodes \ G) \union Ids(d)
      /\ x.wires = (m.wires \ G) \union NewWires(d, m, P, wire)
  BY <1>1, PlanNodes DEF G, P
<1>10. e.target \in x.nodes /\ w \in x.wires
  BY <1>2, <1>7, <1>9
<1>11. /\ \A j \in {"wire", "in", "out"} : \A y :
              y \in Reached(x, w, j) <=> y \in Reached(m, w, j) /\ y \notin G
       /\ \A s : w \in Reached(x, s, "has") <=> w \in Reached(m, s, "has") /\ s \notin G
  BY <1>2, OldReached DEF G
<1>12. /\ \A y : y \in Reached(m, w, "wire") <=> y = e.target
       /\ \A y : y \in Reached(m, w, "in") <=> y = e.outPort
       /\ \A y : y \in Reached(m, w, "out") <=> y = e.inPort
  BY <1>4, <1>6, <1>7, SingleReached, ReachedFits
<1>13. \A y : y \in Reached(x, w, "wire") <=> y = e.target
  BY <1>7, <1>8, <1>11, <1>12
<1>14. \A y : y \in Reached(x, w, "in") <=> y = e.outPort
  BY <1>8, <1>11, <1>12
<1>15. \A y : y \in Reached(x, w, "out") <=> y = e.inPort
  BY <1>7, <1>8, <1>11, <1>12
<1>16. w \in Reached(x, n, "has")
  BY <1>5, <1>6, <1>7, <1>8, <1>11
<1>17. ASSUME NEW y
       PROVE  y \in Reached(x, w, "taken") <=> y \in e.taken
  <2>1. TakenBy(d, m, p, wire, T, w, y)
    BY DoneReached
  <2>2. <<w, "taken", y>> \in RelatedBy(T) <=> y \in e.taken \ Reached(m, w, "taken")
    <3>1. <<w, "taken", y>> \in RelatedBy(T) <=>
            \/ \E f \in NewEdges(d, m, P) : w = wire[f] /\ y \in f.taken
            \/ \E f \in d.edges : \E z \in Known(m, P, f) : w = z[2] /\ y \in f.taken \ Reached(m, w, "taken")
      BY <2>1 DEF TakenBy, P
    <3>2. ~\E f \in NewEdges(d, m, P) : w = wire[f] /\ y \in f.taken
      BY <1>1, <1>2, PlanHeld DEF NewEdges
    <3>3. (\E f \in d.edges : \E z \in Known(m, P, f) : w = z[2] /\ y \in f.taken \ Reached(m, w, "taken"))
             <=> y \in e.taken \ Reached(m, w, "taken")
      BY <1>2 DEF P, w
    <3>4. QED
      BY <3>1, <3>2, <3>3
  <2>3. <<w, "taken", y>> \in RetractedBy(T) <=> y \in Reached(m, w, "taken") \ e.taken
    <3>1. <<w, "taken", y>> \in RetractedBy(T) <=>
            \E f \in d.edges : \E z \in Known(m, P, f) : w = z[2] /\ y \in Reached(m, w, "taken") \ f.taken
      BY <2>1 DEF TakenBy, P
    <3>2. (\E f \in d.edges : \E z \in Known(m, P, f) : w = z[2] /\ y \in Reached(m, w, "taken") \ f.taken)
             <=> y \in Reached(m, w, "taken") \ e.taken
      BY <1>2 DEF P, w
    <3>3. QED
      BY <3>1, <3>2
  <2>4. y \in Reached(x, w, "taken") <=>
              \/ y \in Reached(m, w, "taken") /\ w \notin G /\ y \notin G /\ <<w, "taken", y>> \notin RetractedBy(T)
              \/ <<w, "taken", y>> \in RelatedBy(T)
    BY DoneReached DEF G
  <2>5. y \in Reached(m, w, "taken") => y \notin G
    <3>1. Reached(m, w, "taken") \subseteq {Success, Fail}
      BY <1>4, ReachedFits
    <3>2. QED
      BY <1>1, <3>1, PlanSpares DEF G
  <2>6. QED
    BY <1>2, <2>2, <2>3, <2>4, <2>5
<1>18. w \in outgoingWires(x, n) /\ WireRead(x, n, w) = e
  BY <1>3, <1>5, <1>10, <1>13, <1>14, <1>15, <1>16, <1>17, ReadAs
<1>19. QED
  BY <1>5, <1>18 DEF w, n

\* A node reads as it is drawn, where its fields do.
LEMMA NodeReads ==
  ASSUME NEW P, NEW n \in [id : Int, start : BOOLEAN, ports : P], NEW S, n.start <=> n.id \in S,
         NEW q, q = n.ports, NEW x, x = [id |-> n.id, start |-> n.id \in S, ports |-> q]
  PROVE  x = n
<1>1. x.id = n.id /\ (x.start <=> n.id \in S) /\ x.start \in BOOLEAN /\ x.ports = q
  BY NodeRecord
<1>2. n.start \in BOOLEAN
  OBVIOUS
<1>3. x.start = n.start
  BY <1>1, <1>2
<1>4. DOMAIN x = {"id", "start", "ports"} /\ x = [f \in {"id", "start", "ports"} |-> x[f]]
  OBVIOUS
<1>5. DOMAIN n = {"id", "start", "ports"} /\ n = [f \in {"id", "start", "ports"} |-> n[f]]
  OBVIOUS
<1>6. \A f \in {"id", "start", "ports"} : x[f] = n[f]
  BY <1>1, <1>3
<1>7. QED
  BY <1>4, <1>5, <1>6

\* The ports of a node that is drawn are those it is drawn with.
LEMMA PlanPorts ==
  ASSUME NEW k, NEW kind, NEW k2, NEW kind2, NEW m, NEW d, NEW p, NEW wire, NEW T, NEW x,
         PlanDone(k, kind, k2, kind2, m, d, p, wire, T, x), NEW n \in d.nodes
  PROVE  /\ n.start <=> n.id \in x.starts
         /\ PortsOf(x, n.id) = n.ports
<1>1. SoundPlan(k, kind, k2, kind2, m, d, p, wire) /\ T = PlanOf(d, m, p, wire)
      /\ (\A w \in T : RequestFits(w, kind2)) /\ x = After(m, T)
  BY DEF PlanDone
<1>2. /\ Fits(x, kind2)
      /\ x.nodes = (m.nodes \ GoneOf(d, m, p)) \union Ids(d)
      /\ x.ports = (m.ports \ GoneOf(d, m, p)) \union StartedPorts(d)
  BY <1>1, PlanNodes
<1>3. n.id \in Ids(d) /\ n.id \in Of(kind2, IF n.start THEN "start" ELSE "call") /\ NodeFits(n, kind2, 0)
  <2>1. CanvasFits(d, kind2, 0)
    BY <1>1 DEF SoundPlan
  <2>2. NodeFits(n, kind2, 0)
    BY <2>1 DEF CanvasFits
  <2>3. n.id \in Ids(d) /\ n.id \in Of(kind2, IF n.start THEN "start" ELSE "call")
    BY <1>1, PlanDrawn
  <2>4. QED
    BY <2>2, <2>3
<1>4. n.start <=> n.id \in x.starts
  <2>1. n.id \in x.starts <=> n.id \in Of(kind2, "start")
    BY <1>2, <1>3 DEF Fits
  <2>2. Of(kind2, "start") \intersect Of(kind2, "call") = {}
    BY KindOf
  <2>3. QED
    BY <1>3, <2>1, <2>2
<1>5. CASE ~n.start
  BY <1>3, <1>4, <1>5 DEF NodeFits, PortsOf
<1>6. CASE n.start
  <2>1. PortsOf(x, n.id) = Reached(x, n.id, "has") \intersect x.ports
    BY <1>4, <1>6 DEF PortsOf
  <2>2. n \in Started(d) /\ n.ports \subseteq Of(kind2, "port")
    BY <1>1, <1>6, PlanDrawn DEF Started
  <2>3. ASSUME NEW q \in n.ports
        PROVE  q \in Reached(x, n.id, "has") /\ q \in x.ports
    <3>1. HasBy(d, m, p, wire, T, n.id, q)
      BY DoneReached
    <3>2. <<n.id, "has", q>> \in RelatedBy(T)
      BY <2>2, <3>1 DEF HasBy
    <3>3. q \in Reached(x, n.id, "has")
      BY <3>2, DoneReached
    <3>4. q \in x.ports
      BY <1>2, <2>2 DEF StartedPorts
    <3>5. QED
      BY <3>3, <3>4
  <2>4. ASSUME NEW q \in Reached(x, n.id, "has"), q \in x.ports
        PROVE  q \in n.ports
    <3>1. q \in Of(kind2, "port")
      BY <1>2, <2>4 DEF Fits
    <3>2. CASE q \in Reached(m, n.id, "has")
      <4>1. n.id \in 1..k /\ <<n.id, "has", q>> \in m.rels
        BY <1>1, <3>2, PlanHeld
      <4>2. n.id \in m.nodes
        BY <1>1, <1>3, <4>1, PlanHeld DEF NodesOf
      <4>3. q \in m.ports
        <5> DEFINE r == <<n.id, "has", q>>
        <5>1. r \in m.rels /\ r[2] = "has" /\ r[3] = q
          BY <4>1
        <5> HIDE DEF r
        <5>2. \A y \in m.rels : y[2] = "has" /\ y[3] \in Of(kind2, "port") => y[3] \in m.ports
          BY <1>1 DEF SoundPlan, Fits
        <5>3. QED
          BY <3>1, <5>1, <5>2
      <4>4. OwnPorts(m, n.id) \subseteq n.ports
        BY <1>1, <1>6, <4>2 DEF SoundPlan
      <4>5. QED
        BY <3>2, <4>3, <4>4 DEF OwnPorts
    <3>3. CASE <<n.id, "has", q>> \in RelatedBy(T)
      <4>1. HasBy(d, m, p, wire, T, n.id, q)
        BY DoneReached
      <4>2. \/ n.id = p /\ q \in Ids(d)
            \/ \E y \in Started(d) : n.id = y.id /\ q \in y.ports
            \/ \E e \in NewEdges(d, m, WiresOf(m, p)) : n.id = e.source /\ q = wire[e]
        BY <3>3, <4>1 DEF HasBy
      <4>3. q \notin Ids(d)
        BY <1>1, <3>1, PlanDrawn, KindOf
      <4>4. \A e \in NewEdges(d, m, WiresOf(m, p)) : q # wire[e]
        <5>1. \A e \in d.edges : wire[e] \in Of(kind2, "wire")
          BY <1>1 DEF SoundPlan
        <5>2. Of(kind2, "wire") \intersect Of(kind2, "port") = {}
          BY KindOf
        <5>3. QED
          BY <3>1, <5>1, <5>2 DEF NewEdges
      <4>5. \A y \in Started(d) : n.id = y.id => y = n
        BY <1>1 DEF Started, SoundPlan, CanvasFits
      <4>6. QED
        BY <4>2, <4>3, <4>4, <4>5
    <3>4. QED
      BY <2>4, <3>2, <3>3, DoneReached
  <2>5. QED
    BY <1>4, <2>1, <2>3, <2>4
<1>7. QED
  BY <1>4, <1>5, <1>6

\* A wire that is read is one that is drawn.
LEMMA PlanOutgoing ==
  ASSUME NEW k, NEW kind, NEW k2, NEW kind2, NEW m, NEW d, NEW p, NEW wire, NEW T, NEW x,
         PlanDone(k, kind, k2, kind2, m, d, p, wire, T, x), NEW n \in Ids(d), NEW w \in outgoingWires(x, n)
  PROVE  WireRead(x, n, w) \in d.edges
<1> DEFINE G == GoneOf(d, m, p)
           P == WiresOf(m, p)
<1>1. SoundPlan(k, kind, k2, kind2, m, d, p, wire) /\ T = PlanOf(d, m, p, wire)
      /\ (\A y \in T : RequestFits(y, kind2)) /\ x = After(m, T)
  BY DEF PlanDone
<1>2. /\ Fits(x, kind2)
      /\ x.nodes = (m.nodes \ G) \union Ids(d)
      /\ x.wires = (m.wires \ G) \union NewWires(d, m, P, wire)
  BY <1>1, PlanNodes
<1>3. /\ w \in Reached(x, n, "has") /\ w \in x.wires
      /\ \E y : y \in Reached(x, w, "wire") /\ y \in x.nodes
      /\ \E y : y \in Reached(x, w, "in")
      /\ \E y : y \in Reached(x, w, "out")
  BY DEF outgoingWires
<1>4. CASE w \in NewWires(d, m, P, wire)
  <2>1. PICK e \in NewEdges(d, m, P) : w = wire[e]
    BY <1>4 DEF NewWires
  <2>2. n = e.source
    BY <1>3, <2>1, NewReached
  <2>3. WireRead(x, n, w) = e
    BY <2>1, <2>2, NewRead
  <2>4. QED
    BY <2>3 DEF NewEdges
<1>5. CASE w \in m.wires /\ w \notin G
  <2>1. /\ \A j \in {"wire", "in", "out"} : \A y : y \in Reached(x, w, j) => y \in Reached(m, w, j)
        /\ w \in Reached(m, n, "has")
    BY <1>3, <1>5, OldReached
  <2>2. n \in NodesOf(m, p)
    BY <1>1, <2>1, PlanHeld
  <2>3. PICK y : y \in Reached(x, w, "wire") /\ y \in x.nodes
    BY <1>3
  <2>4. y \in Reached(m, w, "wire")
    BY <2>1, <2>3
  <2>5. y \in 1..k
    <3>1. y \in DOMAIN kind2
      BY <1>2, <2>3, KindOf DEF Fits
    <3>2. QED
      BY <1>1, <2>4, <3>1, PlanHeld
  <2>6. y \in m.nodes
    BY <1>1, <1>2, <2>3, <2>5, PlanHeld DEF NodesOf
  <2>7. (\E z : z \in Reached(m, w, "in")) /\ \E z : z \in Reached(m, w, "out")
    BY <1>3, <2>1
  <2>8. w \in outgoingWires(m, n)
    BY <1>5, <2>1, <2>4, <2>6, <2>7 DEF outgoingWires
  <2>9. <<n, w>> \in P
    BY <2>2, <2>8 DEF WiresOf, PersistedWires
  <2>10. \E e \in d.edges : wireKey(e) = wireKey(WireRead(m, n, w))
    <3>1. SUFFICES ASSUME \A e \in d.edges : wireKey(e) # wireKey(WireRead(m, n, w))
                   PROVE  FALSE
      OBVIOUS
    <3> DEFINE q == <<n, w>>
    <3>2. q \in P /\ q[1] = n /\ q[2] = w
      BY <2>9
    <3> HIDE DEF q, P
    <3>3. w \in Undesired(d, m, P)
      BY <3>1, <3>2 DEF Undesired
    <3>4. QED
      BY <1>5, <3>3 DEF GoneOf, P
  <2>11. PICK e \in d.edges : wireKey(WireRead(m, n, w)) = wireKey(e)
    BY <2>10
  <2> DEFINE q == <<n, w>>
  <2>12. q \in P /\ q[1] = n /\ q[2] = w
    BY <2>9
  <2> HIDE DEF q
  <2>13. q \in Known(m, P, e)
    BY <2>11, <2>12 DEF Known
  <2>14. q[1] = e.source /\ WireRead(x, e.source, q[2]) = e
    BY <2>13, KnownRead
  <2>15. QED
    BY <2>12, <2>14
<1>6. QED
  BY <1>2, <1>3, <1>4, <1>5

\* A sound save, done, reads back as what it was asked to save.
LEMMA PlanReads ==
  ASSUME NEW k, NEW kind, NEW k2, NEW kind2, NEW m, NEW d, NEW p, NEW wire, NEW T, NEW x,
         PlanDone(k, kind, k2, kind2, m, d, p, wire, T, x)
  PROVE  loadPipeline(x, p) = d
<1> DEFINE rec(i) == [id |-> i, start |-> i \in x.starts, ports |-> PortsOf(x, i)]
           N == {rec(i) : i \in NodesOf(x, p)}
           F == UNION {{WireRead(x, i, w) : w \in outgoingWires(x, i)} : i \in NodesOf(x, p)}
           E == {e \in F : e.target \in NodesOf(x, p)}
<1>1. SoundPlan(k, kind, k2, kind2, m, d, p, wire) /\ T = PlanOf(d, m, p, wire)
      /\ (\A y \in T : RequestFits(y, kind2)) /\ x = After(m, T)
  BY DEF PlanDone
<1>2. NodesOf(x, p) = Ids(d)
  BY <1>1, PlanNodes
<1>3. CanvasFits(d, kind2, 0)
  BY <1>1 DEF SoundPlan
<1>4. loadPipeline(x, p) = [nodes |-> N, edges |-> E]
  BY Zenon DEF loadPipeline
<1>5. ASSUME NEW n \in d.nodes
      PROVE  rec(n.id) = n
  <2>1. n.start <=> n.id \in x.starts
    BY PlanPorts
  <2>2. PortsOf(x, n.id) = n.ports
    BY PlanPorts
  <2>3. n \in [id : Int, start : BOOLEAN, ports : SUBSET (Of(kind2, "port") \union {Service})]
    BY <1>3 DEF CanvasFits, NodeFits
  <2>4. QED
    BY <2>1, <2>2, <2>3, NodeReads
<1> HIDE DEF rec
<1>6. N = d.nodes
  BY <1>2, <1>5 DEF Ids
<1>7. E \subseteq d.edges
  <2>1. ASSUME NEW i \in Ids(d), NEW w \in outgoingWires(x, i)
        PROVE  WireRead(x, i, w) \in d.edges
    BY PlanOutgoing
  <2>2. QED
    BY <1>2, <2>1
<1>8. ASSUME NEW e \in d.edges
      PROVE  e \in E
  <2>1. e.source \in Ids(d) /\ e.target \in Ids(d)
    BY <1>1, PlanDrawn
  <2>2. \E w \in outgoingWires(x, e.source) : WireRead(x, e.source, w) = e
    <3>1. CASE e \in NewEdges(d, m, WiresOf(m, p))
      BY <3>1, NewRead
    <3>2. CASE e \notin NewEdges(d, m, WiresOf(m, p))
      <4>1. PICK q \in Known(m, WiresOf(m, p), e) : TRUE
        BY <3>2 DEF NewEdges
      <4>2. QED
        BY <4>1, KnownRead
    <3>3. QED
      BY <3>1, <3>2
  <2>3. e \in F
    BY <1>2, <2>1, <2>2
  <2>4. QED
    BY <1>2, <2>1, <2>3
<1> HIDE DEF N, E, F
<1>9. E = d.edges
  BY <1>7, <1>8
<1>10. d = [nodes |-> d.nodes, edges |-> d.edges]
  BY <1>3 DEF CanvasFits
<1>11. QED
  BY <1>4, <1>6, <1>9, <1>10

-----------------------------------------------------------------------------
\* A save keeps what it promises, whatever happens meanwhile.

\* A drawing nothing is wrong with: each wire leaves from a port of its source.
LEMMA ValidWires ==
  ASSUME NEW c, validatePipeline(c) = {}, NEW e \in c.edges
  PROVE  \E n \in c.nodes : n.id = e.source /\ e.outPort \in n.ports
<1>1. wellFormed(c, e)
  <2>1. SUFFICES ASSUME ~wellFormed(c, e)
                 PROVE  FALSE
    OBVIOUS
  <2>2. <<"dangling-wire", e>> \in {<<"dangling-wire", f>> : f \in {g \in c.edges : ~wellFormed(c, g)}}
    BY <2>1
  <2>3. QED
    BY <2>2 DEF validatePipeline
<1>2. QED
  BY <1>1 DEF wellFormed, outPorts

\* What is drawn, as Things, of a sound save.
LEMMA SoundDrawn ==
  ASSUME NEW m, NEW c, NEW k, NEW kind, NEW to, NEW free, NEW k2, NEW kind2, NEW placed, NEW p,
         Planned(m, c, k, kind, to, free, k2, kind2), CanvasFits(c, kind, placed),
         \A n \in c.nodes : n.id \in m.nodes => n.id \in NodesOf(m, p),
         \A n \in c.nodes, x \in m.nodes :
           n.start => IF x = n.id THEN OwnPorts(m, x) \subseteq n.ports ELSE OwnPorts(m, x) \intersect n.ports = {},
         \A e, f \in c.edges : wireKey(e) = wireKey(f) => e = f,
         validatePipeline(c) = {},
         NEW d, d = Drawn(c, to)
  PROVE  /\ \A n \in d.nodes : n.id <= k => n.id \in NodesOf(m, p)
         /\ \A n \in d.nodes, x \in m.nodes :
              n.start => IF x = n.id THEN OwnPorts(m, x) \subseteq n.ports ELSE OwnPorts(m, x) \intersect n.ports = {}
         /\ \A e, f \in d.edges : wireKey(e) = wireKey(f) => e = f
         /\ \A e \in d.edges : \E n \in d.nodes : n.id = e.source /\ e.outPort \in n.ports
<1>1. /\ k \in Nat /\ k2 \in Nat /\ kind2 \in [1..k2 -> Kinds] /\ Fits(m, kind) /\ DOMAIN kind = 1..k
      /\ DOMAIN to = Ids(c)
      /\ \A i, j \in Ids(c) : to[i] = to[j] => i = j
      /\ \A n \in c.nodes : to[n.id] \in Of(kind2, IF n.start THEN "start" ELSE "call")
      /\ \A n \in c.nodes : IF n.id \in m.nodes THEN to[n.id] = n.id ELSE to[n.id] > k + 1
  BY DEF Planned
<1>2. d.nodes = {NodeAt(n, to) : n \in c.nodes} /\ d.edges = {EdgeAt(e, to) : e \in c.edges}
  BY <1>1, DrawnParts
<1>3. m.nodes \subseteq 1..k
  BY <1>1, KindOf DEF Fits
<1>4. ASSUME NEW n \in c.nodes
      PROVE  /\ NodeAt(n, to).id = to[n.id] /\ NodeAt(n, to).ports = n.ports
             /\ NodeAt(n, to).start <=> n.start
             /\ to[n.id] \in Int /\ n.id \in Ids(c)
  <2>1. NodeFits(n, kind, placed)
    BY DEF CanvasFits
  <2>2. to[n.id] \in DOMAIN kind2
    BY <1>1 DEF Of
  <2>3. QED
    BY <1>1, <2>1, <2>2, NodeMoved DEF NodeAt, Ids
<1>5. ASSUME NEW e \in c.edges
      PROVE  /\ EdgeAt(e, to).source = to[e.source] /\ EdgeAt(e, to).target = to[e.target]
             /\ EdgeAt(e, to).outPort = e.outPort /\ EdgeAt(e, to).inPort = Service /\ e.inPort = Service
             /\ e.source \in Ids(c) /\ e.target \in Ids(c)
  <2>1. EdgeFits(e, kind, Ids(c))
    BY DEF CanvasFits
  <2> DEFINE x == EdgeAt(e, to)
  <2>2. x = [source |-> to[e.source], outPort |-> e.outPort, target |-> to[e.target], inPort |-> Service,
                 taken |-> takenOnOf(e.taken)]
    BY <2>1, EdgeMoved DEF EdgeAt
  <2>3. e.source \in Ids(c) /\ e.target \in Ids(c) /\ e.inPort = Service
    BY <2>1 DEF EdgeFits
  <2> HIDE DEF x
  <2>4. x.source = to[e.source] /\ x.target = to[e.target] /\ x.outPort = e.outPort /\ x.inPort = Service
    BY <2>2
  <2>5. QED
    BY <2>3, <2>4 DEF x
<1>6. ASSUME NEW n \in d.nodes
      PROVE  /\ n.id <= k => n.id \in NodesOf(m, p)
             /\ \A x \in m.nodes :
                  n.start => IF x = n.id THEN OwnPorts(m, x) \subseteq n.ports ELSE OwnPorts(m, x) \intersect n.ports = {}
  <2>1. PICK b \in c.nodes : n = NodeAt(b, to)
    BY <1>2
  <2>2. n.id = to[b.id] /\ n.ports = b.ports /\ (n.start <=> b.start) /\ n.id \in Int
    BY <1>4, <2>1
  <2>3. CASE b.id \in m.nodes
    <3>1. n.id = b.id
      BY <1>1, <2>2, <2>3
    <3>2. QED
      BY <2>2, <2>3, <3>1
  <2>4. CASE b.id \notin m.nodes
    <3>1. n.id > k + 1
      BY <1>1, <2>2, <2>4
    <3>2. ~(n.id <= k) /\ n.id \notin 1..k
      BY <1>1, <2>2, <3>1
    <3>3. \A x \in m.nodes : x # n.id /\ x # b.id
      BY <1>3, <2>4, <3>2
    <3>4. QED
      BY <2>2, <3>2, <3>3
  <2>5. QED
    BY <2>3, <2>4
<1>7. ASSUME NEW e \in d.edges, NEW f \in d.edges, wireKey(e) = wireKey(f)
      PROVE  e = f
  <2>1. PICK a \in c.edges : e = EdgeAt(a, to)
    BY <1>2
  <2>2. PICK b \in c.edges : f = EdgeAt(b, to)
    BY <1>2
  <2>3. /\ e.source = to[a.source] /\ e.target = to[a.target] /\ e.outPort = a.outPort
        /\ a.source \in Ids(c) /\ a.target \in Ids(c) /\ a.inPort = Service
    BY <1>5, <2>1
  <2>4. /\ f.source = to[b.source] /\ f.target = to[b.target] /\ f.outPort = b.outPort
        /\ b.source \in Ids(c) /\ b.target \in Ids(c) /\ b.inPort = Service
    BY <1>5, <2>2
  <2>5. e.source = f.source /\ e.target = f.target /\ e.outPort = f.outPort
    BY <1>7 DEF wireKey
  <2>6. a.source = b.source /\ a.target = b.target /\ a.outPort = b.outPort
    <3>1. \A i, j \in Ids(c) : to[i] = to[j] => i = j
      BY <1>1
    <3>2. to[a.source] = to[b.source] /\ to[a.target] = to[b.target]
      BY <2>3, <2>4, <2>5
    <3>3. a.source = b.source /\ a.target = b.target
      BY <2>3, <2>4, <3>1, <3>2
    <3>4. QED
      BY <2>3, <2>4, <2>5, <3>3
  <2>7. wireKey(a) = wireKey(b)
    BY <2>3, <2>4, <2>6 DEF wireKey
  <2>8. QED
    BY <2>1, <2>2, <2>7
<1>8. ASSUME NEW e \in d.edges
      PROVE  \E n \in d.nodes : n.id = e.source /\ e.outPort \in n.ports
  <2>1. PICK a \in c.edges : e = EdgeAt(a, to)
    BY <1>2
  <2>2. PICK b \in c.nodes : b.id = a.source /\ a.outPort \in b.ports
    BY ValidWires
  <2>3. NodeAt(b, to) \in d.nodes
    BY <1>2
  <2>4. NodeAt(b, to).id = e.source /\ e.outPort \in NodeAt(b, to).ports
    BY <1>4, <1>5, <2>1, <2>2
  <2>5. QED
    BY <2>3, <2>4
<1>9. QED
  BY <1>6, <1>7, <1>8

\* What a save writes, done: where it is sound, it reads back as what was drawn.
LEMMA SavePromises ==
  ASSUME NEW kind, Kinded(kind), onSave, Sound(canvas, SavePipeline), Single(model.rels, model.wires)
  PROVE  /\ NoClash(Range(todo'))
         /\ loadPipeline(After(model, Range(todo')), SavePipeline) = SaveDrawn
<1> DEFINE kind2 == SaveKind(kind)
           d == SaveDrawn
           p == SavePipeline
           m == heard
<1>1. /\ Planned(heard, canvas, minted, kind, SaveTo, SaveFree, SaveTop, kind2)
      /\ CanvasFits(d, kind2, 0)
      /\ \A n \in d.nodes : n.id > 0
      /\ p \in Of(kind2, "pipeline")
      /\ Fits(m, kind2)
      /\ \E wire \in Numbering(d.edges, SaveFree) :
           /\ \A e \in d.edges : wire[e] \in Of(kind2, "wire") /\ wire[e] \in Nat /\ wire[e] > SaveFree
           /\ Range(todo') = Requested(d, m, p, SaveNodes, wire)
      /\ \A w \in Range(todo') : RequestFits(w, kind2)
  BY SavePlanned
<1>2. /\ heard = model
      /\ \A n \in canvas.nodes : n.id \in m.nodes => n.id \in NodesOf(m, p)
      /\ \A n \in canvas.nodes, x \in m.nodes :
           n.start => IF x = n.id THEN OwnPorts(m, x) \subseteq n.ports ELSE OwnPorts(m, x) \intersect n.ports = {}
      /\ \A e, f \in canvas.edges : wireKey(e) = wireKey(f) => e = f
      /\ \A x, y \in PersistedWires(m, NodesOf(m, p)) :
            wireKey(WireRead(m, x[1], x[2])) = wireKey(WireRead(m, y[1], y[2])) => x = y
      /\ validatePipeline(canvas) = {}
  BY DEF Sound, OwnPorts
<1>3. CanvasFits(canvas, kind, nodeSequence)
  BY DEF Kinded
<1>4. SaveNodes = NodesOf(m, p)
  <2>1. CASE SaveKnown
    BY <2>1 DEF SaveNodes, persistedNodeIds
  <2>2. CASE ~SaveKnown
    <3>1. SaveNodes = {} /\ p = minted + 1
      BY <2>2 DEF SaveNodes, persistedNodeIds, SavePipeline
    <3>2. Fits(m, kind) /\ DOMAIN kind = 1..minted /\ minted \in Nat
      BY DEF Kinded
    <3>2a. DOMAIN kind \subseteq Int
      BY <3>2
    <3>3. minted + 1 \notin DOMAIN kind
      BY <3>2
    <3>4. \A x : x \notin Reached(m, minted + 1, "has")
      BY <3>2, <3>2a, <3>3, ReachedFits
    <3>5. NodesOf(m, minted + 1) = {}
      BY <3>4 DEF NodesOf
    <3>6. QED
      BY <3>1, <3>5
  <2>3. QED
    BY <2>1, <2>2
<1>5. PICK wire \in Numbering(d.edges, SaveFree) :
           /\ \A e \in d.edges : wire[e] \in Of(kind2, "wire") /\ wire[e] \in Nat /\ wire[e] > SaveFree
           /\ Range(todo') = Requested(d, m, p, SaveNodes, wire)
  BY <1>1
<1>6. /\ minted \in Nat /\ SaveFree \in Nat /\ SaveTop \in Nat /\ minted < SaveFree /\ DOMAIN kind = 1..minted
      /\ DOMAIN kind2 = 1..SaveTop /\ Fits(m, kind)
  BY <1>1 DEF Planned
<1>7. /\ \A n \in d.nodes : n.id <= minted => n.id \in NodesOf(m, p)
      /\ \A n \in d.nodes, x \in m.nodes :
              n.start => IF x = n.id THEN OwnPorts(m, x) \subseteq n.ports ELSE OwnPorts(m, x) \intersect n.ports = {}
      /\ \A e, f \in d.edges : wireKey(e) = wireKey(f) => e = f
      /\ \A e \in d.edges : \E n \in d.nodes : n.id = e.source /\ e.outPort \in n.ports
  <2> HIDE DEF kind2
  <2> QED BY <1>1, <1>2, <1>3, SoundDrawn DEF SaveDrawn
<1>8. \A e \in d.edges : wire[e] \in Of(kind2, "wire") /\ wire[e] > minted
  BY <1>5, <1>6
<1>9. \A e, f \in d.edges : wire[e] = wire[f] => e = f
  BY <1>5 DEF Numbering
<1>10. Single(m.rels, m.wires)
  BY <1>2
<1> HIDE DEF kind2, d, p, m
<1>11. SoundPlan(minted, kind, SaveTop, kind2, m, d, p, wire)
  BY <1>1, <1>2, <1>6, <1>7, <1>8, <1>9, <1>10 DEF SoundPlan, m
<1> DEFINE T == Range(todo')
<1>12. T = PlanOf(d, m, p, wire)
  BY <1>4, <1>5 DEF PlanOf, m, p
<1>13. \A w \in T : RequestFits(w, kind2)
  BY <1>1
<1> HIDE DEF T
<1>14. NoClash(T)
  BY <1>11, <1>12, <1>13, PlanClash
<1> DEFINE x == After(m, T)
<1>15. PlanDone(minted, kind, SaveTop, kind2, m, d, p, wire, T, x)
  BY <1>11, <1>12, <1>13 DEF PlanDone
<1> HIDE DEF x
<1>16. loadPipeline(x, p) = d
  BY <1>15, PlanReads
<1>17. QED
  BY <1>2, <1>14, <1>16 DEF T, x, m, d, p

\* A wire of the model, or one that is being written, has one target, one port it comes from and one node.
WireInv == Single(model.rels \union RelatedBy(Range(todo)), model.wires \union WiresBy(Range(todo)))

\* A sound save will read as it was drawn, once its requests are made; one that is done does.
SavedInv ==
  /\ busy => written = Unwritten
  /\ busy /\ save.sound => /\ NoClash(Range(todo))
                           /\ loadPipeline(After(model, Range(todo)), save.pipeline) = Drawn(save.attempt, save.to)
  /\ SavedReadsAsDrawn

\* Fewer relationships and fewer wires still have one target, one port and one holder each.
LEMMA SingleOfFewer ==
  ASSUME NEW R, NEW W, Single(R, W), NEW R2, R2 \subseteq R, NEW W2, W2 \subseteq W
  PROVE  Single(R2, W2)
BY DEF Single

\* What the requests of a save relate that tells the wires of the model apart is of wires of their own.
LEMMA RequestedRels ==
  ASSUME NEW d, NEW m, NEW p, NEW nodes, NEW wire, NEW w \in Requested(d, m, p, nodes, wire), NEW r \in w.added.rels,
         NEW kind, CanvasFits(d, kind, 0), \A n \in d.nodes : n.id > 0
  PROVE  \/ r[2] = "taken"
         \/ r[2] = "has" /\ r[3] \in NodesIn(kind) \union Of(kind, "port")
         \/ \E e \in d.edges : r \in WireRels(wire[e], e)
<1>1. CASE w = Fragment(d, p)
  <2>1. w.added.rels = {<<p, "has", n.id>> : n \in d.nodes}
                             \union (UNION {{<<n.id, "has", q>> : q \in n.ports} : n \in Started(d)})
    BY <1>1, FragmentIs
  <2>2. \A n \in d.nodes : NodeFits(n, kind, 0)
    BY DEF CanvasFits
  <2>3. CASE r \in {<<p, "has", n.id>> : n \in d.nodes}
    <3>1. PICK n \in d.nodes : r = <<p, "has", n.id>>
      BY <2>3
    <3>2. n.id \in NodesIn(kind)
      BY <2>2 DEF NodeFits, NodesIn
    <3>3. QED
      BY <3>1, <3>2
  <2>4. CASE r \in UNION {{<<n.id, "has", q>> : q \in n.ports} : n \in Started(d)}
    <3>1. PICK n \in Started(d) : \E q \in n.ports : r = <<n.id, "has", q>>
      BY <2>4
    <3>2. PICK q \in n.ports : r = <<n.id, "has", q>>
      BY <3>1
    <3>3. q \in Of(kind, "port")
      BY <2>2 DEF Started, NodeFits
    <3>4. QED
      BY <3>2, <3>3
  <2>5. QED
    BY <2>1, <2>3, <2>4
<1>2. CASE \E e \in d.edges : w \in Pieces(wire[e], e)
  BY <1>2, PiecesAdd
<1>3. CASE \E e \in d.edges : \E y \in Known(m, PersistedWires(m, nodes), e) : w \in Changes(m, y[2], e)
  <2>1. PICK e \in d.edges : \E y \in Known(m, PersistedWires(m, nodes), e) : w \in Changes(m, y[2], e)
    BY <1>3
  <2>2. PICK y \in Known(m, PersistedWires(m, nodes), e) : w \in Changes(m, y[2], e)
    BY <2>1
  <2>3. r \in Marks(m, y[2], e)
    BY <2>2, ChangesAdd
  <2>4. r[2] = "taken"
    BY <2>3 DEF Marks
  <2>5. QED
    BY <2>4
<1>4. CASE \E x : w = Removes(x)
  BY <1>4, RemovesIs
<1>5. QED
  BY <1>1, <1>2, <1>3, <1>4, RequestedIs

\* A wire that a save adds is the Thing of one that is drawn.
LEMMA RequestedWires ==
  ASSUME NEW d, NEW m, NEW p, NEW nodes, NEW wire, NEW w \in Requested(d, m, p, nodes, wire), NEW x \in w.added.wires
  PROVE  \E e \in d.edges : x = wire[e]
<1>1. CASE w = Fragment(d, p)
  BY <1>1, FragmentIs
<1>2. CASE \E e \in d.edges : w \in Pieces(wire[e], e)
  BY <1>2, PiecesAdd
<1>3. CASE \E e \in d.edges : \E y \in Known(m, PersistedWires(m, nodes), e) : w \in Changes(m, y[2], e)
  BY <1>3, ChangesAdd
<1>4. CASE \E y : w = Removes(y)
  BY <1>4, RemovesIs
<1>5. QED
  BY <1>1, <1>2, <1>3, <1>4, RequestedIs

\* A relationship of a wire's pieces tells which it is.
LEMMA WireRelParts ==
  ASSUME NEW x, NEW e, NEW r \in WireRels(x, e)
  PROVE  /\ r[2] = "has" => r = <<e.source, "has", x>> /\ r[3] = x
         /\ r[2] = "wire" => r = <<x, "wire", e.target>> /\ r[1] = x
         /\ r[2] = "in" => r = <<x, "in", e.outPort>> /\ r[1] = x
BY DEF WireRels

\* Whatever the page has heard, a save it sends leaves each wire one target, one port and one node.
LEMMA SaveSingle ==
  ASSUME NEW kind, Kinded(kind), WireInv, onSave
  PROVE  WireInv'
<1> DEFINE kind2 == SaveKind(kind)
           d == SaveDrawn
           T == Range(todo')
           R == model.rels \union RelatedBy(T)
           W == model.wires \union WiresBy(T)
<1>1. /\ Planned(heard, canvas, minted, kind, SaveTo, SaveFree, SaveTop, kind2)
      /\ CanvasFits(d, kind2, 0)
      /\ \A n \in d.nodes : n.id > 0
      /\ Extends(kind2, kind)
      /\ \E wire \in Numbering(d.edges, SaveFree) :
           /\ \A e \in d.edges : wire[e] \in Of(kind2, "wire") /\ wire[e] \in Nat /\ wire[e] > SaveFree
           /\ T = Requested(d, heard, SavePipeline, SaveNodes, wire)
      /\ \A w \in T : RequestFits(w, kind2)
  BY SavePlanned
<1>2. PICK wire \in Numbering(d.edges, SaveFree) :
           /\ \A e \in d.edges : wire[e] \in Of(kind2, "wire") /\ wire[e] \in Nat /\ wire[e] > SaveFree
           /\ T = Requested(d, heard, SavePipeline, SaveNodes, wire)
  BY <1>1
<1>3. \A e, f \in d.edges : wire[e] = wire[f] => e = f
  BY <1>2 DEF Numbering
<1>4. /\ minted \in Nat /\ SaveFree \in Nat /\ minted < SaveFree /\ DOMAIN kind = 1..minted
      /\ DOMAIN kind2 = 1..SaveTop /\ SaveTop \in Nat
  BY <1>1 DEF Planned
<1>5. \A e \in d.edges : wire[e] \notin 1..minted /\ wire[e] \in Int
  BY <1>2, <1>4
<1>6. Fits(model, kind) /\ model' = model
  BY DEF Kinded, onSave
<1>6a. DOMAIN kind \subseteq Int /\ DOMAIN kind2 \subseteq Int
  BY <1>4
<1>6b. model.wires \subseteq 1..minted
  BY <1>4, <1>6, KindOf DEF Fits
<1>7. Fits(model, kind2)
  BY <1>1, <1>6, <1>6a, FitsExtends
<1>8. W \subseteq Of(kind2, "wire")
  <2>1. \A w \in T : w.added.wires \subseteq Of(kind2, "wire")
    BY <1>1 DEF RequestFits, Fits
  <2>2. QED
    BY <1>7, <2>1 DEF WiresBy, Fits
<1>8a. \A x \in W : x \in model.wires \/ \E e \in d.edges : x = wire[e]
  <2> HIDE DEF T, d
  <2>1. \A w \in T : \A x \in w.added.wires : \E e \in d.edges : x = wire[e]
    BY <1>2, RequestedWires
  <2>2. QED
    BY <2>1 DEF WiresBy
<1>9. Single(model.rels, model.wires)
  BY SingleOfFewer DEF WireInv
<1> HIDE DEF kind2, d, T
<1>10. ASSUME NEW r \in R
       PROVE  \/ r \in model.rels /\ r[1] \in 1..minted /\ (r[3] \in W => r[3] \in model.wires)
              \/ r[2] = "taken"
              \/ r[2] = "has" /\ r[3] \notin W
              \/ \E e \in d.edges : r \in WireRels(wire[e], e)
  <2>1. CASE r \in model.rels
    <3>1. r \in RelsIn(kind)
      BY <1>6, <2>1 DEF Fits
    <3>2. r[1] \in DOMAIN kind /\ r[3] \in DOMAIN kind \union {Service, Success, Fail}
      BY <1>6a, <3>1, RelParts
    <3>3. \A e \in d.edges : r[3] # wire[e]
      <4>1. \A x \in {Service, Success, Fail} : x \notin Int
        BY DrawingAssumption
      <4>2. QED
        BY <1>4, <1>5, <3>2, <4>1
    <3>4. QED
      BY <1>4, <1>8a, <2>1, <3>2, <3>3
  <2>2. CASE r \in RelatedBy(T)
    <3>1. PICK w \in T : r \in w.added.rels
      BY <2>2 DEF RelatedBy
    <3>2. \/ r[2] = "taken"
          \/ r[2] = "has" /\ r[3] \in NodesIn(kind2) \union Of(kind2, "port")
          \/ \E e \in d.edges : r \in WireRels(wire[e], e)
      BY <1>1, <1>2, <3>1, RequestedRels
    <3>3. r[3] \in NodesIn(kind2) \union Of(kind2, "port") => r[3] \notin W
      BY <1>8, KindOf
    <3>4. QED
      BY <3>2, <3>3
  <2>3. QED
    BY <2>1, <2>2
<1> HIDE DEF R, W
<1>11. ASSUME NEW r \in R, NEW s \in R, r[2] = s[2], r[2] \in {"wire", "in"}, r[1] = s[1]
       PROVE  r = s
  <2>1. \/ r \in model.rels /\ r[1] \in 1..minted
        \/ \E e \in d.edges : r \in WireRels(wire[e], e)
    BY <1>10, <1>11
  <2>2. \/ s \in model.rels /\ s[1] \in 1..minted
        \/ \E e \in d.edges : s \in WireRels(wire[e], e)
    BY <1>10, <1>11
  <2>3. \A e \in d.edges : r \in WireRels(wire[e], e) => r[1] = wire[e] /\ r = IF r[2] = "wire" THEN <<wire[e], "wire", e.target>> ELSE <<wire[e], "in", e.outPort>>
    BY <1>11, WireRelParts
  <2>4. \A e \in d.edges : s \in WireRels(wire[e], e) => s[1] = wire[e] /\ s = IF s[2] = "wire" THEN <<wire[e], "wire", e.target>> ELSE <<wire[e], "in", e.outPort>>
    BY <1>11, WireRelParts
  <2>5. CASE r \in model.rels /\ s \in model.rels
    BY <1>9, <1>11, <2>5 DEF Single
  <2>6. CASE \E e \in d.edges : r \in WireRels(wire[e], e)
    <3>1. PICK e \in d.edges : r \in WireRels(wire[e], e)
      BY <2>6
    <3>2. r[1] = wire[e] /\ r[1] \notin 1..minted
      BY <1>5, <2>3, <3>1
    <3>3. PICK f \in d.edges : s \in WireRels(wire[f], f)
      BY <1>11, <2>2, <3>2
    <3>4. e = f
      BY <1>3, <1>11, <2>4, <3>2, <3>3
    <3>5. QED
      BY <1>11, <2>3, <2>4, <3>1, <3>3, <3>4
  <2>7. CASE \E e \in d.edges : s \in WireRels(wire[e], e)
    <3>1. PICK e \in d.edges : s \in WireRels(wire[e], e)
      BY <2>7
    <3>2. s[1] = wire[e] /\ s[1] \notin 1..minted
      BY <1>5, <2>4, <3>1
    <3>3. QED
      BY <1>11, <2>1, <2>6, <3>2
  <2>8. QED
    BY <2>1, <2>2, <2>5, <2>6, <2>7
<1>12. ASSUME NEW r \in R, NEW s \in R, r[2] = s[2], r[2] = "has", r[3] = s[3], r[3] \in W
       PROVE  r = s
  <2>1. \/ r \in model.rels /\ r[3] \in model.wires
        \/ \E e \in d.edges : r \in WireRels(wire[e], e)
    BY <1>10, <1>12
  <2>2. \/ s \in model.rels /\ s[3] \in model.wires
        \/ \E e \in d.edges : s \in WireRels(wire[e], e)
    BY <1>10, <1>12
  <2>3. ASSUME NEW e \in d.edges, r \in WireRels(wire[e], e)
        PROVE  r[3] = wire[e] /\ r = <<e.source, "has", wire[e]>>
    <3>1. r[2] = "has"
      BY <1>12
    <3>2. QED
      BY <2>3, <3>1, WireRelParts
  <2>4. ASSUME NEW e \in d.edges, s \in WireRels(wire[e], e)
        PROVE  s[3] = wire[e] /\ s = <<e.source, "has", wire[e]>>
    <3>1. s[2] = "has"
      BY <1>12
    <3>2. QED
      BY <2>4, <3>1, WireRelParts
  <2>5. CASE r \in model.rels /\ s \in model.rels /\ r[3] \in model.wires
    BY <1>9, <1>12, <2>5 DEF Single
  <2>6. ASSUME NEW e \in d.edges, NEW f \in d.edges, r \in WireRels(wire[e], e), s \in WireRels(wire[f], f)
        PROVE  r = s
    <3>1. wire[e] = wire[f]
      BY <1>12, <2>3, <2>4, <2>6
    <3>2. e = f
      BY <1>3, <3>1
    <3>3. QED
      BY <2>3, <2>4, <2>6, <3>2
  <2>7. \A e \in d.edges : wire[e] \notin model.wires
    BY <1>5, <1>6b
  <2>8. QED
    BY <1>12, <2>1, <2>2, <2>3, <2>4, <2>5, <2>6, <2>7
<1>13. Single(R, W)
  BY <1>11, <1>12 DEF Single
<1>14. QED
  BY <1>6, <1>13 DEF WireInv, R, W, T

\* Editing, opening and hearing change nothing of a save, of the model or of what was written.
LEMMA OthersLeave ==
  ASSUME \/ \E start \in BOOLEAN : place(start)
         \/ onConnect \/ setEdgeTakenOn \/ onEdgesDelete \/ onNodesDelete \/ onNodeDragStart
         \/ onUndo \/ onLoad \/ onNew \/ Hears \/ UNCHANGED vars
  PROVE  busy' = busy /\ save' = save /\ todo' = todo /\ model' = model /\ written' = written
BY DEF place, onConnect, setEdgeTakenOn, onEdgesDelete, onNodesDelete, onNodeDragStart, onUndo, onLoad, onNew,
       OpensWith, Hears, Edited, EditedUnmarked, EditedOnce, saving, vars, history

\* No request adds nothing.
LEMMA NothingRelated ==
  /\ RelatedBy({}) = {} /\ WiresBy({}) = {} /\ Range(<<>>) = {}
BY DEF RelatedBy, WiresBy, Range

\* At first no save is on its way.
LEMMA InitSaved ==
  ASSUME Init
  PROVE  WireInv /\ SavedInv
<1>1. model = Held /\ todo = <<>> /\ busy = FALSE /\ written = Unwritten
  BY DEF Init
<1>2. /\ \A r, s \in Held.rels : r[2] = s[2] =>
           /\ r[2] \in {"wire", "in", "out"} /\ r[1] = s[1] => r = s
           /\ r[2] = "has" /\ r[3] = s[3] /\ r[3] \in Held.wires => r = s
  BY HeldAssumption
<1>3. Single(Held.rels, Held.wires)
  BY <1>2 DEF Single
<1>4. WireInv
  BY <1>1, <1>3, NothingRelated DEF WireInv
<1>5. SavedInv
  BY <1>1 DEF SavedInv, SavedReadsAsDrawn
<1>6. QED
  BY <1>4, <1>5

\* A request made leaves no more than was there or to be written.
LEMMA FewerToDo ==
  ASSUME NEW m, NEW w, NEW T, NEW x, x = Applied(m, w), NEW U, U = {w} \union T
  PROVE  /\ x.rels \union RelatedBy(T) \subseteq m.rels \union RelatedBy(U)
         /\ x.wires \union WiresBy(T) \subseteq m.wires \union WiresBy(U)
         /\ m.rels \subseteq m.rels \union RelatedBy(U)
         /\ m.wires \subseteq m.wires \union WiresBy(U)
         /\ x.rels \subseteq m.rels \union RelatedBy(U)
         /\ x.wires \subseteq m.wires \union WiresBy(U)
<1>1. /\ x.wires = (m.wires \ w.removed) \union w.added.wires
      /\ x.rels = {r \in m.rels : r[1] \notin w.removed /\ r[3] \notin w.removed /\ r \notin w.retracted}
                    \union w.added.rels
  BY AppliedIs
<1>2. RelatedBy(U) = w.added.rels \union RelatedBy(T) /\ WiresBy(U) = w.added.wires \union WiresBy(T)
  BY DEF RelatedBy, WiresBy
<1>3. QED
  BY <1>1, <1>2

\* A request made, or given up, leaves each wire one target, one port and one holder.
LEMMA WritingSingle ==
  ASSUME NEW kind, Kinded(kind), WireInv, Writing \/ SaveFails
  PROVE  WireInv'
<1> DEFINE w == Head(todo)
           T == Range(Tail(todo))
           U == Range(todo)
           R == model.rels \union RelatedBy(U)
           W == model.wires \union WiresBy(U)
<1>1. todo # <<>> /\ IsSeq(todo)
  BY DEF Kinded, Writing, SaveFails
<1>2. U = {w} \union T
  BY <1>1, HeadTail
<1>3. Single(R, W)
  BY DEF WireInv
<1> HIDE DEF w, T, U
<1>4. /\ Applied(model, w).rels \union RelatedBy(T) \subseteq R
      /\ Applied(model, w).wires \union WiresBy(T) \subseteq W
      /\ model.rels \subseteq R /\ model.wires \subseteq W
      /\ Applied(model, w).rels \subseteq R
      /\ Applied(model, w).wires \subseteq W
  BY <1>2, FewerToDo
<1> HIDE DEF R, W
<1>5. CASE Writing
  <2>1. model' = Applied(model, w) /\ Range(todo') = T
    BY <1>5 DEF Writing, w, T
  <2>2. Single(model'.rels \union RelatedBy(Range(todo')), model'.wires \union WiresBy(Range(todo')))
    BY <1>3, <1>4, <2>1, SingleOfFewer
  <2>3. QED
    BY <2>2 DEF WireInv
<1>6. CASE SaveFails
  <2>1. model' \in {model, Applied(model, w)} /\ todo' = <<>>
    BY <1>6 DEF SaveFails, w
  <2>2. model'.rels \subseteq R /\ model'.wires \subseteq W
    BY <1>4, <2>1
  <2>3. Single(model'.rels, model'.wires)
    BY <1>3, <2>2, SingleOfFewer
  <2>4. model'.rels \union RelatedBy(Range(todo')) = model'.rels /\ model'.wires \union WiresBy(Range(todo')) = model'.wires
    BY <2>1, NothingRelated
  <2>5. QED
    BY <2>3, <2>4 DEF WireInv
<1>7. QED
  BY <1>5, <1>6

\* Each step that is part of a save.
LEMMA SaveSaved ==
  ASSUME NEW kind, Kinded(kind), WireInv, SavedInv, onSave
  PROVE  SavedInv'
<1>1. /\ save' = [attempt |-> canvas, pipeline |-> SavePipeline, to |-> SaveTo,
                  captured |-> editingPipelineId, sound |-> Sound(canvas, SavePipeline)]
      /\ written' = Unwritten /\ model' = model
  BY SaveIs DEF Kinded, CanvasFits
<1>2. save'.attempt = canvas /\ save'.pipeline = SavePipeline /\ save'.to = SaveTo
  BY <1>1
<1>3. save'.sound <=> Sound(canvas, SavePipeline)
  BY <1>1
<1>4. Single(model.rels, model.wires)
  BY SingleOfFewer DEF WireInv
<1>5. ASSUME save'.sound
      PROVE  /\ NoClash(Range(todo'))
             /\ loadPipeline(After(model', Range(todo')), save'.pipeline) = Drawn(save'.attempt, save'.to)
  <2>1. /\ NoClash(Range(todo'))
        /\ loadPipeline(After(model, Range(todo')), SavePipeline) = SaveDrawn
    BY <1>3, <1>4, <1>5, SavePromises
  <2>2. QED
    BY <1>1, <1>2, <2>1 DEF SaveDrawn
<1>6. QED
  BY <1>1, <1>5 DEF SavedInv, SavedReadsAsDrawn

\* A request made leads where it led.
LEMMA WritingSaved ==
  ASSUME NEW kind, Kinded(kind), SavedInv, Writing
  PROVE  SavedInv'
<1> DEFINE w == Head(todo)
           T == Range(Tail(todo))
<1>1. /\ busy /\ todo # <<>> /\ IsSeq(todo) /\ model' = Applied(model, w) /\ Range(todo') = T
      /\ busy' = busy /\ save' = save /\ written' = written
  BY DEF Kinded, Writing, history
<1>2. Range(todo) = {w} \union T
  BY <1>1, HeadTail
<1>3. written = Unwritten
  BY <1>1 DEF SavedInv
<1> HIDE DEF w, T
<1>4. ASSUME save.sound
      PROVE  /\ NoClash(T)
             /\ loadPipeline(After(Applied(model, w), T), save.pipeline) = Drawn(save.attempt, save.to)
  <2>1. /\ NoClash({w} \union T)
        /\ loadPipeline(After(model, {w} \union T), save.pipeline) = Drawn(save.attempt, save.to)
    BY <1>1, <1>2, <1>4 DEF SavedInv
  <2>2. After(Applied(model, w), T) = After(model, {w} \union T) /\ NoClash(T)
    BY <2>1, AfterNext
  <2>3. QED
    BY <2>1, <2>2
<1>5. QED
  BY <1>1, <1>3, <1>4 DEF SavedInv, SavedReadsAsDrawn

\* A save that is done has written what it promised.
LEMMA DoneSaved ==
  ASSUME SavedInv, Saved
  PROVE  SavedInv'
<1>1. /\ busy /\ todo = <<>> /\ busy' = FALSE /\ model' = model
      /\ written' = IF save.sound THEN [pipeline |-> save.pipeline, drawn |-> Drawn(save.attempt, save.to)]
                    ELSE Unwritten
  BY DEF Saved
<1>2. ASSUME save.sound
      PROVE  /\ written'.pipeline = save.pipeline /\ written'.drawn = Drawn(save.attempt, save.to)
             /\ loadPipeline(model, save.pipeline) = Drawn(save.attempt, save.to)
  <2>1. written'.pipeline = save.pipeline /\ written'.drawn = Drawn(save.attempt, save.to)
    BY <1>1, <1>2
  <2>2. loadPipeline(After(model, {}), save.pipeline) = Drawn(save.attempt, save.to)
    BY <1>1, <1>2, NothingRelated DEF SavedInv
  <2>3. QED
    BY <2>1, <2>2, AfterNothing
<1>3. ~save.sound => written' = Unwritten
  BY <1>1
<1>4. SavedReadsAsDrawn'
  BY <1>1, <1>2, <1>3 DEF SavedReadsAsDrawn
<1>5. QED
  BY <1>1, <1>4 DEF SavedInv

\* A save that fails promises nothing more.
LEMMA FailsSaved ==
  ASSUME SavedInv, SaveFails
  PROVE  SavedInv'
<1>1. busy /\ busy' = FALSE /\ written' = written
  BY DEF SaveFails
<1>2. written' = Unwritten
  BY <1>1 DEF SavedInv
<1>3. QED
  BY <1>1, <1>2 DEF SavedInv, SavedReadsAsDrawn

\* Every step keeps what the wires and a save promise.
LEMMA StepSaved ==
  ASSUME KindedInv, WireInv, SavedInv, [Next]_vars
  PROVE  WireInv' /\ SavedInv'
<1>0. PICK kind : Kinded(kind)
  BY DEF KindedInv
<1>1. CASE \/ \E start \in BOOLEAN : place(start)
           \/ onConnect \/ setEdgeTakenOn \/ onEdgesDelete \/ onNodesDelete \/ onNodeDragStart
           \/ onUndo \/ onLoad \/ onNew \/ Hears \/ UNCHANGED vars
  <2>1. busy' = busy /\ save' = save /\ todo' = todo /\ model' = model /\ written' = written
    BY <1>1, OthersLeave
  <2>2. WireInv'
    BY <2>1 DEF WireInv
  <2>3. SavedInv'
    BY <2>1 DEF SavedInv, SavedReadsAsDrawn
  <2>4. QED
    BY <2>2, <2>3
<1>2. CASE onSave
  BY <1>0, <1>2, SaveSingle, SaveSaved
<1>3. CASE Writing
  BY <1>0, <1>3, WritingSingle, WritingSaved
<1>4. CASE Saved
  <2>1. todo' = todo /\ model' = model
    BY <1>4 DEF Saved
  <2>2. WireInv'
    BY <2>1 DEF WireInv
  <2>3. QED
    BY <1>4, <2>2, DoneSaved
<1>5. CASE SaveFails
  BY <1>0, <1>5, WritingSingle, FailsSaved
<1>6. QED
  BY <1>1, <1>2, <1>3, <1>4, <1>5 DEF Next

\* In every state of every execution a sound save will read as it was drawn.
LEMMA SavedKept == Spec => [](WireInv /\ SavedInv)
<1>1. Init => WireInv /\ SavedInv
  BY InitSaved
<1>2. KindedInv /\ WireInv /\ SavedInv /\ [Next]_vars => (WireInv /\ SavedInv)'
  BY StepSaved
<1>3. QED
  BY <1>1, <1>2, KindsKept, PTL DEF Spec

\* For any Things held before and any bounds: once every request of a sound save was made, in whichever order its
\* wires came, opening the pipeline reads what was drawn (savePipeline.ts, loadPipeline.ts).
THEOREM WhatIsSavedReadsAsDrawn == Spec => []SavedReadsAsDrawn
<1>1. SavedInv => SavedReadsAsDrawn
  BY DEF SavedInv
<1>2. QED
  BY <1>1, SavedKept, PTL

-----------------------------------------------------------------------------
\* What may be run is what is shown.

\* A canvas no edit has touched since the save began is what is saved; what was heard to be so is what would run.
RunInv ==
  /\ busy => DOMAIN save.to = Ids(save.attempt)
  /\ busy /\ ~touched => canvas = save.attempt
  /\ ~busy /\ confirmed /\ savedId # NoPipeline =>
       /\ Ids(canvas) \subseteq DOMAIN thingIdByCanvasId
       /\ Marked(loadPipeline(model, savedId)) = Drawn(canvas, thingIdByCanvasId)

MarkedEdge(e) == [e EXCEPT !.taken = takenOnOf(@)]

\* A drawing each of whose wires is marked.
LEMMA MarkedIs ==
  ASSUME NEW d, d = [nodes |-> d.nodes, edges |-> d.edges]
  PROVE  Marked(d) = [nodes |-> d.nodes, edges |-> {MarkedEdge(e) : e \in d.edges}]
<1> DEFINE F == {MarkedEdge(e) : e \in d.edges}
<1>1. Marked(d) = [d EXCEPT !.edges = F]
  BY DEF Marked, MarkedEdge
<1> HIDE DEF F
<1>2. [d EXCEPT !.edges = F] = [nodes |-> d.nodes, edges |-> F]
  OBVIOUS
<1>3. QED
  BY <1>1, <1>2 DEF F

\* Once a drawing is saved each of its wires is marked.
LEMMA MarkedDrawn ==
  ASSUME NEW c, NEW to, DOMAIN to = Ids(c), NEW kind, NEW placed, CanvasFits(c, kind, placed), NEW d, d = Drawn(c, to)
  PROVE  Marked(d) = d
<1>1. /\ d = [nodes |-> d.nodes, edges |-> d.edges]
      /\ d.edges = {EdgeAt(e, to) : e \in c.edges}
  BY DrawnParts
<1>2. ASSUME NEW x \in d.edges
      PROVE  MarkedEdge(x) = x
  <2>1. PICK e \in c.edges : x = EdgeAt(e, to)
    BY <1>1
  <2>2. EdgeFits(e, kind, Ids(c))
    BY DEF CanvasFits
  <2> DEFINE a == to[e.source]
             b == to[e.target]
             t == takenOnOf(e.taken)
  <2>3. x = [source |-> a, outPort |-> e.outPort, target |-> b, inPort |-> Service, taken |-> t] /\ t # {}
    BY <2>1, <2>2, EdgeMoved DEF EdgeAt
  <2> HIDE DEF a, b, t
  <2>4. takenOnOf(t) = t
    BY <2>3 DEF takenOnOf
  <2>5. MarkedEdge(x) = [x EXCEPT !.taken = takenOnOf(t)]
    BY <2>3 DEF MarkedEdge
  <2>6. QED
    BY <2>3, <2>4, <2>5
<1>3. {MarkedEdge(e) : e \in d.edges} = d.edges
  BY <1>2
<1>4. Marked(d) = [nodes |-> d.nodes, edges |-> {MarkedEdge(e) : e \in d.edges}]
  BY <1>1, MarkedIs
<1>5. QED
  BY <1>1, <1>3, <1>4

\* What is loaded is drawn as it is, each of its wires marked.
LEMMA LoadedDrawn ==
  ASSUME NEW kind, NEW placed, NEW c, CanvasFits(c, kind, placed), NEW to, DOMAIN to = Ids(c), \A i \in Ids(c) : to[i] = i
  PROVE  Drawn(c, to) = Marked(c)
<1>1. c = [nodes |-> c.nodes, edges |-> c.edges]
  BY DEF CanvasFits
<1>2. /\ Drawn(c, to) = [nodes |-> Drawn(c, to).nodes, edges |-> Drawn(c, to).edges]
      /\ Drawn(c, to).nodes = {NodeAt(n, to) : n \in c.nodes}
      /\ Drawn(c, to).edges = {EdgeAt(e, to) : e \in c.edges}
  BY <1>1, DrawnParts
<1>3. ASSUME NEW n \in c.nodes
      PROVE  NodeAt(n, to) = n
  <2>1. NodeFits(n, kind, placed) /\ n.id \in Ids(c)
    BY DEF CanvasFits, Ids
  <2>2. n \in [id : Int, start : BOOLEAN, ports : SUBSET (Of(kind, "port") \union {Service})]
    BY <2>1 DEF NodeFits
  <2>3. to[n.id] = n.id
    BY <2>1
  <2>4. NodeAt(n, to) = [n EXCEPT !.id = n.id]
    BY <2>3 DEF NodeAt
  <2>5. QED
    BY <2>2, <2>4
<1>4. ASSUME NEW e \in c.edges
      PROVE  EdgeAt(e, to) = MarkedEdge(e)
  <2>1. EdgeFits(e, kind, Ids(c))
    BY DEF CanvasFits
  <2>2. e.source \in Ids(c) /\ e.target \in Ids(c)
    BY <2>1 DEF EdgeFits
  <2>3. to[e.source] = e.source /\ to[e.target] = e.target
    BY <2>2
  <2> DEFINE t == takenOnOf(e.taken)
  <2>4. EdgeAt(e, to) = [source |-> to[e.source], outPort |-> e.outPort, target |-> to[e.target], inPort |-> Service,
                 taken |-> t]
    BY <2>1, EdgeMoved DEF EdgeAt
  <2>5. e = [source |-> e.source, outPort |-> e.outPort, target |-> e.target, inPort |-> Service, taken |-> e.taken]
    BY <2>1, EdgeMoved DEF EdgeAt
  <2>6. MarkedEdge(e) = [e EXCEPT !.taken = t]
    BY <2>5 DEF MarkedEdge
  <2> HIDE DEF t
  <2>7. QED
    BY <2>3, <2>4, <2>5, <2>6
<1>5. {NodeAt(n, to) : n \in c.nodes} = c.nodes
  BY <1>3
<1>6. {EdgeAt(e, to) : e \in c.edges} = {MarkedEdge(e) : e \in c.edges}
  BY <1>4
<1>7. Marked(c) = [nodes |-> c.nodes, edges |-> {MarkedEdge(e) : e \in c.edges}]
  BY <1>1, MarkedIs
<1>8. QED
  BY <1>2, <1>5, <1>6, <1>7

\* An edit keeps what is confirmed to what would run.
LEMMA EditRun ==
  ASSUME RunInv, NEW c, NEW records, Edited(c, records)
  PROVE  RunInv'
BY DEF RunInv, Edited, EditedOnce, saving

\* So does the start of a drag.
LEMMA DragRun ==
  ASSUME RunInv, onNodeDragStart
  PROVE  RunInv'
<1>1. /\ canvas' = canvas /\ savedId' = savedId /\ thingIdByCanvasId' = thingIdByCanvasId
      /\ busy' = busy /\ save' = save /\ model' = model /\ touched' = TRUE /\ confirmed' = confirmed
  BY DEF onNodeDragStart, EditedUnmarked, EditedOnce, saving
<1>2. QED
  BY <1>1 DEF RunInv

\* So does undo.
LEMMA UndoRun ==
  ASSUME RunInv, onUndo
  PROVE  RunInv'
BY DEF RunInv, onUndo, saving

\* So does a new pipeline.
LEMMA NewRun ==
  ASSUME RunInv, onNew
  PROVE  RunInv'
BY DEF RunInv, onNew, OpensWith, saving

\* So does opening a pipeline.
LEMMA LoadRun ==
  ASSUME NEW kind, Kinded(kind), RunInv, onLoad
  PROVE  RunInv'
<1>1. PICK p \in heard.pipelines : OpensWith(p, loadPipeline(heard, p), p)
  BY DEF onLoad
<1> DEFINE c == loadPipeline(heard, p)
           to == [i \in Ids(c) |-> i]
<1>2. /\ canvas' = c /\ savedId' = p /\ busy' = busy /\ save' = save /\ model' = model /\ touched' = TRUE
      /\ confirmed' => heard = model /\ ~busy
  BY <1>1 DEF OpensWith, saving
<1>3. thingIdByCanvasId' = to
  BY <1>1 DEF OpensWith, Ids
<1>4. CanvasFits(c, kind, nodeSequence)
  BY LoadFits DEF Kinded
<1>5. DOMAIN to = Ids(c) /\ \A i \in Ids(c) : to[i] = i
  OBVIOUS
<1> HIDE DEF c, to
<1>6. Drawn(c, to) = Marked(c)
  BY <1>4, <1>5, LoadedDrawn
<1>7. confirmed' => Marked(loadPipeline(model', savedId')) = Drawn(canvas', thingIdByCanvasId')
  BY <1>2, <1>3, <1>6 DEF c
<1>8. QED
  BY <1>2, <1>3, <1>5, <1>7 DEF RunInv

\* So does sending a save.
LEMMA SaveRun ==
  ASSUME NEW kind, Kinded(kind), RunInv, onSave
  PROVE  RunInv'
<1>1. /\ save' = [attempt |-> canvas, pipeline |-> SavePipeline, to |-> SaveTo,
                  captured |-> editingPipelineId, sound |-> Sound(canvas, SavePipeline)]
      /\ busy' = TRUE /\ canvas' = canvas
  BY SaveIs DEF Kinded, CanvasFits, drawing
<1>2. save'.attempt = canvas /\ save'.to = SaveTo
  BY <1>1
<1>3. DOMAIN SaveTo = Ids(canvas)
  BY SavePlanned DEF Planned
<1>4. QED
  BY <1>1, <1>2, <1>3 DEF RunInv

\* So does the end of a save.
LEMMA DoneRun ==
  ASSUME NEW kind, Kinded(kind), RunInv, SavedInv, Saved
  PROVE  RunInv'
<1>1. /\ busy /\ todo = <<>> /\ busy' = FALSE /\ model' = model /\ canvas' = canvas
      /\ savedId' = save.pipeline /\ thingIdByCanvasId' = save.to
      /\ confirmed' = (save.sound /\ ~touched)
  BY DEF Saved
<1>2. ASSUME confirmed'
      PROVE  /\ Ids(canvas) \subseteq DOMAIN save.to
             /\ Marked(loadPipeline(model, save.pipeline)) = Drawn(canvas, save.to)
  <2>1. save.sound /\ ~touched
    BY <1>1, <1>2
  <2>2. canvas = save.attempt /\ DOMAIN save.to = Ids(save.attempt)
    BY <1>1, <2>1 DEF RunInv
  <2>3. loadPipeline(After(model, {}), save.pipeline) = Drawn(save.attempt, save.to)
    BY <1>1, <2>1, NothingRelated DEF SavedInv
  <2>4. loadPipeline(model, save.pipeline) = Drawn(canvas, save.to)
    BY <2>2, <2>3, AfterNothing
  <2>5. CanvasFits(canvas, kind, nodeSequence)
    BY DEF Kinded
  <2>6. Marked(Drawn(canvas, save.to)) = Drawn(canvas, save.to)
    BY <2>2, <2>5, MarkedDrawn
  <2>7. QED
    BY <2>2, <2>4, <2>6
<1>3. QED
  BY <1>1, <1>2 DEF RunInv

\* So does every step.
LEMMA StepRun ==
  ASSUME KindedInv, SavedInv, RunInv, [Next]_vars
  PROVE  RunInv'
<1>0. PICK kind : Kinded(kind)
  BY DEF KindedInv
<1>1. CASE \E start \in BOOLEAN : place(start)
  BY <1>1, EditRun DEF place
<1>2. CASE onConnect
  BY <1>2, EditRun DEF onConnect
<1>3. CASE setEdgeTakenOn
  BY <1>3, EditRun DEF setEdgeTakenOn
<1>4. CASE onEdgesDelete
  BY <1>4, EditRun DEF onEdgesDelete
<1>5. CASE onNodesDelete
  BY <1>5, EditRun DEF onNodesDelete
<1>6. CASE Writing
  <2>1. /\ busy /\ busy' = busy /\ save' = save /\ canvas' = canvas /\ touched' = touched
    BY <1>6 DEF Writing, drawing, history
  <2>2. QED
    BY <2>1 DEF RunInv
<1>7. CASE SaveFails
  <2>1. busy' = FALSE /\ confirmed' = FALSE
    BY <1>7 DEF SaveFails
  <2>2. QED
    BY <2>1 DEF RunInv
<1>8. CASE Hears \/ UNCHANGED vars
  <2>1. /\ busy' = busy /\ save' = save /\ canvas' = canvas /\ touched' = touched /\ savedId' = savedId
        /\ confirmed' = confirmed /\ thingIdByCanvasId' = thingIdByCanvasId /\ model' = model
    BY <1>8 DEF Hears, vars, drawing, opened, saving, history
  <2>2. QED
    BY <2>1 DEF RunInv
<1>9. QED
  BY <1>0, <1>1, <1>2, <1>3, <1>4, <1>5, <1>6, <1>7, <1>8, DragRun, UndoRun, NewRun, LoadRun, SaveRun, DoneRun DEF Next

\* At first nothing is confirmed.
LEMMA InitRun == Init => RunInv
BY DEF Init, RunInv

\* In every state of every execution what was confirmed is what would run.
LEMMA RunKept == Spec => []RunInv
<1>1. KindedInv /\ SavedInv /\ RunInv /\ [Next]_vars => RunInv'
  BY StepRun
<1>2. QED
  BY <1>1, InitRun, KindsKept, SavedKept, PTL DEF Spec

\* For any Things held before and any bounds: where the page says that what is shown is saved, so that it may be run,
\* the pipeline the model holds reads as the canvas shows it (PipelineEditorPage.tsx, savedId and dirty).
THEOREM WhatRunsIsShown == Spec => []RunsWhatIsShown
<1>1. RunInv => RunsWhatIsShown
  BY DEF RunInv, RunsWhatIsShown, Ids
<1>2. QED
  BY <1>1, RunKept, PTL
=============================================================================
