---------------------------- MODULE HandlingProofs ----------------------------
(***************************************************************************)
(* Proofs about what a handler relies on: the vectorised searches find     *)
(* what the plain one finds, for every sequence and every width of the     *)
(* registers; a program's routes are dispatched as it wrote them, for all  *)
(* patterns, prefixes and depths of scopes; and the two splits take every  *)
(* body apart at the same places if its delimiters do not overlap.         *)
(***************************************************************************)
EXTENDS Handling, TLAPS, WellFoundedInduction, SequenceTheorems, FiniteSetTheorems

-----------------------------------------------------------------------------
(* The search for the end of a header: a chunk's loop covers the positions *)
(* up to Whole(s, w); the rest, searched by itself, has the markers that   *)
(* begin behind it.  What is left is the first of either.                  *)

\* First is the least element of a set of positions, if there is one.
LEMMA FirstIsLeast ==
    ASSUME NEW S \in SUBSET Nat, S # {}
    PROVE  First(S) \in S /\ \A j \in S : First(S) <= j
<1>1. \E x \in S : \A y \in S : <<y, x>> \notin OpToRel(<, Nat)
  BY WFMin, NatLessThanWellFounded, Zenon
<1>2. PICK x \in S : \A y \in S : <<y, x>> \notin OpToRel(<, Nat)
  BY <1>1
<1>3. ASSUME NEW y \in S PROVE x <= y
  <2>1. <<y, x>> \in Nat \X Nat /\ ~(y < x)
    BY <1>2, Zenon DEF OpToRel
  <2> QED BY <2>1
<1> QED BY <1>3 DEF First

\* The marker has four tokens.
LEMMA MarkerLength == Len(HeaderEnd) = 4
BY DEF HeaderEnd

\* A marker that stands at a position fits behind it.
LEMMA HeaderEndsAreBounded ==
    ASSUME NEW B, NEW s \in Seq(B)
    PROVE  /\ HeaderEnds(s) \subseteq Nat
           /\ \A i \in HeaderEnds(s) : i >= 1 /\ i + 3 <= Len(s)
BY MarkerLength DEF HeaderEnds, At

\* A marker stands at i if the four tokens from i on are those of the marker.
LEMMA MarkerAt ==
    ASSUME NEW B, NEW s \in Seq(B), NEW i \in Nat \ {0}
    PROVE  i \in HeaderEnds(s) <=>
             i + 4 <= Len(s) + 1 /\ SubSeq(s, i, i + 3) = HeaderEnd
<1>1. Len(s) \in Nat
  BY LenProperties
<1>2. i + 4 - 1 = i + 3 /\ (i + 4 <= Len(s) + 1 => i \in 1..Len(s))
  BY <1>1
<1>3. i \in HeaderEnds(s) <=> i \in 1..Len(s) /\ At(s, HeaderEnd, i)
  BY DEF HeaderEnds
<1>4. At(s, HeaderEnd, i) <=>
        i + 4 <= Len(s) + 1 /\ SubSeq(s, i, i + 4 - 1) = HeaderEnd
  BY MarkerLength, Zenon DEF At
<1> QED BY <1>2, <1>3, <1>4

\* What the loop covers is at most the sequence.
LEMMA WholeIsBounded ==
    ASSUME NEW B, NEW s \in Seq(B), NEW w \in Nat \ {0}
    PROVE  Whole(s, w) \in Nat /\ Whole(s, w) <= Len(s)
<1> DEFINE q == Len(s) \div w
           n == Len(s)
<1>1. n \in Nat
  BY LenProperties
<1>2. q \in Nat
  BY <1>1
<1>3. q * w <= n
  BY <1>1
<1>4. q * w \in Nat
  BY <1>2
<1> QED BY <1>3, <1>4 DEF Whole

\* A marker in the rest is a marker of the whole, and one that begins behind the
\* chunks is in the rest.
LEMMA RestShifts ==
    ASSUME NEW B, NEW s \in Seq(B), NEW k \in Nat, k <= Len(s), NEW i \in Nat \ {0}
    PROVE  i \in HeaderEnds(SubSeq(s, k + 1, Len(s))) <=> i + k \in HeaderEnds(s)
<1> DEFINE r == SubSeq(s, k + 1, Len(s))
<1>1. Len(s) \in Nat /\ \A j \in 1..Len(s) : s[j] \in B
  BY LenProperties, ElementOfSeq
<1>2. r \in Seq(B) /\ Len(r) = Len(s) - k
  BY <1>1, SubSeqProperties, SMT
<1>3. i + 4 <= Len(r) + 1 <=> (i + k) + 4 <= Len(s) + 1
  BY <1>1, <1>2
<1>4. ASSUME i + 4 <= Len(r) + 1
      PROVE  SubSeq(r, i, i + 3) = SubSeq(s, i + k, i + k + 3)
  <2>1. /\ k + 1 \in 1..Len(s) /\ Len(s) \in 1..Len(s)
        /\ i \in 1..(Len(s) - (k + 1) + 1) /\ i + 3 \in 1..(Len(s) - (k + 1) + 1)
    BY <1>1, <1>2, <1>4
  <2>2. \A p, q \in 1..Len(s) : \A m, n \in 1..(q - p + 1) :
            SubSeq(SubSeq(s, p, q), m, n) = SubSeq(s, p + m - 1, p + n - 1)
    <3> TAKE p, q \in 1..Len(s)
    <3> TAKE m, n \in 1..(q - p + 1)
    <3> QED BY SubSeqOfSubSeq, SMTT(30)
  <2>3. (k + 1) + i - 1 = i + k /\ (k + 1) + (i + 3) - 1 = i + k + 3
    OBVIOUS
  <2>4. SubSeq(r, i, i + 3) = SubSeq(s, (k + 1) + i - 1, (k + 1) + (i + 3) - 1)
    BY <2>1, <2>2, Zenon
  <2> QED BY <2>3, <2>4
<1>5. i \in HeaderEnds(r) <=> i + 4 <= Len(r) + 1 /\ SubSeq(r, i, i + 3) = HeaderEnd
  BY <1>2, MarkerAt
<1>6. i + k \in Nat \ {0}
  OBVIOUS
<1>7. i + k \in HeaderEnds(s) <=>
        (i + k) + 4 <= Len(s) + 1 /\ SubSeq(s, i + k, i + k + 3) = HeaderEnd
  BY <1>6, MarkerAt
<1> QED
  BY <1>3, <1>4, <1>5, <1>7

\* The first marker of the chunks, or else of the rest, is the first of all.
LEMMA ChunksThenRest ==
    ASSUME NEW B, NEW s \in Seq(B), NEW w \in Nat \ {0}
    PROVE  FindScalar(s) =
             IF Hits(s, w) # {} THEN First(Hits(s, w))
             ELSE Shift(FindScalar(Rest(s, w)), Whole(s, w))
<1> DEFINE k == Whole(s, w)
           E == HeaderEnds(s)
           R == HeaderEnds(Rest(s, w))
<1>1. k \in Nat /\ k <= Len(s)
  BY WholeIsBounded
<1>2. E \subseteq Nat /\ \A i \in E : i >= 1
  BY HeaderEndsAreBounded
<1>3. Rest(s, w) \in Seq(B)
  <2>1. Len(s) \in Nat /\ \A j \in 1..Len(s) : s[j] \in B
    BY LenProperties, ElementOfSeq
  <2> QED BY <1>1, <2>1, SubSeqProperties DEF Rest
<1>4. R \subseteq Nat /\ \A i \in R : i >= 1
  BY <1>3, HeaderEndsAreBounded
<1>5. \A i \in Nat \ {0} : i \in R <=> i + k \in E
  BY <1>1, RestShifts DEF Rest
<1>6. CASE Hits(s, w) # {}
  <2>1. First(Hits(s, w)) \in E /\ \A j \in E : First(Hits(s, w)) <= j
    <3>1. Hits(s, w) \in SUBSET Nat
      BY <1>2 DEF Hits
    <3>2. First(Hits(s, w)) \in Hits(s, w) /\ \A j \in Hits(s, w) : First(Hits(s, w)) <= j
      BY <1>6, <3>1, FirstIsLeast
    <3>3. First(Hits(s, w)) \in E /\ First(Hits(s, w)) <= k
      BY <3>2 DEF Hits
    <3>4. ASSUME NEW j \in E PROVE First(Hits(s, w)) <= j
      <4>1. CASE j <= k
        BY <3>2, <4>1 DEF Hits
      <4>2. CASE ~(j <= k)
        BY <1>1, <1>2, <3>3, <4>2
      <4> QED BY <4>1, <4>2
    <3> QED BY <3>3, <3>4
  <2>2. First(E) \in E /\ \A j \in E : First(E) <= j
    BY <1>2, <2>1, FirstIsLeast
  <2>3. First(E) = First(Hits(s, w))
    BY <1>2, <2>1, <2>2
  <2> QED BY <1>6, <2>3 DEF FindScalar
<1>7. CASE Hits(s, w) = {}
  <2>1. \A j \in E : j > k
    BY <1>1, <1>2, <1>7 DEF Hits
  <2>2. CASE E = {}
    <3>1. R = {}
      BY <1>4, <1>5, <2>2
    <3> QED BY <1>7, <2>2, <3>1 DEF FindScalar, First, Shift
  <2>3. CASE E # {}
    <3>1. First(E) \in E /\ \A j \in E : First(E) <= j
      BY <1>2, <2>3, FirstIsLeast
    <3>2. First(E) - k \in Nat \ {0} /\ First(E) - k \in R
      <4>1. First(E) \in Nat /\ First(E) > k
        BY <1>2, <2>1, <3>1
      <4>2. First(E) - k \in Nat \ {0} /\ (First(E) - k) + k = First(E)
        BY <1>1, <4>1
      <4>3. First(E) - k \in R <=> (First(E) - k) + k \in E
        BY <1>5, <4>2
      <4> QED BY <3>1, <4>2, <4>3
    <3>3. First(R) \in R /\ \A j \in R : First(R) <= j
      BY <1>4, <3>2, FirstIsLeast
    <3>4. First(R) + k \in E
      BY <1>4, <1>5, <3>3
    <3>5. First(E) = First(R) + k /\ First(R) # 0
      BY <1>1, <1>2, <1>4, <3>1, <3>2, <3>3, <3>4
    <3> QED BY <1>7, <3>5 DEF FindScalar, Shift
  <2> QED BY <2>2, <2>3
<1> QED BY <1>6, <1>7

\* find_header_end returns the same with SSE2, with AVX2 and without either, for
\* every input and whatever the widths: a marker that begins in one chunk and ends
\* in the next, or in what is left behind the last, is not lost.
THEOREM SearchesFindTheFirst ==
    ASSUME NEW B, NEW s \in Seq(B)
    PROVE  FindAgrees(s)
<1>1. \A t \in Seq(B) : FindSse2(t) = FindScalar(t)
  BY WidthAssumption, ChunksThenRest DEF FindSse2
<1>2. Rest(s, Avx2) \in Seq(B)
  <2>1. Len(s) \in Nat /\ \A j \in 1..Len(s) : s[j] \in B
    BY LenProperties, ElementOfSeq
  <2>2. Whole(s, Avx2) \in Nat
    BY WidthAssumption, WholeIsBounded
  <2> QED BY <2>1, <2>2, SubSeqProperties DEF Rest
<1>3. FindAvx2(s) = FindScalar(s)
  BY <1>1, <1>2, WidthAssumption, ChunksThenRest DEF FindAvx2
<1> QED BY <1>1, <1>3 DEF FindAgrees

-----------------------------------------------------------------------------
(* Folds and flattenings, place by place. *)

\* A set with 0 and the successors of its numbers has all of them.
LEMMA AllOf ==
    ASSUME NEW S, 0 \in S, \A n \in Nat : n \in S => n + 1 \in S
    PROVE  Nat \subseteq S
<1> SUFFICES ASSUME Nat \ S # {} PROVE FALSE
    OBVIOUS
<1> DEFINE n == First(Nat \ S)
<1>1. n \in Nat \ S /\ \A m \in Nat \ S : n <= m
    BY FirstIsLeast
<1> HIDE DEF n
<1>2. n # 0 /\ n - 1 \in Nat /\ ~(n <= n - 1)
    BY <1>1
<1>3. n - 1 \in S
    BY <1>1, <1>2
<1>4. QED
    BY <1>1, <1>2, <1>3

\* How a fold goes through the sets of positions, the greatest position first, by a
\* step F.
Folded(base, F, g, t) ==
    IF t = {} THEN base ELSE F[g[t \ {Max(t)}]][Max(t)]

FoldsBy(n, R, base, F, g) ==
    /\ g \in [SUBSET (1..n) -> R]
    /\ \A t \in SUBSET (1..n) : g[t] = Folded(base, F, g, t)

Steps(n, R) == [R -> [1..n -> R]]

LEMMA MaxIn ==
    ASSUME NEW n \in Nat, NEW t \in SUBSET (1..n), t # {}
    PROVE  /\ Max(t) \in t /\ \A j \in t : Max(t) >= j
           /\ IsFiniteSet(t) /\ Cardinality(t) \in Nat
           /\ Cardinality(t \ {Max(t)}) = Cardinality(t) - 1
<1> DEFINE d == First({n - j : j \in t})
<1>1. d \in {n - j : j \in t} /\ \A e \in {n - j : j \in t} : d <= e
  <2>1. {n - j : j \in t} \in SUBSET Nat /\ {n - j : j \in t} # {}
    OBVIOUS
  <2>2. QED
    BY <2>1, FirstIsLeast
<1> HIDE DEF d
<1>2. PICK m \in t : d = n - m
    BY <1>1
<1>3. ASSUME NEW j \in t PROVE m >= j
  <2>1. n - j \in {n - i : i \in t} /\ j \in Int /\ m \in Int
    OBVIOUS
  <2>2. n - m <= n - j
    BY <1>1, <1>2, <2>1
  <2>3. QED
    BY <2>1, <2>2
<1>4. Max(t) \in t /\ \A j \in t : Max(t) >= j
    BY <1>3 DEF Max
<1>5. IsFiniteSet(t)
  <2>1. IsFiniteSet(1..n)
    BY FS_Interval
  <2>2. QED
    BY <2>1, FS_Subset
<1>6. QED
    BY <1>4, <1>5, FS_RemoveElement, FS_CardinalityType

\* There is a function that does.
LEMMA FoldedExists ==
    ASSUME NEW n \in Nat, NEW R, NEW base \in R, NEW F \in Steps(n, R)
    PROVE  \E g : FoldsBy(n, R, base, F, g)
<1> DEFINE D == 1..n
           UpTo(h, k) == \A t \in SUBSET D : Cardinality(t) <= k => h[t] = Folded(base, F, h, t)
           Good == {k \in Nat : \E h \in [SUBSET D -> R] : UpTo(h, k)}
<1>1. \A t \in SUBSET D : /\ IsFiniteSet(t) /\ Cardinality(t) \in Nat
                           /\ Cardinality(t) <= Cardinality(D)
  <2>1. IsFiniteSet(D)
    BY FS_Interval
  <2>2. QED
    BY <2>1, FS_Subset, FS_CardinalityType
<1>2. 0 \in Good
  <2> DEFINE h == [t \in SUBSET D |-> base]
  <2>1. \A t \in SUBSET D : Cardinality(t) <= 0 => t = {}
    BY <1>1, FS_EmptySet
  <2>2. UpTo(h, 0)
    BY <2>1 DEF Folded
  <2>3. QED
    BY <2>2
<1>3. ASSUME NEW k \in Nat, k \in Good PROVE k + 1 \in Good
  <2>1. PICK h \in [SUBSET D -> R] : UpTo(h, k)
    BY <1>3
  <2>2. ASSUME NEW t \in SUBSET D, t # {}
        PROVE  /\ Max(t) \in D /\ t \ {Max(t)} \in SUBSET D
               /\ Cardinality(t \ {Max(t)}) = Cardinality(t) - 1
    BY <2>2, MaxIn
  <2>3. ASSUME NEW t \in SUBSET D PROVE Folded(base, F, h, t) \in R
    <3>1. CASE t = {}
      BY <3>1 DEF Folded
    <3>2. CASE t # {}
      <4>1. h[t \ {Max(t)}] \in R /\ Max(t) \in D
        BY <2>2, <3>2
      <4>2. F[h[t \ {Max(t)}]][Max(t)] \in R
        <5>1. \A x \in R, k_1 \in D : F[x][k_1] \in R
          BY DEF Steps
        <5>2. QED
          BY ONLY <4>1, <5>1, Zenon
      <4>3. QED
        BY <3>2, <4>2 DEF Folded
    <3>3. QED
      BY <3>1, <3>2
  <2> DEFINE l == [t \in SUBSET D |-> IF Cardinality(t) <= k THEN h[t]
                                     ELSE Folded(base, F, h, t)]
  <2>4. l \in [SUBSET D -> R]
    BY <2>3
  <2>5. ASSUME NEW t \in SUBSET D, Cardinality(t) <= k + 1
        PROVE  l[t] = Folded(base, F, h, t)
    BY <2>1, <2>5
  <2>6. ASSUME NEW t \in SUBSET D, Cardinality(t) <= k + 1, t # {}
        PROVE  l[t \ {Max(t)}] = h[t \ {Max(t)}]
    <3>1. Cardinality(t \ {Max(t)}) <= k
      <4>1. Cardinality(t \ {Max(t)}) = Cardinality(t) - 1
        BY <2>2, <2>6
      <4>2. Cardinality(t) \in Nat
        BY <1>1
      <4>3. QED
        BY ONLY <2>6, <4>1, <4>2, <1>3
    <3>2. QED
      BY <2>2, <2>6, <3>1
  <2>7. ASSUME NEW t \in SUBSET D, Cardinality(t) <= k + 1
        PROVE  l[t] = Folded(base, F, l, t)
    <3> HIDE DEF l
    <3>1. l[t] = Folded(base, F, h, t)
      BY <2>5, <2>7
    <3>2. QED
      BY <2>6, <2>7, <3>1 DEF Folded
  <2>8. QED
    <3> HIDE DEF l
    <3>1. UpTo(l, k + 1)
      BY <2>7
    <3>2. k + 1 \in Nat
      OBVIOUS
    <3> HIDE DEF UpTo
    <3>3. QED
      BY <2>4, <3>1, <3>2, Zenon
<1>4. Nat \subseteq Good
  <2> HIDE DEF Good
  <2>1. QED
    BY <1>2, <1>3, AllOf
<1>5. Cardinality(D) \in Nat
    BY <1>1
<1>6. PICK h \in [SUBSET D -> R] : UpTo(h, Cardinality(D))
    BY <1>4, <1>5
<1>7. \A t \in SUBSET D : h[t] = Folded(base, F, h, t)
    BY <1>1, <1>6
<1>8. FoldsBy(n, R, base, F, h)
    BY <1>6, <1>7 DEF FoldsBy
<1>9. QED
    BY <1>8

\* The sets are those of the first k positions.
LEMMA FoldedSets ==
    ASSUME NEW n \in Nat, NEW k \in 1..n
    PROVE  /\ 1..k \in SUBSET (1..n) /\ 1..k # {}
           /\ Max(1..k) = k /\ (1..k) \ {k} = 1..(k - 1)
<1>1. 1..k \in SUBSET (1..n) /\ k \in Nat /\ (1..k) \in SUBSET (1..k) /\ k \in 1..k
    OBVIOUS
<1>2. 1..k # {}
    BY <1>1
<1>3. Max(1..k) \in 1..k /\ \A j \in 1..k : Max(1..k) >= j
    BY ONLY <1>1, <1>2, MaxIn, Zenon
<1>4. Max(1..k) = k
    BY <1>1, <1>3
<1>5. (1..k) \ {k} = 1..(k - 1)
    BY <1>1
<1>6. QED
    BY <1>1, <1>2, <1>4, <1>5

\* What FlattenSeq computes, from a chain that puts the sequences together.
LEMMA FlattenChain ==
    ASSUME NEW S, NEW q \in Seq(S), Len(q) # 0, NEW p, p[1] = q[1],
           \A i \in 2..Len(q) : p[i] = p[i - 1] \o q[i]
    PROVE  FlattenSeq(q) = p[Len(q)]
<1> DEFINE n == Len(q)
           Chain(g, i) == IF i = 1 THEN q[i] ELSE g[i - 1] \o q[i]
           c == CHOOSE g : g = [i \in 1..n |-> Chain(g, i)]
           h == [i \in 1..n |-> p[i]]
           Good == {k \in Nat : k \in 1..n => c[k] = p[k]}
<1>0. n \in Nat /\ n > 0
    BY LenProperties
<1>1. FlattenSeq(q) = c[n]
    BY DEF FlattenSeq
<1>2. h = [i \in 1..n |-> Chain(h, i)]
  <2>1. ASSUME NEW i \in 1..n PROVE p[i] = Chain(h, i)
    <3>1. i # 1 => i \in 2..n /\ i - 1 \in 1..n
      BY <1>0
    <3>2. QED
      BY <3>1
  <2>2. QED
    BY <2>1
<1>3. c = [i \in 1..n |-> Chain(c, i)]
  <2> HIDE DEF h, Chain
  <2>1. QED
    BY <1>2
<1> HIDE DEF c
<1>4. \A i \in 1..n : c[i] = Chain(c, i)
    BY <1>3
<1>5. 0 \in Good
    OBVIOUS
<1>6. ASSUME NEW k \in Nat, k \in Good PROVE k + 1 \in Good
  <2>1. CASE k = 0
    BY <1>0, <1>4, <2>1
  <2>2. CASE k + 1 \in 2..n
    <3>1. k \in 1..n /\ k + 1 \in 1..n /\ k + 1 # 1 /\ (k + 1) - 1 = k
      BY <1>0, <2>2
    <3>2. c[k + 1] = c[k] \o q[k + 1]
      BY <1>4, <3>1
    <3>3. c[k] = p[k]
      BY <1>6, <3>1
    <3>4. p[k + 1] = p[k] \o q[k + 1]
      BY <2>2, <3>1
    <3>5. c[k + 1] = p[k + 1]
      BY <3>2, <3>3, <3>4
    <3>6. QED
      BY <3>5
  <2>3. CASE k + 1 \notin 1..n
    BY <2>3
  <2>4. QED
    BY <2>1, <2>2, <2>3, <1>0
<1>7. Nat \subseteq Good
  <2> HIDE DEF Good
  <2>1. QED
    BY <1>5, <1>6, AllOf
<1>8. QED
    BY <1>0, <1>1, <1>7

-----------------------------------------------------------------------------
(* Which of a trie's patterns is found: they are ordered by the first      *)
(* segment in which they differ, and those that match a target are all     *)
(* comparable.                                                             *)

Segs  == STRING \ {"end"}
Paths == Seq(Segs)

LEMMA SegsAre ==
    /\ "end" \notin Segs /\ Parameter \in Segs /\ CatchAll \in Segs
    /\ Parameter # CatchAll
    /\ \A p \in Pattern \cup Prefix : p \in Paths
    BY RouterAssumption DEF RouterAssumption, Segs, Paths

\* A catch-all is the last segment of its pattern.
Ends(p) == \A i \in DOMAIN p : p[i] = CatchAll => i = Len(p)

\* The patterns agree before i, and not at i.
ForksAt(p, q, i) ==
    /\ i \in Nat \ {0} /\ Segment(p, i) # Segment(q, i)
    /\ \A j \in 1..(i - 1) : Segment(p, j) = Segment(q, j)

\* Two patterns differ in a segment of one of them.
LEMMA SegmentsDiffer ==
    ASSUME NEW p \in Paths, NEW q \in Paths, p # q
    PROVE  \E i \in 1..(Len(p) + Len(q) + 1) : Segment(p, i) # Segment(q, i)
<1> SUFFICES ASSUME \A i \in 1..(Len(p) + Len(q) + 1) : Segment(p, i) = Segment(q, i)
             PROVE  FALSE
    OBVIOUS
<1> DEFINE m == Len(p)
           n == Len(q)
<1>1. /\ m \in Nat /\ n \in Nat /\ DOMAIN p = 1..m /\ DOMAIN q = 1..n
      /\ \A i \in 1..m : p[i] \in Segs
      /\ \A i \in 1..n : q[i] \in Segs
    BY LenProperties, ElementOfSeq DEF Paths
<1>2. \A i \in 1..(m + n + 1) : Segment(p, i) = Segment(q, i)
    OBVIOUS
<1> HIDE DEF m, n
<1>3. ASSUME NEW i \in 1..(m + n + 1) PROVE i \in 1..m <=> i \in 1..n
  <2>1. Segment(p, i) = Segment(q, i)
    BY <1>2
  <2>2. i \in 1..m => Segment(p, i) \in Segs
    BY <1>1 DEF Segment
  <2>3. i \in 1..n => Segment(q, i) \in Segs
    BY <1>1 DEF Segment
  <2>4. i \notin 1..m => Segment(p, i) \notin Segs
    BY <1>1, SegsAre DEF Segment
  <2>5. i \notin 1..n => Segment(q, i) \notin Segs
    BY <1>1, SegsAre DEF Segment
  <2>6. QED
    BY <2>1, <2>2, <2>3, <2>4, <2>5
<1>4. m = n
  <2>1. CASE m < n
    <3>1. m + 1 \in 1..(m + n + 1) /\ m + 1 \in 1..n /\ m + 1 \notin 1..m
      BY <1>1, <2>1
    <3>2. QED
      BY <1>3, <3>1
  <2>2. CASE n < m
    <3>1. n + 1 \in 1..(m + n + 1) /\ n + 1 \in 1..m /\ n + 1 \notin 1..n
      BY <1>1, <2>2
    <3>2. QED
      BY <1>3, <3>1
  <2>3. QED
    BY <1>1, <2>1, <2>2
<1>5. ASSUME NEW i \in 1..m PROVE p[i] = q[i]
  <2>1. i \in 1..(m + n + 1) /\ i \in 1..n
    BY <1>1, <1>4
  <2>2. QED
    BY <1>1, <1>2, <2>1 DEF Segment
<1>6. p = q
    BY <1>1, <1>4, <1>5, SeqEqual DEF m, n, Paths
<1>7. QED
    BY <1>6

\* Fork is the place at which they do, and the only one.
LEMMA ForkIs ==
    ASSUME NEW p \in Paths, NEW q \in Paths, p # q
    PROVE  /\ ForksAt(p, q, Fork(p, q))
           /\ \A i : ForksAt(p, q, i) => i = Fork(p, q)
<1> DEFINE m == Len(p) + Len(q) + 1
           D == {i \in 1..m : Segment(p, i) # Segment(q, i)}
           d == First(D)
<1>1. D \in SUBSET Nat /\ D # {}
    BY SegmentsDiffer
<1>2. d \in D /\ \A j \in D : d <= j
    BY <1>1, FirstIsLeast
<1> HIDE DEF d
<1>3. ASSUME NEW j \in 1..(d - 1) PROVE Segment(p, j) = Segment(q, j)
  <2>1. j \in 1..m /\ ~(d <= j)
    BY <1>2
  <2>2. QED
    BY <1>2, <2>1
<1>4. d \in 1..m /\ ForksAt(p, q, d)
    BY <1>2, <1>3 DEF ForksAt
<1>5. Fork(p, q) \in 1..m /\ ForksAt(p, q, Fork(p, q))
  <2> DEFINE Is(i) == /\ Segment(p, i) # Segment(q, i) \/ p = q
                      /\ \A j \in 1..(i - 1) : Segment(p, j) = Segment(q, j) /\ p # q
  <2>1. Fork(p, q) = CHOOSE i \in 1..m : Is(i)
    BY DEF Fork
  <2>2. Is(d)
    BY <1>4 DEF ForksAt
  <2>3. \A i \in 1..m : Is(i) => ForksAt(p, q, i)
    BY DEF ForksAt
  <2> HIDE DEF Is
  <2>4. QED
    BY <1>4, <2>1, <2>2, <2>3
<1>6. ASSUME NEW i, ForksAt(p, q, i), NEW k, ForksAt(p, q, k) PROVE ~(i < k)
    BY <1>6 DEF ForksAt
<1>7. QED
    BY <1>5, <1>6 DEF ForksAt

\* p differs from q by a segment that is preferred.
Before(p, q) == p # q /\ Rank(Segment(p, Fork(p, q))) < Rank(Segment(q, Fork(p, q)))

LEMMA RankType == ASSUME NEW x PROVE Rank(x) \in 1..3
    BY DEF Rank

LEMMA BeforeMeans ==
    ASSUME NEW p \in Paths, NEW q \in Paths
    PROVE  Before(p, q) <=> \E i : ForksAt(p, q, i) /\ Rank(Segment(p, i)) < Rank(Segment(q, i))
<1>1. CASE p = q
    BY <1>1 DEF Before, ForksAt
<1>2. CASE p # q
    BY <1>2, ForkIs DEF Before
<1>3. QED
    BY <1>1, <1>2

LEMMA BeforeOrders ==
    ASSUME NEW p \in Paths, NEW q \in Paths, NEW r \in Paths, Before(p, q)
    PROVE  ~Before(q, p) /\ (Before(q, r) => Before(p, r))
<1>1. PICK i : ForksAt(p, q, i) /\ Rank(Segment(p, i)) < Rank(Segment(q, i))
    BY BeforeMeans
<1>2. ~Before(q, p)
  <2> SUFFICES ASSUME Before(q, p) PROVE FALSE
    OBVIOUS
  <2>1. PICK j : ForksAt(q, p, j) /\ Rank(Segment(q, j)) < Rank(Segment(p, j))
    BY BeforeMeans
  <2>2. i \in Nat /\ j \in Nat /\ ~(i < j) /\ ~(j < i)
    BY <1>1, <2>1 DEF ForksAt
  <2>3. QED
    BY <1>1, <2>1, <2>2, RankType
<1>3. ASSUME Before(q, r) PROVE Before(p, r)
  <2>1. PICK j : ForksAt(q, r, j) /\ Rank(Segment(q, j)) < Rank(Segment(r, j))
    BY <1>3, BeforeMeans
  <2>2. i \in Nat /\ j \in Nat
    BY <1>1, <2>1 DEF ForksAt
  <2>3. CASE i < j
    <3>1. Segment(r, i) = Segment(q, i)
      BY <1>1, <2>1, <2>2, <2>3 DEF ForksAt
    <3>2. ForksAt(p, r, i)
      BY <1>1, <2>1, <2>2, <2>3, <3>1 DEF ForksAt
    <3>3. QED
      BY <1>1, <3>1, <3>2, BeforeMeans
  <2>4. CASE j < i
    <3>1. Segment(p, j) = Segment(q, j)
      BY <1>1, <2>1, <2>2, <2>4 DEF ForksAt
    <3>2. ForksAt(p, r, j)
      BY <1>1, <2>1, <2>2, <2>4, <3>1 DEF ForksAt
    <3>3. QED
      BY <2>1, <3>1, <3>2, BeforeMeans
  <2>5. CASE i = j
    <3>1. Rank(Segment(p, i)) < Rank(Segment(r, i))
      BY <1>1, <2>1, <2>5, RankType
    <3>2. Segment(p, i) # Segment(r, i)
      BY <3>1, RankType
    <3>3. ASSUME NEW k \in 1..(i - 1) PROVE Segment(p, k) = Segment(r, k)
      BY <1>1, <2>1, <2>5 DEF ForksAt
    <3>4. ForksAt(p, r, i)
      BY <1>1, <3>2, <3>3 DEF ForksAt
    <3>5. QED
      BY <3>1, <3>4, BeforeMeans
  <2>6. QED
    BY <2>2, <2>3, <2>4, <2>5
<1>4. QED
    BY <1>2, <1>3

\* Of two patterns that match a target one comes before the other: at their fork
\* neither has ended, and they cannot have two segments of the target.
LEMMA OneIsBefore ==
    ASSUME NEW p \in Paths, NEW q \in Paths, p # q, NEW target \in Seq(STRING),
           Matches(p, target), Matches(q, target), Ends(p), Ends(q)
    PROVE  Before(p, q) \/ Before(q, p)
<1> DEFINE m == Len(p)
           n == Len(q)
           l == Len(target)
<1>1. PICK i : ForksAt(p, q, i)
    BY ForkIs
<1>2. /\ m \in Nat /\ n \in Nat /\ l \in Nat /\ DOMAIN p = 1..m /\ DOMAIN q = 1..n
      /\ i \in Nat \ {0}
    BY <1>1, LenProperties DEF Paths, ForksAt
<1>3. ForksAt(q, p, i)
    BY <1>1 DEF ForksAt
<1>4. ASSUME NEW a \in Paths, NEW b \in Paths, Matches(a, target), Matches(b, target), Ends(b),
             ForksAt(a, b, i), i \in 1..Len(b)
      PROVE  i \in 1..Len(a)
  <2>1. Len(a) \in Nat /\ Len(b) \in Nat /\ DOMAIN a = 1..Len(a) /\ DOMAIN b = 1..Len(b)
    BY LenProperties DEF Paths
  <2>2. i <= l
    BY <1>4, <2>1 DEF Matches
  <2>3. SUFFICES ASSUME Len(a) < i PROVE FALSE
    BY <1>2, <2>1
  <2>4. a # <<>> /\ Last(a) = CatchAll
    <3>1. Len(a) = l \/ (a # <<>> /\ Last(a) = CatchAll)
      BY <1>4, Zenon DEF Matches
    <3>2. Len(a) # l
      BY <1>2, <2>1, <2>2, <2>3
    <3>3. QED
      BY <3>1, <3>2
  <2>5. Len(a) # 0
    BY <2>4, EmptySeq DEF Paths
  <2>6. Len(a) \in 1..(i - 1) /\ Len(a) \in 1..Len(a) /\ Len(a) \in 1..Len(b)
    BY <1>2, <1>4, <2>1, <2>3, <2>5
  <2>7. Segment(a, Len(a)) = CatchAll
    BY <2>1, <2>4, <2>6 DEF Segment, Last
  <2>8. b[Len(a)] = CatchAll
    BY <1>4, <2>1, <2>6, <2>7 DEF Segment, ForksAt
  <2>9. Len(a) = Len(b)
    BY <1>4, <2>1, <2>6, <2>8 DEF Ends
  <2>10. QED
    BY <1>4, <2>1, <2>3, <2>9
<1>5. i \in 1..m /\ i \in 1..n
  <2>1. i \in 1..m \/ i \in 1..n
    BY <1>1, <1>2 DEF ForksAt, Segment
  <2>2. QED
    BY <1>1, <1>3, <1>4, <2>1
<1>6. p[i] # q[i] /\ Segment(p, i) = p[i] /\ Segment(q, i) = q[i]
    BY <1>1, <1>2, <1>5 DEF ForksAt, Segment
<1>7. /\ p[i] \notin {Parameter, CatchAll} => p[i] = target[i]
      /\ q[i] \notin {Parameter, CatchAll} => q[i] = target[i]
    BY <1>2, <1>5 DEF Matches
<1>8. Rank(p[i]) # Rank(q[i])
    BY <1>6, <1>7, SegsAre DEF Rank
<1>9. Rank(p[i]) < Rank(q[i]) \/ Rank(q[i]) < Rank(p[i])
    BY <1>8, RankType
<1>10. QED
    BY <1>1, <1>3, <1>6, <1>9, BeforeMeans

\* Preferred, as Best uses it.
LEMMA PreferredMeans ==
    ASSUME NEW p, NEW q
    PROVE  Preferred(p, q) <=> p = q \/ Before(p, q)
    BY DEF Preferred, Before

\* Among finitely many patterns that match a target there is one that is preferred to
\* all others.
LEMMA OneIsFirst ==
    ASSUME NEW target \in Seq(STRING), NEW P \in SUBSET Paths, IsFiniteSet(P), P # {},
           \A p \in P : Matches(p, target) /\ Ends(p)
    PROVE  \E p \in P : \A q \in P : Preferred(p, q)
<1> DEFINE First0(Q) == \E p \in Q : \A q \in Q : p = q \/ Before(p, q)
           Good == {n \in Nat : \A Q \in SUBSET P : Cardinality(Q) = n + 1 => First0(Q)}
<1>1. \A Q \in SUBSET P : IsFiniteSet(Q) /\ Cardinality(Q) \in Nat
    BY FS_Subset, FS_CardinalityType
<1>2. 0 \in Good
  <2>1. ASSUME NEW Q \in SUBSET P, Cardinality(Q) = 1 PROVE First0(Q)
    <3>1. \E x : Q = {x}
      BY <1>1, <2>1, FS_Singleton
    <3>2. QED
      BY <3>1
  <2>2. QED
    BY <2>1
<1>3. ASSUME NEW n \in Nat, n \in Good PROVE n + 1 \in Good
  <2>1. ASSUME NEW Q \in SUBSET P, Cardinality(Q) = (n + 1) + 1 PROVE First0(Q)
    <3>1. PICK x \in Q : TRUE
      BY <1>1, <2>1, FS_EmptySet
    <3>2. Q \ {x} \in SUBSET P /\ Cardinality(Q \ {x}) = n + 1
      BY <1>1, <2>1, FS_RemoveElement
    <3>3. PICK p \in Q \ {x} : \A q \in Q \ {x} : p = q \/ Before(p, q)
      BY <1>3, <3>2
    <3>4. p # x /\ p \in Paths /\ x \in Paths
      BY <3>1, <3>3
    <3>5. CASE Before(p, x)
      BY <3>3, <3>5
    <3>6. CASE Before(x, p)
      <4>1. ASSUME NEW q \in Q \ {x} PROVE Before(x, q)
        BY <3>3, <3>4, <3>6, BeforeOrders
      <4>2. QED
        BY <3>1, <4>1
    <3>7. QED
      BY <3>1, <3>3, <3>4, <3>5, <3>6, OneIsBefore
  <2>2. QED
    BY <2>1
<1>4. Nat \subseteq Good
  <2> HIDE DEF Good
  <2>1. QED
    BY <1>2, <1>3, AllOf
<1>5. Cardinality(P) # 0 /\ Cardinality(P) \in Nat
    BY <1>1, FS_EmptySet
<1>6. Cardinality(P) - 1 \in Good
    BY <1>4, <1>5
<1>7. First0(P)
    BY <1>5, <1>6
<1>8. QED
    BY <1>7, PreferredMeans

\* Of two sets of routes with the same patterns and values, the same value is found.
LEMMA BestSame ==
    ASSUME NEW target \in Seq(STRING), NEW R, NEW S, IsFiniteSet(S),
           \A r \in R : \E s \in S : r.path = s.path /\ r.value = s.value,
           \A s \in S : \E r \in R : r.path = s.path /\ r.value = s.value,
           \A s \in S : s.path \in Paths /\ Ends(s.path),
           \A r, s \in S : r.path = s.path => r.value = s.value
    PROVE  Best(R, target) = Best(S, target)
<1> DEFINE F(T) == {r \in T : Matches(r.path, target)}
           Leads(T, r) == \A s \in F(T) : Preferred(r.path, s.path)
           x == CHOOSE r \in F(R) : Leads(R, r)
           y == CHOOSE r \in F(S) : Leads(S, r)
<1>1. F(R) = {} <=> F(S) = {}
    OBVIOUS
<1>2. CASE F(S) = {}
    BY <1>1, <1>2 DEF Best
<1>3. CASE F(S) # {}
  <2> DEFINE P == {r.path : r \in F(S)}
  <2>1. IsFiniteSet(P)
    <3>1. IsFiniteSet(F(S))
      BY FS_Subset
    <3> DEFINE f == [r \in F(S) |-> r.path]
    <3>2. f \in Surjection(F(S), P)
      BY DEF Surjection
    <3> HIDE DEF f, F, P
    <3>3. QED
      BY <3>1, <3>2, FS_Surjection
  <2>2. \E p \in P : \A q \in P : Preferred(p, q)
    <3>1. P \in SUBSET Paths /\ P # {} /\ \A p \in P : Matches(p, target) /\ Ends(p)
      BY <1>3
    <3> HIDE DEF P
    <3>2. QED
      BY <2>1, <3>1, OneIsFirst
  <2>3. \E r \in F(S) : Leads(S, r)
    BY <2>2
  <2>4. \E r \in F(R) : Leads(R, r)
    BY <2>3
  <2>5. x \in F(R) /\ Leads(R, x)
    BY <2>4
  <2>6. y \in F(S) /\ Leads(S, y)
    BY <2>3
  <2>7. Best(R, target) = x.value /\ Best(S, target) = y.value
    BY <1>1, <1>3 DEF Best
  <2> HIDE DEF x, y
  <2>8. PICK z \in S : x.path = z.path /\ x.value = z.value
    BY <2>5
  <2>9. z \in F(S) /\ Leads(S, z)
    BY <2>5, <2>8
  <2>10. Preferred(z.path, y.path) /\ Preferred(y.path, z.path)
    BY <2>6, <2>9
  <2>11. z.path = y.path
    BY <2>6, <2>10, PreferredMeans, BeforeOrders
  <2>12. QED
    BY <2>6, <2>7, <2>8, <2>11
<1>4. QED
    BY <1>2, <1>3

-----------------------------------------------------------------------------
(* The Router and the text it is built from. *)

Noted == [method: Method, path: Paths, value: Nat]
Kept  == [path: Paths, value: Nat]
Tree  == [method: Method, routes: SUBSET Kept]

\* The first n routes of a text, of those the ones for m, as a Router keeps them.
Upto(w, n, m) ==
    {[path |-> w[i].path, value |-> w[i].value] : i \in {j \in 1..n : w[j].method = m}}

\* A Router that has the first n routes of a text.
Has(router, w, n) ==
    /\ router \in Seq(Tree)
    /\ \A m \in Method : RoutesOf(router, m) = Upto(w, n, m)

\* Each of the first n routes can be inserted behind those before it; the text has one
\* that cannot.
FitsAt(w, i) == Insertable(Upto(w, i - 1, w[i].method), w[i].path)
Fits(w, n)   == \A i \in 1..n : FitsAt(w, i)
Clash(w)     == \E i \in 1..Len(w) : ~FitsAt(w, i)

TextInv == written \in Seq(Noted) /\ \A i \in 1..Len(written) : written[i].value = i

\* The prefix of a scope is made of those of the scopes around it and its own.
Scope == [own: Paths, prefix: Paths, entries: Seq(Noted)]
ScopesInv ==
    /\ scopes \in Seq(Scope)
    /\ scopes # <<>> => scopes[1].prefix = scopes[1].own
    /\ \A i \in 2..Len(scopes) : scopes[i].prefix = scopes[i - 1].prefix \o scopes[i].own

\* The text goes on where the Router ends with the entries of the scopes, outermost first:
\* those of scope i begin behind start[i].
Starts(start) ==
    /\ start \in [1..(Len(scopes) + 1) -> 0..Len(written)]
    /\ start[Len(scopes) + 1] = Len(written)
    /\ \A i \in 1..Len(scopes) :
        /\ start[i + 1] = start[i] + Len(scopes[i].entries)
        /\ \A j \in 1..Len(scopes[i].entries) : scopes[i].entries[j] = written[start[i] + j]

PendingInv ==
    ~panicked => \E start : /\ Starts(start)
                            /\ Has(trees, written, start[1]) /\ Fits(written, start[1])

PanicInv == panicked \in BOOLEAN /\ (panicked => scopes = <<>> /\ Clash(written))

\* The inductive invariant.
RouterInv == TextInv /\ ScopesInv /\ PendingInv /\ PanicInv

\* The tree of a method is the first one that has it.
LEMMA FirstTreeIn ==
    ASSUME NEW router \in Seq(Tree), NEW m, TreesOf(router, m) # {}
    PROVE  /\ FirstTree(router, m) \in 1..Len(router)
           /\ router[FirstTree(router, m)].method = m
<1>1. TreesOf(router, m) \in SUBSET Nat
    BY LenProperties DEF TreesOf
<1>2. First(TreesOf(router, m)) = FirstTree(router, m)
    BY DEF First, FirstTree
<1>3. FirstTree(router, m) \in TreesOf(router, m)
    BY <1>1, <1>2, FirstIsLeast
<1>4. QED
    BY <1>3, LenProperties DEF TreesOf

\* insert adds the route to those of its method, and changes no other.
LEMMA InsertedAdds ==
    ASSUME NEW router \in Seq(Tree), NEW e \in Noted, NEW m \in Method
    PROVE  /\ Inserted(router, e) \in Seq(Tree)
           /\ RoutesOf(Inserted(router, e), m) =
                IF m = e.method
                THEN RoutesOf(router, m) \cup {[path |-> e.path, value |-> e.value]}
                ELSE RoutesOf(router, m)
<1> DEFINE route == [path |-> e.path, value |-> e.value]
           n == Len(router)
           new == Inserted(router, e)
           k == FirstTree(router, e.method)
<1>1. /\ route \in Kept /\ e.method \in Method /\ n \in Nat /\ DOMAIN router = 1..n
      /\ \A i \in 1..n : router[i] \in Tree
    BY LenProperties, ElementOfSeq DEF Noted, Kept
<1>2. CASE TreesOf(router, e.method) = {}
  <2> DEFINE t == [method |-> e.method, routes |-> {route}]
  <2>1. new = Append(router, t) /\ t \in Tree
    BY <1>1, <1>2 DEF Inserted, Tree
  <2>2. /\ new \in Seq(Tree) /\ Len(new) = n + 1 /\ new[n + 1] = t
        /\ \A i \in 1..n : new[i] = router[i]
    BY <2>1, AppendProperties
  <2>3. DOMAIN new = 1..(n + 1)
    BY <2>2, LenProperties
  <2> HIDE DEF new
  <2>4. CASE m = e.method
    <3>1. TreesOf(new, m) = {n + 1}
      BY <1>1, <1>2, <2>2, <2>3, <2>4 DEF TreesOf
    <3>2. FirstTree(new, m) = n + 1
      BY <1>1, <3>1 DEF FirstTree
    <3>3. RoutesOf(new, m) = {route} /\ RoutesOf(router, m) = {}
      BY <1>2, <2>2, <2>4, <3>1, <3>2 DEF RoutesOf
    <3>4. QED
      BY <2>2, <2>4, <3>3 DEF new
  <2>5. CASE m # e.method
    <3>1. TreesOf(new, m) = TreesOf(router, m)
      BY <1>1, <2>2, <2>3, <2>5 DEF TreesOf
    <3>2. FirstTree(new, m) = FirstTree(router, m)
      BY <3>1 DEF FirstTree
    <3>3. RoutesOf(new, m) = RoutesOf(router, m)
      <4>1. CASE TreesOf(router, m) = {}
        BY <3>1, <4>1 DEF RoutesOf
      <4>2. CASE TreesOf(router, m) # {}
        <5>1. FirstTree(router, m) \in 1..n
          BY <4>2, FirstTreeIn
        <5>2. new[FirstTree(new, m)] = router[FirstTree(router, m)]
          BY <2>2, <3>2, <5>1
        <5>3. QED
          BY <3>1, <4>2, <5>2 DEF RoutesOf
      <4>3. QED
        BY <4>1, <4>2
    <3>4. QED
      BY <2>2, <2>5, <3>3 DEF new
  <2>6. QED
    BY <2>4, <2>5
<1>3. CASE TreesOf(router, e.method) # {}
  <2>1. k \in 1..n /\ router[k].method = e.method
    BY <1>3, FirstTreeIn
  <2>2. new = [router EXCEPT ![k].routes = @ \cup {route}]
    BY <1>3 DEF Inserted
  <2>3. router[k].routes \cup {route} \in SUBSET Kept
    BY <1>1, <2>1 DEF Tree
  <2> DEFINE t == [router[k] EXCEPT !.routes = @ \cup {route}]
  <2>4. t \in Tree /\ t.method = e.method /\ t.routes = router[k].routes \cup {route}
    BY <1>1, <2>1, <2>3 DEF Tree
  <2>5. new = [router EXCEPT ![k] = t]
    BY <1>1, <2>1, <2>2
  <2> HIDE DEF new, t, k
  <2>6. /\ new \in Seq(Tree) /\ DOMAIN new = 1..n /\ new[k] = t
        /\ \A i \in 1..n : i # k => new[i] = router[i]
    BY <1>1, <2>1, <2>4, <2>5, ExceptSeq
  <2>7. \A i \in 1..n : new[i].method = router[i].method
    BY <2>1, <2>4, <2>6
  <2>8. TreesOf(new, m) = TreesOf(router, m)
    BY <1>1, <2>6, <2>7 DEF TreesOf
  <2>9. FirstTree(new, m) = FirstTree(router, m)
    BY <2>8 DEF FirstTree
  <2>10. CASE m = e.method
    <3>1. FirstTree(new, m) = k
      BY <2>9, <2>10 DEF k
    <3>2. RoutesOf(new, m) = t.routes /\ RoutesOf(router, m) = router[k].routes
      BY <1>3, <2>6, <2>8, <2>9, <2>10, <3>1 DEF RoutesOf
    <3>3. QED
      BY <2>4, <2>6, <2>10, <3>2 DEF new
  <2>11. CASE m # e.method
    <3>1. RoutesOf(new, m) = RoutesOf(router, m)
      <4>1. CASE TreesOf(router, m) = {}
        BY <2>8, <4>1 DEF RoutesOf
      <4>2. CASE TreesOf(router, m) # {}
        <5>1. FirstTree(router, m) \in 1..n /\ FirstTree(router, m) # k
          BY <2>1, <2>11, <4>2, FirstTreeIn
        <5>2. new[FirstTree(new, m)] = router[FirstTree(router, m)]
          BY <2>6, <2>9, <5>1
        <5>3. QED
          BY <2>8, <4>2, <5>2 DEF RoutesOf
      <4>3. QED
        BY <4>1, <4>2
    <3>2. QED
      BY <2>6, <2>11, <3>1 DEF new
  <2>12. QED
    BY <2>10, <2>11
<1>4. QED
    BY <1>2, <1>3

\* A fold of Expected: what the entries before k gave, with the one at k.
Result == [routes: Seq(Tree), failed: BOOLEAN]

Goes(base, s, f) ==
    /\ f[0] = base
    /\ \A k \in 1..Len(s) : f[k] = Expected(f[k - 1], s[k])

LEMMA ExpectedType ==
    ASSUME NEW x \in Result, NEW e \in Noted
    PROVE  Expected(x, e) \in Result
<1>1. Panic \in Result
    BY DEF Panic, Result
<1>2. Inserted(x.routes, e) \in Seq(Tree)
    BY InsertedAdds DEF Result, Noted
<1>3. QED
    BY <1>1, <1>2 DEF Expected, Result

\* The fold of CloseScope takes the entries one by one.
LEMMA FoldGoes ==
    ASSUME NEW base \in Result, NEW s \in Seq(Noted)
    PROVE  \E f : Goes(base, s, f) /\ FoldLeft(Expected, base, s) = f[Len(s)]
<1> DEFINE n == Len(s)
           D == 1..n
           Step(g, t) == IF t = {} THEN base ELSE Expected(g[t \ {Max(t)}], s[Max(t)])
           g == CHOOSE g : g = [t \in SUBSET D |-> Step(g, t)]
           f == [k \in 0..n |-> g[1..k]]
           F == [x \in Result |-> [k \in D |-> Expected(x, s[k])]]
<1>0. n \in Nat /\ DOMAIN s = D
    BY LenProperties
<1>1. FoldLeft(Expected, base, s) = g[D]
    BY <1>0 DEF FoldLeft, MapThenFoldSet
<1>2. PICK h \in [SUBSET D -> Result] : \A t \in SUBSET D : h[t] = Folded(base, F, h, t)
  <2>1. F \in [Result -> [D -> Result]]
    <3>1. \A x \in Result, k \in D : Expected(x, s[k]) \in Result
      BY ElementOfSeq, ExpectedType
    <3>2. QED
      BY <3>1
  <2> HIDE DEF F, D, n
  <2>2. F \in Steps(n, Result)
    BY <2>1 DEF D, Steps
  <2>3. \E h : FoldsBy(n, Result, base, F, h)
    BY <1>0, <2>2, FoldedExists, Zenon
  <2>4. QED
    BY <2>3 DEF FoldsBy, D
<1>3. h = [t \in SUBSET D |-> Step(h, t)]
  <2>1. ASSUME NEW t \in SUBSET D PROVE h[t] = Step(h, t)
    <3>0. h[t] = Folded(base, F, h, t)
      BY <1>2
    <3>1. CASE t = {}
      BY <3>0, <3>1 DEF Folded
    <3>2. CASE t # {}
      <4>1. Max(t) \in D /\ h[t \ {Max(t)}] \in Result
        BY <1>0, <3>2, MaxIn
      <4>2. \A x \in Result, k \in D : F[x][k] = Expected(x, s[k])
        OBVIOUS
      <4> HIDE DEF F
      <4>3. QED
        BY <3>0, <3>2, <4>1, <4>2 DEF Folded
    <3>3. QED
      BY <3>1, <3>2
  <2> HIDE DEF Step
  <2>2. QED
    BY <2>1
<1>4. g = [t \in SUBSET D |-> Step(g, t)]
  <2> HIDE DEF Step
  <2>1. QED
    BY <1>3
<1> HIDE DEF g
<1>5. \A t \in SUBSET D : g[t] = Step(g, t)
    BY <1>4
<1>6. ASSUME NEW k \in D PROVE g[1..k] = Expected(g[1..(k - 1)], s[k])
    BY <1>0, <1>5, FoldedSets
<1>7. g[1..0] = base
  <2>1. 1..0 = {}
    OBVIOUS
  <2>2. QED
    BY <1>5, <2>1
<1>8. Goes(base, s, f)
  <2>1. f[0] = base
    BY <1>0, <1>7
  <2>2. \A k \in D : f[k] = g[1..k] /\ f[k - 1] = g[1..(k - 1)]
    BY <1>0
  <2>3. QED
    BY <1>6, <2>1, <2>2 DEF Goes
<1>9. f[n] = g[D]
    BY <1>0
<1>10. QED
    BY <1>1, <1>8, <1>9

\* The members of Upto, by their positions in the text.
LEMMA UptoIn ==
    ASSUME NEW w, NEW n, NEW m
    PROVE  /\ \A i \in 1..n : w[i].method = m =>
                 \E u \in Upto(w, n, m) : u.path = w[i].path /\ u.value = w[i].value
           /\ \A u \in Upto(w, n, m) : \E i \in 1..n :
                 w[i].method = m /\ u.path = w[i].path /\ u.value = w[i].value
<1>1. ASSUME NEW i \in 1..n, w[i].method = m
      PROVE  \E u \in Upto(w, n, m) : u.path = w[i].path /\ u.value = w[i].value
  <2> DEFINE u == [path |-> w[i].path, value |-> w[i].value]
  <2>1. u \in Upto(w, n, m)
    BY <1>1, Zenon DEF Upto
  <2>2. u.path = w[i].path /\ u.value = w[i].value
    OBVIOUS
  <2> HIDE DEF u
  <2>3. QED
    BY <2>1, <2>2
<1>2. ASSUME NEW u \in Upto(w, n, m)
      PROVE  \E i \in 1..n : w[i].method = m /\ u.path = w[i].path /\ u.value = w[i].value
  <2>1. PICK i \in {j \in 1..n : w[j].method = m} : u = [path |-> w[i].path, value |-> w[i].value]
    BY Zenon DEF Upto
  <2>2. QED
    BY <2>1
<1>3. QED
    BY <1>1, <1>2

LEMMA UptoNext ==
    ASSUME NEW w, NEW n \in Nat, NEW m
    PROVE  Upto(w, n + 1, m) =
             Upto(w, n, m) \cup
               IF w[n + 1].method = m
               THEN {[path |-> w[n + 1].path, value |-> w[n + 1].value]} ELSE {}
<1>1. 1..(n + 1) = (1..n) \cup {n + 1}
    OBVIOUS
<1>2. QED
    BY <1>1 DEF Upto

\* What comes behind the first n routes does not matter to them.
LEMMA UptoSame ==
    ASSUME NEW v, NEW w, NEW n \in Nat, \A i \in 1..n : v[i] = w[i]
    PROVE  /\ \A m : Upto(v, n, m) = Upto(w, n, m)
           /\ Fits(v, n) <=> Fits(w, n)
           /\ \A i \in 1..n : FitsAt(v, i) <=> FitsAt(w, i)
           /\ \A router : Has(router, v, n) <=> Has(router, w, n)
<1>1. \A k \in 0..n : \A m : Upto(v, k, m) = Upto(w, k, m)
    BY DEF Upto
<1>2. ASSUME NEW i \in 1..n PROVE FitsAt(v, i) <=> FitsAt(w, i)
  <2>1. i - 1 \in 0..n /\ v[i] = w[i]
    OBVIOUS
  <2>2. Upto(v, i - 1, w[i].method) = Upto(w, i - 1, w[i].method)
    BY <1>1, <2>1
  <2>3. QED
    BY <2>1, <2>2 DEF FitsAt
<1>3. \A m : Upto(v, n, m) = Upto(w, n, m)
    BY <1>1
<1>4. QED
    BY <1>2, <1>3 DEF Fits, Has

\* The next route is inserted, or the text has a clash.
LEMMA NextRoute ==
    ASSUME NEW w \in Seq(Noted), NEW n \in Nat, n + 1 \in 1..Len(w),
           NEW router, Has(router, w, n), Fits(w, n)
    PROVE  /\ Accepts(router, w[n + 1]) <=> FitsAt(w, n + 1)
           /\ FitsAt(w, n + 1) => /\ Has(Inserted(router, w[n + 1]), w, n + 1)
                                  /\ Fits(w, n + 1)
           /\ ~FitsAt(w, n + 1) => Clash(w)
<1> DEFINE e == w[n + 1]
<1>1. e \in Noted /\ e.method \in Method /\ router \in Seq(Tree)
  <2>1. e \in Noted
    BY ElementOfSeq
  <2> HIDE DEF e
  <2>2. e.method \in Method
    BY <2>1 DEF Noted
  <2>3. router \in Seq(Tree)
    BY DEF Has
  <2>4. QED
    BY <2>1, <2>2, <2>3
<1>2. (n + 1) - 1 = n
    OBVIOUS
<1>3. Accepts(router, e) <=> FitsAt(w, n + 1)
    BY <1>1, <1>2 DEF Accepts, FitsAt, Has
<1>4. Has(Inserted(router, e), w, n + 1)
  <2>1. Inserted(router, e) \in Seq(Tree)
    BY <1>1, InsertedAdds
  <2>2. ASSUME NEW m \in Method
        PROVE  RoutesOf(Inserted(router, e), m) = Upto(w, n + 1, m)
    <3>1. RoutesOf(router, m) = Upto(w, n, m)
      BY DEF Has
    <3>2. RoutesOf(Inserted(router, e), m) =
                IF m = e.method
                THEN RoutesOf(router, m) \cup {[path |-> e.path, value |-> e.value]}
                ELSE RoutesOf(router, m)
      BY <1>1, InsertedAdds
    <3>3. Upto(w, n + 1, m) = Upto(w, n, m) \cup
               IF e.method = m THEN {[path |-> e.path, value |-> e.value]} ELSE {}
      BY UptoNext
    <3> HIDE DEF e
    <3>4. QED
      BY <3>1, <3>2, <3>3
  <2>3. QED
    BY <2>1, <2>2 DEF Has
<1>5. FitsAt(w, n + 1) => Fits(w, n + 1)
  <2>1. \A i \in 1..(n + 1) : i \in 1..n \/ i = n + 1
    OBVIOUS
  <2>2. QED
    BY <2>1 DEF Fits
<1>6. ~FitsAt(w, n + 1) => Clash(w)
    BY DEF Clash
<1>7. QED
    BY <1>3, <1>4, <1>5, <1>6

\* A fold of Expected inserts the routes of a part of the text, or comes to a clash.
Built0(result, w, n) ==
    /\ result = [routes |-> result.routes, failed |-> FALSE]
    /\ Has(result.routes, w, n) /\ Fits(w, n)

LEMMA ExpectedNext ==
    ASSUME NEW w \in Seq(Noted), NEW n \in Nat, n + 1 \in 1..Len(w),
           NEW result, Built0(result, w, n)
    PROVE  \/ Built0(Expected(result, w[n + 1]), w, n + 1)
           \/ Expected(result, w[n + 1]) = Panic /\ Clash(w)
<1>1. result.failed = FALSE
    BY DEF Built0
<1>2. CASE FitsAt(w, n + 1)
  <2>1. /\ Accepts(result.routes, w[n + 1])
        /\ Has(Inserted(result.routes, w[n + 1]), w, n + 1) /\ Fits(w, n + 1)
    BY <1>2, NextRoute DEF Built0
  <2>2. Expected(result, w[n + 1]) =
            [routes |-> Inserted(result.routes, w[n + 1]), failed |-> FALSE]
    BY <1>1, <2>1 DEF Expected, Built0
  <2>3. QED
    BY <2>1, <2>2 DEF Built0
<1>3. CASE ~FitsAt(w, n + 1)
  <2>1. ~Accepts(result.routes, w[n + 1]) /\ Clash(w)
    BY <1>3, NextRoute DEF Built0
  <2>2. QED
    BY <2>1 DEF Expected
<1>4. QED
    BY <1>2, <1>3

LEMMA FoldBuilds ==
    ASSUME NEW w \in Seq(Noted), NEW n \in Nat, NEW base, Built0(base, w, n),
           NEW s \in Seq(Noted), n + Len(s) <= Len(w),
           \A j \in 1..Len(s) : s[j] = w[n + j]
    PROVE  \/ Built0(FoldLeft(Expected, base, s), w, n + Len(s))
           \/ FoldLeft(Expected, base, s) = Panic /\ Clash(w)
<1>1. PICK f : Goes(base, s, f) /\ FoldLeft(Expected, base, s) = f[Len(s)]
  <2>1. base \in Result
    <3>1. PICK r \in Seq(Tree) : base = [routes |-> r, failed |-> FALSE]
      BY DEF Built0, Has
    <3>2. QED
      BY <3>1 DEF Result
  <2>2. QED
    BY <2>1, FoldGoes
<1> DEFINE Ok(k) == Built0(f[k], w, n + k) \/ (f[k] = Panic /\ Clash(w))
           Good == {k \in Nat : k <= Len(s) => Ok(k)}
<1>2. Len(s) \in Nat /\ Len(w) \in Nat
    BY LenProperties
<1>3. 0 \in Good
    BY <1>1 DEF Goes
<1>4. ASSUME NEW k \in Nat, k \in Good PROVE k + 1 \in Good
  <2> SUFFICES ASSUME k + 1 <= Len(s) PROVE Ok(k + 1)
    OBVIOUS
  <2>1. k + 1 \in 1..Len(s) /\ k <= Len(s) /\ (n + k) + 1 \in 1..Len(w) /\ n + k \in Nat
    BY <1>2
  <2>2. Ok(k)
    BY <1>4, <2>1
  <2>3. n + (k + 1) = (n + k) + 1 /\ (k + 1) - 1 = k
    OBVIOUS
  <2>4. f[k + 1] = Expected(f[k], w[(n + k) + 1])
    BY <1>1, <2>1, <2>3 DEF Goes
  <2>5. CASE Built0(f[k], w, n + k)
    <3>1. \/ Built0(Expected(f[k], w[(n + k) + 1]), w, (n + k) + 1)
          \/ Expected(f[k], w[(n + k) + 1]) = Panic /\ Clash(w)
      BY <2>1, <2>5, ExpectedNext
    <3>2. QED
      BY <2>3, <2>4, <3>1
  <2>6. CASE f[k] = Panic /\ Clash(w)
    BY <2>4, <2>6 DEF Expected, Panic
  <2>7. QED
    BY <2>2, <2>5, <2>6
<1>5. Nat \subseteq Good
  <2> HIDE DEF Good
  <2>1. QED
    BY <1>3, <1>4, AllOf
<1>6. Ok(Len(s))
    BY <1>2, <1>5
<1>7. QED
    BY <1>1, <1>6

-----------------------------------------------------------------------------
(* The steps of the program. *)

LEMMA EntryIs ==
    ASSUME TextInv, NEW m \in Method, NEW p \in Paths
    PROVE  /\ Entry(m, p) \in Noted
           /\ Entry(m, p).value = Len(written) + 1
    BY LenProperties DEF Entry, NextValue, Noted, TextInv

LEMMA TextGrows ==
    ASSUME TextInv, NEW e \in Noted, e.value = Len(written) + 1, written' = Append(written, e)
    PROVE  /\ TextInv' /\ Len(written) \in Nat /\ Len(written') = Len(written) + 1
           /\ written'[Len(written) + 1] = e
           /\ \A i \in 1..Len(written) : written'[i] = written[i]
<1>1. /\ written' \in Seq(Noted) /\ Len(written') = Len(written) + 1
      /\ written'[Len(written) + 1] = e
      /\ \A i \in 1..Len(written) : written'[i] = written[i]
      /\ Len(written) \in Nat
    BY AppendProperties, LenProperties DEF TextInv
<1>2. ASSUME NEW i \in 1..Len(written') PROVE written'[i].value = i
  <2>1. i \in 1..Len(written) \/ i = Len(written) + 1
    BY <1>1
  <2>2. QED
    BY <1>1, <2>1 DEF TextInv
<1>3. QED
    BY <1>1, <1>2 DEF TextInv

\* The prefix of the innermost scope is that of the text.
LEMMA PrefixIs ==
    ASSUME ScopesInv, NEW m \in Method, NEW p \in Paths
    PROVE  AsWritten(m, p) =
             Entry(m, IF scopes = <<>> THEN p ELSE Last(scopes).prefix \o p)
<1> DEFINE owns == [i \in DOMAIN scopes |-> scopes[i].own]
           n == Len(scopes)
           pre == [i \in 1..n |-> scopes[i].prefix]
<1>1. n \in Nat /\ DOMAIN scopes = 1..n /\ \A i \in 1..n : scopes[i] \in Scope
    BY LenProperties, ElementOfSeq DEF ScopesInv
<1>2. owns \in Seq(Paths) /\ Len(owns) = n
    BY <1>1, IsASeq, LenProperties DEF Scope
<1>3. CASE scopes = <<>>
  <2>1. Len(owns) = 0
    BY <1>2, <1>3, EmptySeq
  <2>2. FlattenSeq(owns) = <<>>
    BY <1>2, <2>1, EmptySeq DEF FlattenSeq
  <2>3. <<>> \o p = p
    BY ConcatEmptySeq DEF Paths
  <2>4. QED
    BY <1>3, <2>2, <2>3 DEF AsWritten
<1>4. CASE scopes # <<>>
  <2>1. n # 0
    BY <1>4, EmptySeq DEF ScopesInv
  <2>2. pre[1] = owns[1] /\ \A i \in 2..n : pre[i] = pre[i - 1] \o owns[i]
    <3>1. /\ \A i \in 1..n : pre[i] = scopes[i].prefix /\ owns[i] = scopes[i].own
          /\ 1 \in 1..n /\ \A i \in 2..n : i \in 1..n /\ i - 1 \in 1..n
      BY <1>1, <2>1
    <3> HIDE DEF owns, pre
    <3>2. QED
      BY <1>4, <3>1 DEF ScopesInv
  <2> HIDE DEF owns, pre
  <2>3. FlattenSeq(owns) = pre[n]
    BY <1>2, <2>1, <2>2, FlattenChain
  <2>4. pre[n] = Last(scopes).prefix
    BY <1>1, <2>1 DEF Last, pre
  <2>5. QED
    BY <1>4, <2>3, <2>4 DEF AsWritten, owns
<1>5. QED
    BY <1>3, <1>4

\* Without scopes the Router has the whole text.
LEMMA BuiltHas ==
    ASSUME PendingInv, ~panicked, scopes = <<>>
    PROVE  Has(trees, written, Len(written)) /\ Fits(written, Len(written))
<1>1. Len(scopes) + 1 = 1
    BY EmptySeq
<1>2. QED
    BY <1>1 DEF PendingInv, Starts

\* Insert and Route: the route is the next one, and inserted; or the text has a clash.
LEMMA OneRoute ==
    ASSUME RouterInv, ~panicked, scopes = <<>>, scopes' = scopes,
           NEW m \in Method, NEW p \in Paths, written' = Append(written, AsWritten(m, p))
    PROVE  /\ TextInv' /\ ScopesInv'
           /\ AsWritten(m, p) = Entry(m, p)
           /\ Accepts(trees, Entry(m, p)) \/ Clash(written')
           /\ Accepts(trees, Entry(m, p)) /\ trees' = Inserted(trees, Entry(m, p)) => PendingInv'
<1> DEFINE e == Entry(m, p)
           n == Len(written)
<1>1. e \in Noted /\ e.value = n + 1 /\ AsWritten(m, p) = e
    BY EntryIs, PrefixIs DEF RouterInv
<1> HIDE DEF e
<1>2. /\ TextInv' /\ n \in Nat /\ Len(written') = n + 1 /\ written'[n + 1] = e
      /\ \A i \in 1..n : written'[i] = written[i]
    BY <1>1, TextGrows DEF RouterInv
<1>3. Has(trees, written', n) /\ Fits(written', n)
    BY <1>2, BuiltHas, UptoSame DEF RouterInv
<1>4. /\ Accepts(trees, e) <=> FitsAt(written', n + 1)
      /\ FitsAt(written', n + 1) => Has(Inserted(trees, e), written', n + 1) /\ Fits(written', n + 1)
      /\ ~FitsAt(written', n + 1) => Clash(written')
  <2>1. written' \in Seq(Noted) /\ n + 1 \in 1..Len(written')
    BY <1>2 DEF TextInv
  <2>2. QED
    BY <1>2, <1>3, <2>1, NextRoute
<1>5. ASSUME Accepts(trees, e), trees' = Inserted(trees, e) PROVE PendingInv'
  <2>1. PICK start : start = [i \in {1} |-> n + 1]
    OBVIOUS
  <2>2. Len(scopes') = 0 /\ start[1] = n + 1 /\ start \in [1..1 -> 0..(n + 1)]
    BY <1>2, <2>1, EmptySeq
  <2>3. Starts(start)'
    BY <1>2, <2>2 DEF Starts
  <2>4. Has(trees, written, start[1])' /\ Fits(written, start[1])'
    BY <1>4, <1>5, <1>2, <2>2
  <2>5. QED
    BY <2>3, <2>4 DEF PendingInv
<1>6. ScopesInv'
    BY DEF RouterInv, ScopesInv
<1>7. QED
    BY <1>1, <1>2, <1>4, <1>5, <1>6 DEF e

LEMMA InsertKeeps ==
    ASSUME RouterInv, NEW m \in Method, NEW p \in Pattern, Insert(m, p)
    PROVE  RouterInv'
<1>1. p \in Paths
    BY SegsAre
<1>2. /\ ~panicked /\ scopes = <<>> /\ scopes' = scopes /\ panicked' = panicked
      /\ written' = Append(written, AsWritten(m, p))
      /\ Accepts(trees, Entry(m, p)) /\ trees' = Inserted(trees, Entry(m, p))
    BY DEF Insert, Building
<1>3. TextInv' /\ ScopesInv' /\ PendingInv'
    BY <1>1, <1>2, OneRoute
<1>4. PanicInv'
    BY <1>2 DEF RouterInv, PanicInv
<1>5. QED
    BY <1>3, <1>4 DEF RouterInv

LEMMA RouteKeeps ==
    ASSUME RouterInv, NEW m \in Method, NEW p \in Pattern, Route(m, p)
    PROVE  RouterInv'
<1> DEFINE e == Entry(m, p)
           base == [routes |-> trees, failed |-> FALSE]
<1>1. p \in Paths
    BY SegsAre
<1>2. /\ ~panicked /\ scopes = <<>> /\ scopes' = scopes
      /\ written' = Append(written, AsWritten(m, p))
      /\ trees' = Expected(base, e).routes /\ panicked' = Expected(base, e).failed
    BY DEF Route, Building, Become
<1>3. /\ TextInv' /\ ScopesInv'
      /\ Accepts(trees, e) \/ Clash(written')
      /\ Accepts(trees, e) /\ trees' = Inserted(trees, e) => PendingInv'
    BY <1>1, <1>2, OneRoute
<1>4. CASE Accepts(trees, e)
  <2>1. Expected(base, e) = [routes |-> Inserted(trees, e), failed |-> FALSE]
    BY <1>4 DEF Expected
  <2>2. trees' = Inserted(trees, e) /\ panicked' = FALSE
    BY <1>2, <2>1
  <2>3. QED
    BY <1>3, <1>4, <2>2 DEF RouterInv, PanicInv
<1>5. CASE ~Accepts(trees, e)
  <2>1. Expected(base, e) = Panic
    BY <1>5 DEF Expected
  <2>2. panicked' = TRUE
    BY <1>2, <2>1 DEF Panic
  <2>3. QED
    BY <1>2, <1>3, <1>5, <2>2 DEF RouterInv, PanicInv, PendingInv
<1>6. QED
    BY <1>4, <1>5

\* What the fields of a scope are.
LEMMA ScopeFields ==
    ASSUME ScopesInv
    PROVE  /\ Len(scopes) \in Nat /\ DOMAIN scopes = 1..Len(scopes)
           /\ \A i \in 1..Len(scopes) : /\ scopes[i] \in Scope
                                        /\ scopes[i].own \in Paths /\ scopes[i].prefix \in Paths
                                        /\ scopes[i].entries \in Seq(Noted)
                                        /\ Len(scopes[i].entries) \in Nat
<1>1. Len(scopes) \in Nat /\ DOMAIN scopes = 1..Len(scopes)
    BY LenProperties DEF ScopesInv
<1>2. ASSUME NEW i \in 1..Len(scopes)
      PROVE  /\ scopes[i] \in Scope /\ scopes[i].own \in Paths /\ scopes[i].prefix \in Paths
             /\ scopes[i].entries \in Seq(Noted) /\ Len(scopes[i].entries) \in Nat
  <2>1. scopes[i] \in Scope
    BY ElementOfSeq DEF ScopesInv
  <2>2. /\ scopes[i].own \in Paths /\ scopes[i].prefix \in Paths
        /\ scopes[i].entries \in Seq(Noted)
    BY <2>1 DEF Scope
  <2>3. QED
    BY <2>1, <2>2, LenProperties
<1>3. QED
    BY <1>1, <1>2

LEMMA OpenKeeps ==
    ASSUME RouterInv, NEW prefix \in Prefix, OpenScope(prefix)
    PROVE  RouterInv'
<1> DEFINE n == Len(scopes)
           s == [own |-> prefix, prefix |-> Inner(prefix), entries |-> <<>>]
<1>1. /\ ~panicked /\ scopes' = Append(scopes, s)
      /\ trees' = trees /\ panicked' = panicked /\ written' = written
    BY DEF OpenScope, Building
<1>2. prefix \in Paths
    BY SegsAre
<1>3. Inner(prefix) = IF n = 0 THEN prefix ELSE scopes[n].prefix \o prefix
  <2>1. CASE scopes = <<>>
    <3>1. Inner(prefix) = prefix
      BY <1>2, <2>1, ConcatEmptySeq DEF Inner, Paths
    <3>2. QED
      BY <2>1, <3>1, EmptySeq
  <2>2. CASE scopes # <<>>
    BY <2>2, EmptySeq DEF Inner, Last, RouterInv, ScopesInv
  <2>3. QED
    BY <2>1, <2>2
<1>4. s \in Scope /\ s.own = prefix /\ s.prefix = Inner(prefix) /\ s.entries = <<>>
  <2>1. Inner(prefix) \in Paths
    BY <1>2, <1>3, ScopeFields, ConcatProperties DEF RouterInv, Paths
  <2>2. <<>> \in Seq(Noted)
    OBVIOUS
  <2>3. QED
    BY <1>2, <2>1, <2>2 DEF Scope
<1> HIDE DEF s
<1>5. /\ scopes' \in Seq(Scope) /\ Len(scopes') = n + 1 /\ n \in Nat
      /\ scopes'[n + 1] = s /\ \A i \in 1..n : scopes'[i] = scopes[i]
    BY <1>1, <1>4, AppendProperties, LenProperties DEF RouterInv, ScopesInv
<1>6. ScopesInv'
  <2>1. scopes'[1].prefix = scopes'[1].own
    <3>1. CASE n = 0
      BY <1>3, <1>4, <1>5, <3>1
    <3>2. CASE n # 0
      <4>1. 1 \in 1..n /\ scopes # <<>>
        BY <1>5, <3>2, EmptySeq
      <4>2. QED
        BY <1>5, <4>1 DEF RouterInv, ScopesInv
    <3>3. QED
      BY <3>1, <3>2
  <2>2. ASSUME NEW i \in 2..(n + 1)
        PROVE  scopes'[i].prefix = scopes'[i - 1].prefix \o scopes'[i].own
    <3>1. i - 1 \in 1..n /\ scopes'[i - 1] = scopes[i - 1]
      BY <1>5
    <3>2. CASE i = n + 1
      <4>1. n # 0 /\ i - 1 = n
        BY <3>1, <3>2, <1>5
      <4>2. QED
        BY <1>3, <1>4, <1>5, <3>1, <3>2, <4>1
    <3>3. CASE i \in 2..n
      <4>1. i \in 1..n
        BY <3>3
      <4>2. QED
        BY <1>5, <3>1, <3>3, <4>1 DEF RouterInv, ScopesInv
    <3>4. i = n + 1 \/ i \in 2..n
      BY <1>5
    <3>5. QED
      BY <3>2, <3>3, <3>4
  <2>3. QED
    BY <1>5, <2>1, <2>2 DEF ScopesInv
<1>7. PendingInv'
  <2>1. PICK start : Starts(start) /\ Has(trees, written, start[1]) /\ Fits(written, start[1])
    BY <1>1 DEF RouterInv, PendingInv
  <2>2. PICK new : new = [i \in 1..(n + 2) |-> IF i = n + 2 THEN start[n + 1] ELSE start[i]]
    OBVIOUS
  <2>3. /\ n + 1 \in 1..(n + 1) /\ start[n + 1] = Len(written)
        /\ start \in [1..(n + 1) -> 0..Len(written)]
    BY <1>5, <2>1 DEF Starts
  <2>4. /\ new \in [1..(n + 2) -> 0..Len(written)] /\ new[n + 2] = start[n + 1]
        /\ \A i \in 1..(n + 1) : new[i] = start[i]
    BY <1>5, <2>2, <2>3
  <2>5. ASSUME NEW i \in 1..(n + 1)
        PROVE  /\ new[i + 1] = new[i] + Len(scopes'[i].entries)
               /\ \A j \in 1..Len(scopes'[i].entries) :
                        scopes'[i].entries[j] = written[new[i] + j]
    <3>1. CASE i = n + 1
      <4>1. Len(scopes'[i].entries) = 0 /\ new[i + 1] = start[n + 1] /\ new[i] = start[n + 1]
        BY <1>4, <1>5, <2>4, <3>1, EmptySeq
      <4>2. QED
        BY <2>3, <4>1
    <3>2. CASE i \in 1..n
      <4>1. new[i + 1] = start[i + 1] /\ new[i] = start[i]
        BY <1>5, <2>4, <3>2
      <4>2. scopes'[i] = scopes[i]
        BY <1>5, <3>2
      <4>3. QED
        BY <2>1, <3>2, <4>1, <4>2 DEF Starts
    <3>3. QED
      BY <1>5, <3>1, <3>2
  <2>6. Starts(new)'
    <3>1. Len(scopes') + 1 = n + 2
      BY <1>5
    <3>2. QED
      BY <1>1, <1>5, <2>3, <2>4, <2>5, <3>1 DEF Starts
  <2>7. new[1] = start[1]
    BY <1>5, <2>4
  <2>8. Has(trees, written, new[1])' /\ Fits(written, new[1])'
    BY <1>1, <2>1, <2>7
  <2>9. QED
    BY <2>6, <2>8 DEF PendingInv
<1>8. TextInv' /\ PanicInv'
    BY <1>1 DEF RouterInv, TextInv, PanicInv
<1>9. QED
    BY <1>6, <1>7, <1>8 DEF RouterInv

LEMMA PushKeeps ==
    ASSUME RouterInv, NEW m \in Method, NEW p \in Pattern, Push(m, p)
    PROVE  RouterInv'
<1> DEFINE n == Len(scopes)
           e == AsWritten(m, p)
           t == [scopes[n] EXCEPT !.entries = Append(@, e)]
<1>1. /\ ~panicked /\ scopes # <<>> /\ trees' = trees /\ panicked' = panicked
      /\ written' = Append(written, e)
      /\ scopes' = [scopes EXCEPT ![n].entries =
                        Append(@, Entry(m, Last(scopes).prefix \o p))]
    BY DEF Push, Building
<1>2. n \in 1..n /\ n \in Nat
    BY <1>1, ScopeFields, EmptySeq DEF RouterInv, ScopesInv
<1>3. e = Entry(m, Last(scopes).prefix \o p) /\ Last(scopes).prefix \o p \in Paths
  <2>1. p \in Paths /\ Last(scopes).prefix \in Paths
    BY <1>2, SegsAre, ScopeFields DEF RouterInv, Last
  <2>2. Last(scopes).prefix \o p \in Paths
    BY <2>1, ConcatProperties DEF Paths
  <2>3. QED
    BY <1>1, <2>1, <2>2, PrefixIs DEF RouterInv
<1>4. e \in Noted /\ e.value = Len(written) + 1
    BY <1>3, EntryIs DEF RouterInv
<1>5. scopes' = [scopes EXCEPT ![n] = t]
    BY <1>1, <1>3
<1> HIDE DEF e
<1>6. /\ TextInv' /\ Len(written) \in Nat /\ Len(written') = Len(written) + 1
      /\ written'[Len(written) + 1] = e /\ \A i \in 1..Len(written) : written'[i] = written[i]
    BY <1>1, <1>4, TextGrows DEF RouterInv
<1>7. /\ t \in Scope /\ t.own = scopes[n].own /\ t.prefix = scopes[n].prefix
      /\ t.entries = Append(scopes[n].entries, e)
  <2>1. Append(scopes[n].entries, e) \in Seq(Noted) /\ scopes[n] \in Scope
    BY <1>2, <1>4, ScopeFields, AppendProperties DEF RouterInv
  <2>2. QED
    BY <2>1 DEF Scope
<1> HIDE DEF t
<1>8. /\ scopes' \in Seq(Scope) /\ Len(scopes') = n
      /\ scopes'[n] = t /\ \A i \in 1..n : i # n => scopes'[i] = scopes[i]
    BY <1>2, <1>5, <1>7, ExceptSeq DEF RouterInv, ScopesInv
<1>9. ScopesInv'
  <2>1. \A i \in 1..n : scopes'[i].own = scopes[i].own /\ scopes'[i].prefix = scopes[i].prefix
    BY <1>7, <1>8
  <2>2. 1 \in 1..n /\ \A i \in 2..n : i \in 1..n /\ i - 1 \in 1..n
    BY <1>2
  <2>3. scopes'[1].prefix = scopes'[1].own
    BY <1>1, <2>1, <2>2 DEF RouterInv, ScopesInv
  <2>4. ASSUME NEW i \in 2..n PROVE scopes'[i].prefix = scopes'[i - 1].prefix \o scopes'[i].own
    BY <2>1, <2>2 DEF RouterInv, ScopesInv
  <2>5. QED
    BY <1>8, <2>3, <2>4 DEF ScopesInv
<1>10. PendingInv'
  <2>1. PICK start : Starts(start) /\ Has(trees, written, start[1]) /\ Fits(written, start[1])
    BY <1>1 DEF RouterInv, PendingInv
  <2>2. PICK new : new = [i \in 1..(n + 1) |-> IF i = n + 1 THEN Len(written) + 1 ELSE start[i]]
    OBVIOUS
  <2>3. /\ n + 1 \in 1..(n + 1) /\ start[n + 1] = Len(written)
        /\ start \in [1..(n + 1) -> 0..Len(written)]
    BY <1>2, <2>1 DEF Starts
  <2>4. /\ new \in [1..(n + 1) -> 0..Len(written')] /\ new[n + 1] = Len(written')
        /\ \A i \in 1..n : new[i] = start[i]
    BY <1>2, <1>6, <2>2, <2>3
  <2>5. ASSUME NEW i \in 1..n
        PROVE  /\ new[i + 1] = new[i] + Len(scopes'[i].entries)
               /\ \A j \in 1..Len(scopes'[i].entries) :
                        scopes'[i].entries[j] = written'[new[i] + j]
    <3> DEFINE s == scopes[i].entries
    <3>1. /\ start[i + 1] = start[i] + Len(s) /\ i + 1 \in 1..(n + 1)
          /\ \A j \in 1..Len(s) : s[j] = written[start[i] + j]
      BY <1>2, <2>1 DEF Starts
    <3>2. /\ s \in Seq(Noted) /\ Len(s) \in Nat /\ new[i] = start[i]
          /\ start[i] \in Nat /\ start[i + 1] \in Nat /\ start[i + 1] <= Len(written)
      <4>1. s \in Seq(Noted) /\ Len(s) \in Nat
        BY ScopeFields DEF RouterInv
      <4>2. i \in 1..(n + 1) /\ new[i] = start[i]
        BY <1>2, <2>4
      <4>3. start[i] \in 0..Len(written) /\ start[i + 1] \in 0..Len(written)
        BY <2>3, <3>1, <4>2
      <4>4. QED
        BY <1>6, <4>1, <4>2, <4>3
    <3> HIDE DEF s
    <3>3. \A j \in 1..Len(s) : s[j] = written'[new[i] + j]
      <4>1. \A j \in 1..Len(s) : start[i] + j \in 1..Len(written)
        BY <1>6, <3>1, <3>2
      <4>2. QED
        BY <1>6, <3>1, <3>2, <4>1
    <3>4. CASE i = n
      <4>1. /\ Len(Append(s, e)) = Len(s) + 1 /\ Append(s, e)[Len(s) + 1] = e
            /\ \A j \in 1..Len(s) : Append(s, e)[j] = s[j]
        BY <1>4, <3>2, AppendProperties
      <4>2. scopes'[i].entries = Append(s, e)
        BY <1>7, <1>8, <3>4 DEF s
      <4>3. new[i] + (Len(s) + 1) = Len(written) + 1 /\ new[i + 1] = Len(written) + 1
        <5>1. start[n + 1] = start[n] + Len(s) /\ new[n + 1] = Len(written) + 1 /\ new[n] = start[n]
          BY <1>6, <2>4, <3>1, <3>2, <3>4
        <5>2. start[n] \in Nat /\ Len(written) = start[n] + Len(s)
          BY <2>3, <3>2, <3>4, <5>1
        <5>3. QED
          BY <3>2, <3>4, <5>1, <5>2
      <4>4. ASSUME NEW j \in 1..(Len(s) + 1) PROVE Append(s, e)[j] = written'[new[i] + j]
        <5>1. j \in 1..Len(s) \/ j = Len(s) + 1
          BY <3>2
        <5>2. QED
          BY <1>6, <3>3, <4>1, <4>3, <5>1
      <4>5. QED
        BY <4>1, <4>2, <4>3, <4>4
    <3>5. CASE i # n
      <4>1. scopes'[i].entries = s /\ new[i + 1] = start[i + 1]
        <5>1. i + 1 \in 1..n
          BY <1>2, <3>5
        <5>2. QED
          BY <1>8, <2>4, <3>5, <5>1 DEF s
      <4>2. QED
        BY <3>1, <3>2, <3>3, <4>1
    <3>6. QED
      BY <3>4, <3>5
  <2>6. Starts(new)'
    BY <1>8, <2>4, <2>5 DEF Starts
  <2>7. new[1] = start[1] /\ start[1] \in 0..Len(written)
    BY <1>2, <2>3, <2>4
  <2>8. \A i \in 1..start[1] : written'[i] = written[i]
    BY <1>6, <2>7
  <2>9. Has(trees', written', new[1]) /\ Fits(written', new[1])
    <3>1. start[1] \in Nat
      BY <1>6, <2>7
    <3>2. /\ Fits(written', start[1]) <=> Fits(written, start[1])
          /\ \A router : Has(router, written', start[1]) <=> Has(router, written, start[1])
      BY ONLY <2>8, <3>1, UptoSame
    <3>3. QED
      BY <1>1, <2>1, <2>7, <3>2
  <2>10. Has(trees, written, new[1])' /\ Fits(written, new[1])'
    BY <2>9
  <2>11. QED
    BY <2>6, <2>10 DEF PendingInv
<1>11. PanicInv'
    BY <1>1 DEF RouterInv, PanicInv
<1>12. QED
    BY <1>6, <1>9, <1>10, <1>11 DEF RouterInv

LEMMA CloseNestedKeeps ==
    ASSUME RouterInv, CloseNested
    PROVE  RouterInv'
<1> DEFINE n == Len(scopes)
           a == scopes[n - 1].entries
           b == scopes[n].entries
           f == Front(scopes)
           t == [f[n - 1] EXCEPT !.entries = @ \o b]
<1>1. /\ ~panicked /\ n > 1 /\ trees' = trees /\ panicked' = panicked /\ written' = written
      /\ scopes' = [f EXCEPT ![n - 1].entries = @ \o b]
    BY DEF CloseNested, Last
<1>2. n \in Nat /\ n \in 1..n /\ n - 1 \in 1..(n - 1) /\ n - 1 \in 1..n
    BY <1>1, ScopeFields DEF RouterInv
<1>3. /\ f \in Seq(Scope) /\ Len(f) = n - 1 /\ \A i \in 1..(n - 1) : f[i] = scopes[i]
  <2>1. \A i \in 1..(n - 1) : scopes[i] \in Scope /\ 1 + i - 1 = i
    BY <1>2, ScopeFields DEF RouterInv
  <2>2. 1 \in Int /\ n - 1 \in Int /\ (n - 1) - 1 + 1 = n - 1 /\ 1 <= n - 1
    BY <1>1, <1>2
  <2>3. /\ f \in Seq(Scope) /\ Len(f) = (n - 1) - 1 + 1
        /\ \A i \in 1..((n - 1) - 1 + 1) : f[i] = scopes[1 + i - 1]
    BY <2>1, <2>2, SubSeqProperties DEF Front
  <2>4. QED
    BY <2>1, <2>2, <2>3
<1>4. a \in Seq(Noted) /\ b \in Seq(Noted) /\ Len(a) \in Nat /\ Len(b) \in Nat
    BY <1>2, ScopeFields DEF RouterInv
<1>5. /\ a \o b \in Seq(Noted) /\ Len(a \o b) = Len(a) + Len(b)
      /\ \A j \in 1..(Len(a) + Len(b)) : (a \o b)[j] = IF j <= Len(a) THEN a[j] ELSE b[j - Len(a)]
    BY <1>4, ConcatProperties
<1>6. f[n - 1] = scopes[n - 1] /\ f[n - 1] \in Scope
    BY <1>2, <1>3, ScopeFields DEF RouterInv
<1>7. /\ t \in Scope /\ t.own = scopes[n - 1].own /\ t.prefix = scopes[n - 1].prefix
      /\ t.entries = a \o b
    BY <1>5, <1>6 DEF Scope
<1>8. scopes' = [f EXCEPT ![n - 1] = t]
    BY <1>1
<1> HIDE DEF t, f
<1>9. /\ scopes' \in Seq(Scope) /\ Len(scopes') = n - 1 /\ scopes'[n - 1] = t
      /\ \A i \in 1..(n - 1) : i # n - 1 => scopes'[i] = scopes[i]
    BY <1>2, <1>3, <1>7, <1>8, ExceptSeq
<1>10. ScopesInv'
  <2>1. \A i \in 1..(n - 1) : scopes'[i].own = scopes[i].own /\ scopes'[i].prefix = scopes[i].prefix
    BY <1>7, <1>9
  <2>2. /\ 1 \in 1..(n - 1)
        /\ \A i \in 2..(n - 1) : i \in 1..(n - 1) /\ i - 1 \in 1..(n - 1) /\ i \in 2..n
    BY <1>1, <1>2
  <2>3. scopes # <<>>
    BY <1>1, EmptySeq
  <2>4. scopes'[1].prefix = scopes'[1].own
    BY <2>1, <2>2, <2>3 DEF RouterInv, ScopesInv
  <2>5. ASSUME NEW i \in 2..(n - 1)
        PROVE  scopes'[i].prefix = scopes'[i - 1].prefix \o scopes'[i].own
    BY <2>1, <2>2 DEF RouterInv, ScopesInv
  <2>6. QED
    BY <1>9, <2>4, <2>5 DEF ScopesInv
<1>11. PendingInv'
  <2>1. PICK start : Starts(start) /\ Has(trees, written, start[1]) /\ Fits(written, start[1])
    BY <1>1 DEF RouterInv, PendingInv
  <2>2. PICK new : new = [i \in 1..n |-> IF i = n THEN Len(written) ELSE start[i]]
    OBVIOUS
  <2>3. /\ n + 1 \in 1..(n + 1) /\ start[n + 1] = Len(written) /\ Len(written) \in Nat
        /\ start \in [1..(n + 1) -> 0..Len(written)]
    BY <1>2, <2>1, LenProperties DEF Starts, RouterInv, TextInv
  <2>4. /\ new \in [1..n -> 0..Len(written)] /\ new[n] = Len(written)
        /\ \A i \in 1..(n - 1) : new[i] = start[i]
    BY <1>2, <2>2, <2>3
  <2>5. ASSUME NEW i \in 1..(n - 1)
        PROVE  /\ new[i + 1] = new[i] + Len(scopes'[i].entries)
               /\ \A j \in 1..Len(scopes'[i].entries) :
                        scopes'[i].entries[j] = written[new[i] + j]
    <3>1. CASE i = n - 1
      <4>1. /\ start[n] = start[n - 1] + Len(a) /\ start[n + 1] = start[n] + Len(b)
            /\ \A j \in 1..Len(a) : a[j] = written[start[n - 1] + j]
            /\ \A j \in 1..Len(b) : b[j] = written[start[n] + j]
        <5>1. (n - 1) + 1 = n
          BY <1>2
        <5>2. QED
          BY <1>2, <2>1, <5>1 DEF Starts
      <4>2. start[n - 1] \in Nat /\ start[n] \in Nat /\ new[i] = start[n - 1]
        BY <1>2, <2>3, <2>4, <3>1
      <4>3. scopes'[i].entries = a \o b
        BY <1>7, <1>9, <3>1
      <4>4. new[i + 1] = new[i] + (Len(a) + Len(b))
        <5>1. i + 1 = n /\ new[n] = start[n + 1]
          BY <1>2, <2>3, <2>4, <3>1
        <5>2. new[n] = new[i] + (Len(a) + Len(b))
          <6> HIDE DEF a, b
          <6>1. QED
            BY <1>4, <4>1, <4>2, <5>1
        <5>3. QED
          BY <5>1, <5>2
      <4>5. ASSUME NEW j \in 1..(Len(a) + Len(b)) PROVE (a \o b)[j] = written[new[i] + j]
        <5>1. CASE j <= Len(a)
          BY <1>4, <1>5, <4>1, <4>2, <5>1
        <5>2. CASE ~(j <= Len(a))
          <6>1. j - Len(a) \in 1..Len(b) /\ start[n] + (j - Len(a)) = new[i] + j
            <7> HIDE DEF a, b
            <7>1. QED
              BY <1>4, <4>1, <4>2, <5>2
          <6>2. (a \o b)[j] = b[j - Len(a)]
            BY <1>5, <5>2
          <6>3. QED
            BY <4>1, <6>1, <6>2
        <5>3. QED
          BY <5>1, <5>2
      <4>6. QED
        BY <1>5, <4>3, <4>4, <4>5
    <3>2. CASE i # n - 1
      <4>1. i + 1 \in 1..(n - 1) /\ i \in 1..n
        BY <1>2, <3>2
      <4>2. scopes'[i] = scopes[i] /\ new[i + 1] = start[i + 1] /\ new[i] = start[i]
        BY <1>9, <2>4, <3>2, <4>1
      <4>3. QED
        BY <2>1, <4>1, <4>2 DEF Starts
    <3>3. QED
      BY <3>1, <3>2
  <2>6. Starts(new)'
    <3>1. Len(scopes') + 1 = n
      BY <1>2, <1>9
    <3>2. /\ new \in [1..(Len(scopes') + 1) -> 0..Len(written')]
          /\ new[Len(scopes') + 1] = Len(written')
      BY <1>1, <2>4, <3>1
    <3>3. \A i \in 1..Len(scopes') :
            /\ new[i + 1] = new[i] + Len(scopes'[i].entries)
            /\ \A j \in 1..Len(scopes'[i].entries) :
                     scopes'[i].entries[j] = written'[new[i] + j]
      <4> TAKE i \in 1..Len(scopes')
      <4>1. i \in 1..(n - 1) /\ written' = written
        BY <1>1, <1>9
      <4>2. QED
        BY <2>5, <4>1
    <3>4. QED
      BY <3>2, <3>3 DEF Starts
  <2>7. new[1] = start[1]
    BY <1>1, <1>2, <2>4
  <2>8. Has(trees, written, new[1])' /\ Fits(written, new[1])'
    BY <1>1, <2>1, <2>7
  <2>9. QED
    BY <2>6, <2>8 DEF PendingInv
<1>12. TextInv' /\ PanicInv'
    BY <1>1 DEF RouterInv, TextInv, PanicInv
<1>13. QED
    BY <1>10, <1>11, <1>12 DEF RouterInv

LEMMA CloseScopeKeeps ==
    ASSUME RouterInv, CloseScope
    PROVE  RouterInv'
<1> DEFINE s == scopes[1].entries
           base == [routes |-> trees, failed |-> FALSE]
           result == FoldLeft(Expected, base, s)
<1>1. /\ ~panicked /\ Len(scopes) = 1 /\ scopes' = <<>> /\ written' = written
      /\ trees' = result.routes /\ panicked' = result.failed
    BY Zenon DEF CloseScope, Become
<1>2. written \in Seq(Noted) /\ Len(written) \in Nat /\ s \in Seq(Noted) /\ Len(s) \in Nat
    BY <1>1, ScopeFields, LenProperties DEF RouterInv, TextInv
<1>3. PICK start : Starts(start) /\ Has(trees, written, start[1]) /\ Fits(written, start[1])
    BY <1>1 DEF RouterInv, PendingInv
<1>4. /\ start[1] \in Nat /\ start[1] + Len(s) = Len(written)
      /\ \A j \in 1..Len(s) : s[j] = written[start[1] + j]
    BY <1>1, <1>2, <1>3 DEF Starts
<1>5. Built0(base, written, start[1])
    BY <1>3 DEF Built0
<1> HIDE DEF s, base
<1>6. \/ Built0(result, written, start[1] + Len(s))
      \/ result = Panic /\ Clash(written)
    BY <1>2, <1>4, <1>5, FoldBuilds
<1> HIDE DEF result
<1>7. ScopesInv' /\ TextInv'
  <2>1. scopes' \in Seq(Scope) /\ Len(scopes') = 0
    BY <1>1, EmptySeq
  <2>2. QED
    BY <1>1, <2>1 DEF RouterInv, ScopesInv, TextInv
<1>8. CASE Built0(result, written, Len(written))
  <2>1. /\ panicked' = FALSE /\ Has(trees', written, Len(written)) /\ Fits(written, Len(written))
    BY <1>1, <1>8 DEF Built0
  <2>2. PICK new : new = [i \in {1} |-> Len(written)]
    OBVIOUS
  <2>3. Len(scopes') = 0 /\ new[1] = Len(written) /\ new \in [1..1 -> 0..Len(written)]
    BY <1>1, <1>2, <2>2, EmptySeq
  <2>4. Starts(new)'
    BY <1>1, <2>3 DEF Starts
  <2>5. Has(trees, written, new[1])' /\ Fits(written, new[1])'
    BY <1>1, <2>1, <2>3
  <2>6. PendingInv'
    BY <2>4, <2>5 DEF PendingInv
  <2>7. PanicInv'
    BY <2>1 DEF PanicInv
  <2>8. QED
    BY <1>7, <2>6, <2>7 DEF RouterInv
<1>9. CASE result = Panic /\ Clash(written)
  <2>1. panicked' = TRUE /\ Clash(written)'
    BY <1>1, <1>9 DEF Panic
  <2>2. QED
    BY <1>1, <1>7, <2>1 DEF RouterInv, PendingInv, PanicInv
<1>10. QED
    BY <1>4, <1>6, <1>8, <1>9

LEMMA RouterStart == Init => RouterInv
<1> SUFFICES ASSUME Init PROVE RouterInv
    OBVIOUS
<1>1. trees = <<>> /\ scopes = <<>> /\ panicked = FALSE /\ written = <<>>
    BY DEF Init, RouterInit
<1>2. Len(written) = 0 /\ Len(scopes) = 0 /\ written \in Seq(Noted) /\ scopes \in Seq(Scope)
      /\ trees \in Seq(Tree)
    BY <1>1, EmptySeq
<1>3. TextInv /\ ScopesInv /\ PanicInv
  <2>1. TextInv
    BY <1>2 DEF TextInv
  <2>2. ScopesInv
    BY <1>1, <1>2 DEF ScopesInv
  <2>3. PanicInv
    BY <1>1 DEF PanicInv
  <2>4. QED
    BY <2>1, <2>2, <2>3
<1>4. PendingInv
  <2> DEFINE start == [i \in {1} |-> 0]
  <2>1. Starts(start)
    BY <1>2 DEF Starts
  <2>2. Has(trees, written, 0)
    <3>1. \A m : TreesOf(trees, m) = {}
      BY <1>1 DEF TreesOf
    <3>2. \A m : RoutesOf(trees, m) = {} /\ Upto(written, 0, m) = {}
      BY <3>1 DEF RoutesOf, Upto
    <3>3. QED
      BY <1>2, <3>2 DEF Has
  <2>3. Fits(written, 0)
    BY DEF Fits
  <2>4. start[1] = 0
    OBVIOUS
  <2> HIDE DEF start
  <2>5. QED
    BY <2>1, <2>2, <2>3, <2>4 DEF PendingInv
<1>5. QED
    BY <1>3, <1>4 DEF RouterInv

LEMMA RouterKept ==
    ASSUME RouterInv, [Next]_vars
    PROVE  RouterInv'
<1>1. CASE UNCHANGED routerVars
  <2>1. trees' = trees /\ scopes' = scopes /\ panicked' = panicked /\ written' = written
    BY <1>1 DEF routerVars
  <2>2. TextInv' /\ ScopesInv' /\ PanicInv'
    BY <2>1 DEF RouterInv, TextInv, ScopesInv, PanicInv
  <2>3. PendingInv'
    BY <2>1 DEF RouterInv, PendingInv, Starts
  <2>4. QED
    BY <2>2, <2>3 DEF RouterInv
<1>2. CASE RouterNext
  <2>1. CASE \E m \in Method, p \in Pattern : Insert(m, p) \/ Route(m, p) \/ Push(m, p)
    BY <2>1, InsertKeeps, RouteKeeps, PushKeeps
  <2>2. CASE \E prefix \in Prefix : OpenScope(prefix)
    BY <2>2, OpenKeeps
  <2>3. CASE CloseNested \/ CloseScope
    BY <2>3, CloseNestedKeeps, CloseScopeKeeps
  <2>4. QED
    BY <1>2, <2>1, <2>2, <2>3 DEF RouterNext
<1>3. UNCHANGED vars => UNCHANGED routerVars
    BY DEF vars, routerVars
<1>4. QED
    BY <1>1, <1>2, <1>3 DEF Next, Register, Send

LEMMA RouterSafe == Spec => []RouterInv
BY RouterStart, RouterKept, PTL DEF Spec

\* What the text has for a method, and what the Router keeps of it.
LEMMA TextRoutes ==
    ASSUME TextInv, NEW m \in Method
    PROVE  /\ WrittenFor(m) = {written[i] : i \in {j \in 1..Len(written) : written[j].method = m}}
           /\ IsFiniteSet(WrittenFor(m))
           /\ \A r \in Upto(written, Len(written), m) :
                 \E s \in WrittenFor(m) : r.path = s.path /\ r.value = s.value
           /\ \A s \in WrittenFor(m) :
                 \E r \in Upto(written, Len(written), m) : r.path = s.path /\ r.value = s.value
           /\ \A i \in 1..Len(written) : \A p :
                 written[i].method = m =>
                   (Insertable({v \in WrittenFor(m) : v.value < written[i].value}, p)
                      <=> Insertable(Upto(written, i - 1, m), p))
<1> DEFINE n == Len(written)
           D == {j \in 1..n : written[j].method = m}
           f == [i \in D |-> written[i]]
<1>1. n \in Nat /\ DOMAIN written = 1..n /\ \A i \in 1..n : written[i].value = i
    BY LenProperties DEF TextInv
<1>2. WrittenFor(m) = {written[i] : i \in D}
    BY <1>1 DEF WrittenFor, ToSet
<1>3. IsFiniteSet(WrittenFor(m))
  <2>1. IsFiniteSet(1..n)
    <3> HIDE DEF n, D, f
    <3>1. 1 \in Int /\ n \in Int
      BY <1>1
    <3>2. QED
      BY ONLY <3>1, FS_Interval
  <2>2. IsFiniteSet(D)
    BY <2>1, FS_Subset
  <2>3. f \in Surjection(D, WrittenFor(m))
    BY <1>2 DEF Surjection
  <2> HIDE DEF f, D
  <2>4. QED
    BY <2>2, <2>3, FS_Surjection
<1>4. ASSUME NEW i \in 1..n, NEW p, written[i].method = m
      PROVE  Insertable({v \in WrittenFor(m) : v.value < written[i].value}, p)
                <=> Insertable(Upto(written, i - 1, m), p)
  <2> DEFINE V == {v \in WrittenFor(m) : v.value < written[i].value}
             U == Upto(written, i - 1, m)
  <2>1. \A v \in V : \E u \in U : u.path = v.path
    <3>1. ASSUME NEW v \in V PROVE \E u \in U : u.path = v.path
      <4>1. PICK j \in D : v = written[j]
        BY <1>2
      <4>2. j < i
        BY <1>1, <4>1
      <4>3. j \in {k \in 1..(i - 1) : written[k].method = m}
        BY <1>1, <4>2
      <4>4. QED
        BY <4>1, <4>3, UptoIn
    <3>2. QED
      BY <3>1
  <2>2. \A u \in U : \E v \in V : u.path = v.path
    <3>1. ASSUME NEW u \in U PROVE \E v \in V : u.path = v.path
      <4>1. PICK j \in 1..(i - 1) : written[j].method = m /\ u.path = written[j].path
        BY UptoIn
      <4>2. j \in D /\ j < i
        BY <1>1, <4>1
      <4>3. written[j] \in V
        BY <1>1, <1>2, <4>2
      <4>4. QED
        BY <4>1, <4>3
    <3>2. QED
      BY <3>1
  <2> HIDE DEF U, V
  <2>3. Insertable(V, p) <=> Insertable(U, p)
    BY <2>1, <2>2, SMTT(30) DEF Insertable
  <2>4. QED
    BY <2>3 DEF U, V
<1>5. /\ \A r \in Upto(written, n, m) :
            \E s \in WrittenFor(m) : r.path = s.path /\ r.value = s.value
      /\ \A s \in WrittenFor(m) :
            \E r \in Upto(written, n, m) : r.path = s.path /\ r.value = s.value
  <2>1. ASSUME NEW r \in Upto(written, n, m)
        PROVE  \E s \in WrittenFor(m) : r.path = s.path /\ r.value = s.value
    <3>1. PICK i \in 1..n : /\ written[i].method = m
                            /\ r.path = written[i].path /\ r.value = written[i].value
      BY UptoIn
    <3>2. QED
      BY <1>2, <3>1
  <2>2. ASSUME NEW s \in WrittenFor(m)
        PROVE  \E r \in Upto(written, n, m) : r.path = s.path /\ r.value = s.value
    <3>1. PICK i \in D : s = written[i]
      BY <1>2
    <3>2. QED
      BY <3>1, UptoIn
  <2>3. QED
    BY <2>1, <2>2
<1>6. QED
    BY <1>2, <1>3, <1>4, <1>5

\* A Router dispatches requests as the text of the program that built it has the routes,
\* and the program panics just when its routes exclude each other: however insert, the
\* methods named for HTTP's and scopes within scopes follow each other.
THEOREM RoutesAreWritten == Spec => []DispatchesAsWritten
<1>1. RouterInv => DispatchesAsWritten
  <2> SUFFICES ASSUME RouterInv, Built PROVE
            /\ panicked <=> Excluded
            /\ ~panicked => \A m \in Method, target \in Target :
                                Find(trees, m, target) = Best(WrittenFor(m), target)
    BY DEF DispatchesAsWritten
  <2> DEFINE n == Len(written)
  <2>1. /\ TextInv /\ n \in Nat /\ scopes = <<>> /\ panicked \in BOOLEAN
        /\ \A i \in 1..n : written[i] \in Noted /\ written[i].value = i
    BY LenProperties, ElementOfSeq DEF RouterInv, TextInv, PanicInv, Built
  <2>2. \A i \in 1..n : written[i].method \in Method /\ written[i].path \in Paths
    BY <2>1 DEF Noted
  <2>3. Clash(written) <=> Excluded
    <3>1. ASSUME Clash(written) PROVE Excluded
      <4>1. PICK i \in 1..n : ~Insertable(Upto(written, i - 1, written[i].method), written[i].path)
        BY <3>1 DEF Clash, FitsAt
      <4>2. written[i] \in WrittenFor(written[i].method)
        BY <2>1, <2>2, TextRoutes
      <4>3. QED
        BY <2>1, <2>2, <4>1, <4>2, TextRoutes DEF Excluded
    <3>2. ASSUME Excluded PROVE Clash(written)
      <4>1. PICK m \in Method : \E w \in WrittenFor(m) :
                ~Insertable({v \in WrittenFor(m) : v.value < w.value}, w.path)
        BY <3>2 DEF Excluded
      <4>2. PICK w \in WrittenFor(m) :
                ~Insertable({v \in WrittenFor(m) : v.value < w.value}, w.path)
        BY <4>1
      <4>3. PICK i \in {j \in 1..n : written[j].method = m} : w = written[i]
        BY <2>1, TextRoutes
      <4>4. ~Insertable(Upto(written, i - 1, m), written[i].path)
        BY <2>1, <4>2, <4>3, TextRoutes
      <4>5. QED
        BY <4>3, <4>4 DEF Clash, FitsAt
    <3>3. QED
      BY <3>1, <3>2
  <2>4. CASE panicked
    BY <2>3, <2>4 DEF RouterInv, PanicInv
  <2>5. CASE ~panicked
    <3>1. Has(trees, written, n) /\ Fits(written, n)
      BY <2>1, <2>5, BuiltHas DEF RouterInv
    <3>2. ~Clash(written)
      BY <3>1 DEF Clash, Fits
    <3>3. ASSUME NEW m \in Method, NEW target \in Target
          PROVE  Find(trees, m, target) = Best(WrittenFor(m), target)
      <4>1. RoutesOf(trees, m) = Upto(written, n, m) /\ target \in Seq(STRING)
        BY <3>1, RouterAssumption DEF Has, RouterAssumption
      <4>2. ASSUME NEW s \in WrittenFor(m) PROVE s.path \in Paths /\ Ends(s.path)
        <5>1. PICK i \in {j \in 1..n : written[j].method = m} : s = written[i]
          BY <2>1, TextRoutes
        <5>2. Insertable(Upto(written, i - 1, m), s.path)
          BY <3>1, <5>1 DEF Fits, FitsAt
        <5>3. QED
          BY <2>2, <5>1, <5>2 DEF Insertable, Ends
      <4>3. ASSUME NEW r \in WrittenFor(m), NEW s \in WrittenFor(m), r.path = s.path
            PROVE  r.value = s.value
        <5>1. PICK i \in {j \in 1..n : written[j].method = m} : r = written[i]
          BY <2>1, TextRoutes
        <5>2. PICK j \in {k \in 1..n : written[k].method = m} : s = written[j]
          BY <2>1, TextRoutes
        <5>3. ASSUME NEW a \in 1..n, NEW b \in 1..n, a < b, written[a].method = m,
                     written[b].method = m, written[a].path = written[b].path
              PROVE  FALSE
          <6>1. Insertable(Upto(written, b - 1, m), written[b].path)
            BY <3>1, <5>3 DEF Fits, FitsAt
          <6>2. a \in {k \in 1..(b - 1) : written[k].method = m}
            BY <2>1, <5>3
          <6>3. \E u \in Upto(written, b - 1, m) : u.path = written[b].path
            BY <5>3, <6>2, UptoIn
          <6>4. QED
            BY <6>1, <6>3 DEF Insertable, Conflict
        <5>4. i = j
          BY <2>1, <4>3, <5>1, <5>2, <5>3
        <5>5. QED
          BY <5>1, <5>2, <5>4
      <4>4. Best(Upto(written, n, m), target) = Best(WrittenFor(m), target)
        BY <2>1, <4>1, <4>2, <4>3, TextRoutes, BestSame
      <4>5. QED
        BY <4>1, <4>4 DEF Find
    <3>4. QED
      BY <2>3, <2>5, <3>2, <3>3
  <2>6. QED
    BY <2>1, <2>4, <2>5
<1>2. QED
    BY <1>1, RouterSafe, PTL

-----------------------------------------------------------------------------
(* The two splits: what has been split off and where the next piece starts *)
(* are the same at every position as long as no two delimiters overlap.    *)

\* No delimiter begins within another.
Apart(s, d) ==
    \A i, j \in 1..Len(s) : At(s, d, i) /\ At(s, d, j) /\ i < j => Past(d, i) <= j

Pieces(B) == [start: Nat \ {0}, next: Nat \ {0}, pieces: Seq(Seq(B))]

\* One step of either.
OneStep(arena, s, d, a, i) ==
    IF arena THEN SplitStepArena(a, s, d, i) ELSE SplitStep(a, s, d, i)

SplitFold(arena, s, d, g, t) ==
    IF t = {} THEN Nothing ELSE OneStep(arena, s, d, g[t \ {Max(t)}], Max(t))

SplitsBy(arena, s, d, g) == g = [t \in SUBSET (1..Len(s)) |-> SplitFold(arena, s, d, g, t)]

Splits(arena, s, d, f) ==
    /\ f[0] = Nothing
    /\ \A k \in 1..Len(s) : f[k] = OneStep(arena, s, d, f[k - 1], k)

\* Pieces of s are sequences of what s consists of.
LEMMA AddedType ==
    ASSUME NEW B, NEW s \in Seq(B), NEW p \in Seq(Seq(B)), NEW from \in Nat \ {0},
           NEW to \in Int, to <= Len(s)
    PROVE  Added(p, s, from, to) \in Seq(Seq(B))
<1>1. CASE from <= to
  <2>1. Len(s) \in Nat /\ \A j \in 1..Len(s) : s[j] \in B
    BY LenProperties, ElementOfSeq
  <2>2. SubSeq(s, from, to) \in Seq(B)
    BY <1>1, <2>1, SubSeqProperties
  <2>3. QED
    BY <1>1, <2>2, AppendProperties DEF Added
<1>2. CASE ~(from <= to)
    BY <1>2 DEF Added
<1>3. QED
    BY <1>1, <1>2

\* A step keeps the type of what it goes on with.
LEMMA OneStepType ==
    ASSUME NEW B, NEW s \in Seq(B), NEW d \in Seq(B), NEW arena \in BOOLEAN, NEW a \in Pieces(B),
           NEW i \in 1..Len(s)
    PROVE  OneStep(arena, s, d, a, i) \in Pieces(B)
<1>1. PICK st \in Nat \ {0}, nx \in Nat \ {0}, ps \in Seq(Seq(B)) :
          a = [start |-> st, next |-> nx, pieces |-> ps]
    BY DEF Pieces
<1>2. a.start = st /\ a.next = nx /\ a.pieces = ps
    BY <1>1
<1> DEFINE more == Added(ps, s, st, i - 1)
<1>3. i - 1 \in Int /\ i - 1 <= Len(s) /\ i \in Nat
  <2>1. Len(s) \in Nat
    BY LenProperties
  <2>2. QED
    BY <2>1
<1>4. more \in Seq(Seq(B))
    BY <1>3, AddedType
<1>5. Past(d, i) \in Nat \ {0}
    BY <1>3, LenProperties DEF Past
<1> HIDE DEF more
<1>6. /\ [start |-> Past(d, i), next |-> Past(d, i), pieces |-> more] \in Pieces(B)
      /\ [a EXCEPT !.start = Past(d, i), !.pieces = more] \in Pieces(B)
    BY <1>4, <1>5 DEF Pieces
<1>7. SplitStepArena(a, s, d, i) \in Pieces(B)
    BY <1>2, <1>6 DEF SplitStepArena, more
<1>8. SplitStep(a, s, d, i) \in Pieces(B)
    BY <1>2, <1>6 DEF SplitStep, more
<1>9. QED
    BY <1>7, <1>8 DEF OneStep

\* The function that the folds choose exists.
LEMMA SplitFolds ==
    ASSUME NEW B, NEW s \in Seq(B), NEW d \in Seq(B), NEW arena \in BOOLEAN
    PROVE  \E h : SplitsBy(arena, s, d, h)
<1> DEFINE n == Len(s)
           D == 1..n
           R == Pieces(B)
           F == [x \in R |-> [k \in D |-> OneStep(arena, s, d, x, k)]]
<1>1. n \in Nat
    BY LenProperties
<1>2. Nothing \in R
    BY EmptySeq DEF Nothing, Pieces
<1>3. F \in Steps(n, R)
    BY OneStepType DEF Steps
<1>4. \A x \in R, k \in D : F[x][k] = OneStep(arena, s, d, x, k)
    OBVIOUS
<1> HIDE DEF F, R, n
<1>5. PICK h : FoldsBy(n, R, Nothing, F, h)
    BY <1>1, <1>2, <1>3, FoldedExists, Zenon
<1>6. ASSUME NEW t \in SUBSET D PROVE h[t] = SplitFold(arena, s, d, h, t)
  <2>1. h[t] = Folded(Nothing, F, h, t) /\ h \in [SUBSET D -> R]
    BY <1>5 DEF FoldsBy
  <2>2. CASE t = {}
    BY <2>1, <2>2 DEF Folded, SplitFold
  <2>3. CASE t # {}
    <3>1. Max(t) \in D /\ t \ {Max(t)} \in SUBSET D
      BY <1>1, <2>3, MaxIn
    <3>2. h[t \ {Max(t)}] \in R
      BY <2>1, <3>1
    <3>3. QED
      BY <1>4, <2>1, <2>3, <3>1, <3>2 DEF Folded, SplitFold
  <2>4. QED
    BY <2>2, <2>3
<1>7. h = [t \in SUBSET D |-> SplitFold(arena, s, d, h, t)]
    BY <1>5, <1>6 DEF FoldsBy
<1>8. QED
    BY <1>7 DEF n, SplitsBy

\* It goes through the positions one by one.
GoesTo(arena, s, d, x) == \E f : Splits(arena, s, d, f) /\ x = f[Len(s)]

LEMMA SplitGoes ==
    ASSUME NEW B, NEW s \in Seq(B), NEW d, NEW arena,
           NEW g, SplitsBy(arena, s, d, g)
    PROVE  GoesTo(arena, s, d, g[1..Len(s)])
<1> DEFINE n == Len(s)
           f == [k \in 0..n |-> g[1..k]]
<1>1. n \in Nat
    BY LenProperties
<1>2. \A t \in SUBSET (1..n) : g[t] = SplitFold(arena, s, d, g, t)
    BY DEF SplitsBy
<1>3. ASSUME NEW k \in 1..n PROVE g[1..k] = OneStep(arena, s, d, g[1..(k - 1)], k)
    BY <1>1, <1>2, FoldedSets DEF SplitFold
<1>4. g[1..0] = Nothing
  <2>1. 1..0 = {}
    OBVIOUS
  <2>2. QED
    BY <1>2, <2>1 DEF SplitFold
<1>5. f[0] = Nothing /\ f[n] = g[1..n]
    BY <1>1, <1>4
<1>6. \A k \in 1..n : f[k] = g[1..k] /\ f[k - 1] = g[1..(k - 1)]
    BY <1>1
<1>7. QED
    BY <1>3, <1>5, <1>6 DEF Splits, GoesTo

\* The fold of split_bytes, position by position, and that of split_bytes_arena.
FoldOf(s, d)      == FoldLeftDomain(LAMBDA a, i : SplitStep(a, s, d, i), Nothing, s)
FoldOfArena(s, d) == FoldLeftDomain(LAMBDA a, i : SplitStepArena(a, s, d, i), Nothing, s)

LEMMA SplitOf ==
    ASSUME NEW B, NEW s \in Seq(B), NEW d \in Seq(B)
    PROVE  GoesTo(FALSE, s, d, FoldOf(s, d))
<1> DEFINE P == [i \in DOMAIN s |-> i]
           Step(g, t) == IF t = {} THEN Nothing
                         ELSE SplitStep(g[t \ {Max(t)}], s, d, P[Max(t)])
           g == CHOOSE g : g = [t \in SUBSET DOMAIN P |-> Step(g, t)]
<1>1. FoldOf(s, d) = g[DOMAIN P]
    BY DEF FoldOf, FoldLeftDomain, FoldLeft, MapThenFoldSet
<1>2. DOMAIN P = 1..Len(s) /\ Len(s) \in Nat
    BY LenProperties
<1>3. \A h : \A t \in SUBSET (1..Len(s)) : Step(h, t) = SplitFold(FALSE, s, d, h, t)
  <2> TAKE h
  <2> TAKE t \in SUBSET (1..Len(s))
  <2>1. CASE t = {}
    BY <2>1 DEF SplitFold
  <2>2. CASE t # {}
    <3>1. P[Max(t)] = Max(t)
      BY <1>2, <2>2, MaxIn
    <3>2. QED
      BY <2>2, <3>1 DEF SplitFold, OneStep
  <2>3. QED
    BY <2>1, <2>2
<1> HIDE DEF Step, P
<1>4. \E h : h = [t \in SUBSET DOMAIN P |-> Step(h, t)]
  <2>1. PICK h : SplitsBy(FALSE, s, d, h)
    BY SplitFolds
  <2>2. h = [t \in SUBSET DOMAIN P |-> Step(h, t)]
    BY <1>2, <1>3, <2>1 DEF SplitsBy
  <2>3. QED
    BY <2>2
<1>5. g = [t \in SUBSET DOMAIN P |-> Step(g, t)]
    BY <1>4
<1> HIDE DEF g
<1>6. SplitsBy(FALSE, s, d, g)
    BY <1>2, <1>3, <1>5 DEF SplitsBy
<1>7. GoesTo(FALSE, s, d, g[1..Len(s)])
    BY <1>6, SplitGoes, Zenon
<1>8. QED
    BY <1>1, <1>2, <1>7, Zenon

LEMMA SplitArenaOf ==
    ASSUME NEW B, NEW s \in Seq(B), NEW d \in Seq(B)
    PROVE  GoesTo(TRUE, s, d, FoldOfArena(s, d))
<1> DEFINE P == [i \in DOMAIN s |-> i]
           Step(g, t) == IF t = {} THEN Nothing
                         ELSE SplitStepArena(g[t \ {Max(t)}], s, d, P[Max(t)])
           g == CHOOSE g : g = [t \in SUBSET DOMAIN P |-> Step(g, t)]
<1>1. FoldOfArena(s, d) = g[DOMAIN P]
    BY DEF FoldOfArena, FoldLeftDomain, FoldLeft, MapThenFoldSet
<1>2. DOMAIN P = 1..Len(s) /\ Len(s) \in Nat
    BY LenProperties
<1>3. \A h : \A t \in SUBSET (1..Len(s)) : Step(h, t) = SplitFold(TRUE, s, d, h, t)
  <2> TAKE h
  <2> TAKE t \in SUBSET (1..Len(s))
  <2>1. CASE t = {}
    BY <2>1 DEF SplitFold
  <2>2. CASE t # {}
    <3>1. P[Max(t)] = Max(t)
      BY <1>2, <2>2, MaxIn
    <3>2. QED
      BY <2>2, <3>1 DEF SplitFold, OneStep
  <2>3. QED
    BY <2>1, <2>2
<1> HIDE DEF Step, P
<1>4. \E h : h = [t \in SUBSET DOMAIN P |-> Step(h, t)]
  <2>1. PICK h : SplitsBy(TRUE, s, d, h)
    BY SplitFolds
  <2>2. h = [t \in SUBSET DOMAIN P |-> Step(h, t)]
    BY <1>2, <1>3, <2>1 DEF SplitsBy
  <2>3. QED
    BY <2>2
<1>5. g = [t \in SUBSET DOMAIN P |-> Step(g, t)]
    BY <1>4
<1> HIDE DEF g
<1>6. SplitsBy(TRUE, s, d, g)
    BY <1>2, <1>3, <1>5 DEF SplitsBy
<1>7. GoesTo(TRUE, s, d, g[1..Len(s)])
    BY <1>6, SplitGoes, Zenon
<1>8. QED
    BY <1>1, <1>2, <1>7, Zenon

\* Where split_bytes goes on, of the first k positions: at the start or behind a
\* delimiter.
GoesOn(s, d, next, k) == next = 1 \/ \E i \in 1..k : At(s, d, i) /\ next = Past(d, i)

LEMMA GoesOnLater ==
    ASSUME NEW s, NEW d, NEW next, NEW k \in Nat, GoesOn(s, d, next, k)
    PROVE  GoesOn(s, d, next, k + 1)
<1>1. \A i \in 1..k : i \in 1..(k + 1)
    OBVIOUS
<1>2. QED
    BY <1>1 DEF GoesOn

\* split_bytes, which goes on behind a delimiter, and split_bytes_arena, which looks
\* at every position, take every body apart at the same places, whatever it and the
\* delimiter are, if no two delimiters in it overlap (bytes.rs:143, 204).
THEOREM SplitsAgree ==
    ASSUME NEW B, NEW s \in Seq(B), NEW d \in Seq(B), d # <<>>,
           Len(s) >= Len(d), Apart(s, d)
    PROVE  SplitBytes(s, d) = SplitBytesArena(s, d)
<1>1. PICK f : Splits(FALSE, s, d, f) /\ FoldOf(s, d) = f[Len(s)]
    BY SplitOf DEF GoesTo
<1>2. PICK g : Splits(TRUE, s, d, g) /\ FoldOfArena(s, d) = g[Len(s)]
    BY SplitArenaOf DEF GoesTo
<1>3. Len(s) \in Nat
    BY LenProperties
<1> DEFINE Same(k) ==
              /\ f[k] \in Pieces(B) /\ g[k] \in Pieces(B)
              /\ f[k].start = g[k].start /\ f[k].pieces = g[k].pieces
              /\ GoesOn(s, d, f[k].next, k)
           Good == {k \in Nat : k <= Len(s) => Same(k)}
<1>4. 0 \in Good
  <2>1. Nothing \in Pieces(B) /\ Nothing.next = 1
    BY EmptySeq DEF Nothing, Pieces
  <2>2. f[0] = Nothing /\ g[0] = Nothing
    BY <1>1, <1>2 DEF Splits
  <2>3. QED
    BY <2>1, <2>2 DEF GoesOn
<1>5. ASSUME NEW k \in Nat, k \in Good PROVE k + 1 \in Good
  <2> SUFFICES ASSUME k + 1 <= Len(s) PROVE Same(k + 1)
    OBVIOUS
  <2>1. Same(k) /\ k + 1 \in 1..Len(s) /\ (k + 1) - 1 = k
    BY <1>3, <1>5
  <2>2. /\ f[k + 1] = OneStep(FALSE, s, d, f[k], k + 1)
        /\ g[k + 1] = OneStep(TRUE, s, d, g[k], k + 1)
    BY <1>1, <1>2, <2>1 DEF Splits
  <2>3. /\ f[k + 1] = SplitStep(f[k], s, d, k + 1)
        /\ g[k + 1] = SplitStepArena(g[k], s, d, k + 1)
    BY <2>2 DEF OneStep
  <2>4. f[k + 1] \in Pieces(B) /\ g[k + 1] \in Pieces(B)
    BY <2>2, <2>1, OneStepType
  <2>5. CASE At(s, d, k + 1)
    <3>1. f[k].next <= k + 1
      <4>1. CASE f[k].next = 1
        BY <4>1
      <4>2. ASSUME NEW i \in 1..k, At(s, d, i), f[k].next = Past(d, i)
            PROVE  f[k].next <= k + 1
        <5>1. i \in 1..Len(s) /\ i < k + 1
          BY <1>3, <2>1
        <5>2. QED
          BY <2>1, <2>5, <4>2, <5>1 DEF Apart
      <4>3. GoesOn(s, d, f[k].next, k)
        BY <2>1
      <4>4. QED
        BY <4>1, <4>2, <4>3 DEF GoesOn
    <3>2. /\ f[k + 1].start = Past(d, k + 1)
          /\ f[k + 1].next = Past(d, k + 1)
          /\ f[k + 1].pieces = Added(f[k].pieces, s, f[k].start, (k + 1) - 1)
      BY <2>3, <2>5, <3>1 DEF SplitStep
    <3>3. /\ g[k + 1].start = Past(d, k + 1)
          /\ g[k + 1].pieces = Added(g[k].pieces, s, g[k].start, (k + 1) - 1)
      BY <2>1, <2>3, <2>5 DEF SplitStepArena, Pieces
    <3>4. GoesOn(s, d, Past(d, k + 1), k + 1)
      <4>1. k + 1 \in 1..(k + 1)
        OBVIOUS
      <4>2. QED
        BY <2>5, <4>1 DEF GoesOn
    <3>5. QED
      BY <2>1, <2>4, <2>5, <3>2, <3>3, <3>4
  <2>6. CASE ~At(s, d, k + 1)
    <3>1. f[k + 1] = f[k] /\ g[k + 1] = g[k]
      BY <2>3, <2>6 DEF SplitStep, SplitStepArena
    <3>2. GoesOn(s, d, f[k + 1].next, k + 1)
      BY <2>1, <3>1, GoesOnLater
    <3>3. QED
      BY <2>1, <2>4, <3>1, <3>2
  <2>7. QED
    BY <2>5, <2>6
<1>6. Same(Len(s))
  <2> HIDE DEF Same
  <2>1. Nat \subseteq Good
    <3> HIDE DEF Good
    <3>1. QED
      BY <1>4, <1>5, AllOf
  <2>2. QED
    BY <1>3, <2>1
<1>7. WithLast(f[Len(s)], s) = WithLast(g[Len(s)], s)
    BY <1>6 DEF WithLast
<1>8. SplitBytesArena(s, d) = WithLast(g[Len(s)], s)
    BY <1>2 DEF SplitBytesArena, FoldOfArena
<1>9. SplitBytes(s, d) = WithLast(f[Len(s)], s)
  <2>1. Len(d) \in Nat /\ ~(Len(s) < Len(d))
    BY <1>3, LenProperties
  <2>2. QED
    BY <1>1, <2>1 DEF SplitBytes, FoldOf
<1>10. QED
    BY <1>7, <1>8, <1>9
=============================================================================
