------------------------- MODULE ResponseWriterProofs -------------------------
(***************************************************************************)
(* Proofs about Writer, ArenaWriter and responser, for all sizes of        *)
(* headers, texts, files and reads: whatever the socket takes at a time,   *)
(* the response goes out once and in order, whole when it is said to be,   *)
(* of what was set, and not at all when an error is reported.              *)
(***************************************************************************)
EXTENDS ResponseWriter, FiniteSetTheorems, SequenceTheorems, TLAPS

\* What a response sends after its header.
Kind == IF SendsBytes THEN "bytes" ELSE IF writer.use_file THEN "file" ELSE "text"

\* The byte at a place of a response of this kind.
Out(kind, i) == IF i <= HeadSize THEN <<"head", i>> ELSE <<kind, i - HeadSize>>

\* The bytes s are those of the response after the first at.
Follows(kind, s, at) == \A i \in 1..Len(s) : s[i] = Out(kind, at + i)

\* A send is of one slice, or of a header and a content.
Batch   == {c \in Seq(Seq(Byte)) : Len(c) = 1 \/ Len(c) = 2}
Flat(c) == IF Len(c) = 1 THEN c[1] ELSE c[1] \o c[2]

\* The sends t are of the bytes of the response after the first at, up to end.
Plan(kind, t, at, end) ==
    \/ t = <<>> /\ end = at
    \/ \E c \in Batch : /\ t = <<c>> /\ Follows(kind, Flat(c), at)
                        /\ end = at + Len(Flat(c))
    \/ \E c, d \in Batch : /\ t = <<c, d>> /\ Follows(kind, Flat(c), at)
                           /\ Follows(kind, Flat(d), at + Len(Flat(c)))
                           /\ end = at + Len(Flat(c)) + Len(Flat(d))

\* Where the send under way begins.
Base == Len(wire) - written

\* The sends to come end where the response does, or where the reading of the
\* open file is.
Covers(end) ==
    /\ ~Streams => announced = None \/ end = HeadSize + announced
    /\ Streams => /\ Kind = "file" /\ end = HeadSize + file.read
                  /\ todo = <<>> \/ Len(todo) = 1
                  /\ ~past.changed => file.read <= file.size
    /\ file.size # Gone /\ ~past.changed => announced = file.size

\* The types of what the sends do not change.
FieldsOK ==
    /\ writer \in [arena: BOOLEAN, vectored: BOOLEAN, body: {"text", "path", "marker"},
                   len: TextSizes \cup {0}, bytes: TextSizes \cup {0}, use_file: BOOLEAN,
                   odd: {"none", "content-type", "other"}]
    /\ disk \in FileSizes \cup {Gone}
    /\ pc \in {"handler", "send", "ok", "err", "dropped"}
    /\ file \in [size: FileSizes \cup {Gone}, read: Nat, linked: BOOLEAN, mapped: BOOLEAN]
    /\ announced \in Nat \cup {None} /\ peer \in {"reads", "stalls", "gone"}
    /\ past \in [sets: 0..MaxSets, last: {"text", "file"}, filed: BOOLEAN,
                 changed: BOOLEAN]
    /\ file.linked \/ file.mapped => file.size # Gone

\* What a handler has set is remembered as it is set.
HandlerInv ==
    /\ writer.body = "text" <=> past.last = "text"
    /\ past.filed <=> writer.use_file
    /\ writer.body # "text" => writer.use_file
    /\ writer.arena => writer.bytes = 0
    /\ pc = "handler" => /\ todo = <<>> /\ written = 0 /\ wire = <<>> /\ announced = None
                         /\ file.size = Gone

\* The wire has the first bytes of the response, and the sends go on from there.
SendInv ==
    /\ wire \in Seq(Byte) /\ Follows(Kind, wire, 0)
    /\ Base \in Nat
    /\ written \in 0..(IF todo = <<>> THEN 0 ELSE Len(Flat(todo[1])))
    /\ \E end \in Nat : Plan(Kind, todo, Base, end) /\ (pc = "send" => Covers(end))

\* A text after a file, which is taken for the path of one, sends nothing.
StaleInv ==
    pc # "handler" /\ writer.use_file /\ writer.body = "text" =>
        wire = <<>> /\ todo = <<>> /\ file.size = Gone

\* The inductive invariant.
WriterInv ==
    /\ FieldsOK /\ HandlerInv /\ SendInv /\ StaleInv
    /\ FailsClean /\ WholeWhenOk

-----------------------------------------------------------------------------
(* What the operators of the sends compute. *)

LEMMA BytesType ==
    ASSUME NEW of \in {"head", "text", "bytes", "file"}, NEW from \in Nat, NEW to \in Nat, from <= to
    PROVE  /\ Bytes(of, from, to) \in Seq(Byte)
           /\ Len(Bytes(of, from, to)) = to - from
           /\ \A i \in 1..(to - from) : Bytes(of, from, to)[i] = <<of, from + i>>
<1> DEFINE n == to - from
           s == [i \in 1..n |-> <<of, from + i>>]
<1>1. n \in Nat
    OBVIOUS
<1>2. \A i \in 1..n : from + i \in Nat \ {0}
    OBVIOUS
<1>3. \A i \in 1..n : <<of, from + i>> \in Byte
    BY <1>2 DEF Byte
<1>4. s \in [1..n -> Byte]
    BY <1>3
<1>5. s \in Seq(Byte) /\ Len(s) = n
    BY <1>1, <1>4
<1>6. Bytes(of, from, to) = s
    BY DEF Bytes
<1>7. \A i \in 1..n : s[i] = <<of, from + i>>
    OBVIOUS
<1>8. QED
    BY <1>5, <1>6, <1>7

LEMMA BatchType ==
    ASSUME NEW c \in Batch
    PROVE  /\ c \in Seq(Seq(Byte)) /\ (Len(c) = 1 \/ Len(c) = 2)
           /\ c[1] \in Seq(Byte)
           /\ Len(c) = 2 => c[2] \in Seq(Byte)
<1>1. c \in Seq(Seq(Byte)) /\ (Len(c) = 1 \/ Len(c) = 2)
    BY DEF Batch
<1>2. c[1] \in Seq(Byte)
    BY <1>1, ElementOfSeq
<1>3. Len(c) = 2 => c[2] \in Seq(Byte)
    BY <1>1, ElementOfSeq
<1>4. QED
    BY <1>1, <1>2, <1>3

LEMMA BatchesAre ==
    ASSUME NEW a \in Seq(Byte), NEW b \in Seq(Byte)
    PROVE  <<a>> \in Batch /\ Flat(<<a>>) = a /\ <<a, b>> \in Batch /\ Flat(<<a, b>>) = a \o b
    BY DEF Batch, Flat

\* A send of one or two slices is these, one after the other.
LEMMA FlatIs ==
    ASSUME NEW c \in Batch
    PROVE  FlattenSeq(c) = Flat(c) /\ Flat(c) \in Seq(Byte)
<1> DEFINE n == Len(c)
           g == CHOOSE g : g = [i \in 1..n |-> IF i = 1 THEN c[i] ELSE g[i - 1] \o c[i]]
           h == [i \in 1..n |-> IF i = 1 THEN c[1] ELSE c[1] \o c[2]]
<1>1. n = 1 \/ n = 2
    BY BatchType
<1>2. /\ 1 \in 1..n /\ 2 - 1 = 1 /\ 2 # 1 /\ (n = 2 => 2 \in 1..n)
      /\ \A i \in 1..n : i = 1 \/ (i = 2 /\ n = 2)
    BY <1>1
<1>3. h = [i \in 1..n |-> IF i = 1 THEN c[i] ELSE h[i - 1] \o c[i]]
  <2>1. h[1] = c[1] /\ (n = 2 => h[2] = c[1] \o c[2])
    <3> HIDE DEF n
    <3>1. QED
      BY <1>2
  <2>2. \A i \in 1..n : h[i] = IF i = 1 THEN c[i] ELSE h[i - 1] \o c[i]
    <3> HIDE DEF h, n
    <3>1. n = 2 => h[2] = h[2 - 1] \o c[2]
      BY <1>2, <2>1
    <3>2. QED
      BY <1>2, <2>1, <3>1
  <2>3. QED
    BY <2>2
<1>4. g = [i \in 1..n |-> IF i = 1 THEN c[i] ELSE g[i - 1] \o c[i]]
    BY <1>3
<1>5. FlattenSeq(c) = g[n]
    BY <1>1 DEF FlattenSeq
<1>6. g[n] = IF n = 1 THEN c[1] ELSE c[1] \o c[2]
  <2> HIDE DEF n, g
  <2>1. \A i \in 1..n : g[i] = IF i = 1 THEN c[i] ELSE g[i - 1] \o c[i]
    BY <1>4
  <2>2. g[1] = c[1]
    BY <1>2, <2>1
  <2>3. n = 2 => g[2] = g[2 - 1] \o c[2]
    BY <1>2, <2>1
  <2>4. n = 2 => g[2] = g[1] \o c[2]
    BY <1>2, <2>3
  <2>5. QED
    BY <1>1, <2>2, <2>4
<1>7. Flat(c) \in Seq(Byte)
    BY BatchType, ConcatProperties DEF Flat
<1>8. QED
    BY <1>5, <1>6, <1>7 DEF Flat

\* The one slice of a sequence from m to m.
LEMMA OneOf ==
    ASSUME NEW c \in Seq(Seq(Byte)), NEW m \in 1..Len(c)
    PROVE  SubSeq(c, m, m) = <<c[m]>> /\ FlattenSeq(SubSeq(c, m, m)) = c[m]
<1>1. c[m] \in Seq(Byte) /\ m \in Int
    BY ElementOfSeq
<1>2. /\ SubSeq(c, m, m) \in Seq(Seq(Byte)) /\ Len(SubSeq(c, m, m)) = 1
      /\ SubSeq(c, m, m)[1] = c[m]
  <2>1. \A i \in m..m : c[i] \in Seq(Byte)
    BY <1>1
  <2>2. /\ SubSeq(c, m, m) \in Seq(Seq(Byte))
        /\ Len(SubSeq(c, m, m)) = IF m <= m THEN m - m + 1 ELSE 0
        /\ \A i \in 1..(m - m + 1) : SubSeq(c, m, m)[i] = c[m + i - 1]
    BY <1>1, <2>1, SubSeqProperties
  <2>3. m <= m /\ m - m + 1 = 1 /\ 1 \in 1..(m - m + 1) /\ m + 1 - 1 = m
    BY <1>1
  <2>4. QED
    BY <2>2, <2>3
<1>3. <<c[m]>> \in Batch /\ Flat(<<c[m]>>) = c[m] /\ <<c[m]>> \in Seq(Seq(Byte))
    BY <1>1, BatchesAre DEF Batch
<1>4. SubSeq(c, m, m) = <<c[m]>>
  <2> DEFINE s == SubSeq(c, m, m)
             t == <<c[m]>>
  <2>1. Len(t) = 1 /\ t[1] = c[m]
    OBVIOUS
  <2> HIDE DEF s, t
  <2>2. \A i \in 1..Len(s) : s[i] = t[i]
    BY <1>2, <2>1 DEF s
  <2>3. s = t
    BY <1>2, <1>3, <2>1, <2>2, SeqEqual DEF s, t
  <2>4. QED
    BY <2>3 DEF s, t
<1>5. QED
    BY <1>3, <1>4, FlatIs

LEMMA NoneOf ==
    ASSUME NEW c, NEW m \in Int, NEW n \in Int, n < m
    PROVE  FlattenSeq(SubSeq(c, m, n)) = <<>>
<1>1. SubSeq(c, m, n) = <<>>
    BY SubSeqEmpty
<1>2. FlattenSeq(<<>>) = <<>>
    BY DEF FlattenSeq
<1>3. QED
    BY <1>1, <1>2

\* What is left of a sequence after w of its members.
LEMMA SuffixIs ==
    ASSUME NEW s \in Seq(Byte), NEW w \in 0..Len(s)
    PROVE  LET rest == SubSeq(s, w + 1, Len(s)) IN
           /\ rest \in Seq(Byte) /\ Len(rest) = Len(s) - w
           /\ \A i \in 1..(Len(s) - w) : rest[i] = s[w + i]
<1> DEFINE n == Len(s)
           rest == SubSeq(s, w + 1, n)
<1>1. n \in Nat /\ w \in Nat /\ w <= n
    BY LenProperties
<1>2. \A i \in (w + 1)..n : s[i] \in Byte
    BY <1>1, ElementOfSeq
<1>3. w + 1 \in Int /\ n \in Int /\ n - (w + 1) + 1 = n - w
    BY <1>1
<1>4. /\ rest \in Seq(Byte) /\ Len(rest) = IF w + 1 <= n THEN n - (w + 1) + 1 ELSE 0
      /\ \A i \in 1..(n - (w + 1) + 1) : rest[i] = s[(w + 1) + i - 1]
  <2> HIDE DEF n
  <2>1. QED
    BY <1>2, <1>3, SubSeqProperties
<1>5. \A i \in 1..(n - w) : (w + 1) + i - 1 = w + i
    BY <1>1
<1>6. Len(rest) = n - w
  <2> HIDE DEF n, rest
  <2>1. QED
    BY <1>1, <1>4
<1>7. \A i \in 1..(n - w) : rest[i] = s[w + i]
  <2> HIDE DEF n, rest
  <2>1. QED
    BY <1>3, <1>4, <1>5
<1>8. QED
    BY <1>4, <1>6, <1>7

\* What is left of two slices, when the first is out and when it is not.
LEMMA CutSecond ==
    ASSUME NEW a \in Seq(Byte), NEW b \in Seq(Byte), NEW w \in Nat,
           Len(a) <= w, w < Len(a \o b)
    PROVE  LET rest == SubSeq(b, w - Len(a) + 1, Len(b)) IN
           /\ rest \in Seq(Byte) /\ Len(rest) = Len(a \o b) - w
           /\ \A i \in 1..(Len(a \o b) - w) : rest[i] = (a \o b)[w + i]
<1> DEFINE m == Len(a)
           n == Len(b)
           f == a \o b
           rest == SubSeq(b, w - m + 1, n)
<1>1. m \in Nat /\ n \in Nat
    BY LenProperties
<1>2. /\ Len(f) = m + n
      /\ \A i \in 1..(m + n) : f[i] = IF i <= m THEN a[i] ELSE b[i - m]
    BY ConcatProperties
<1>3. m <= w /\ w < m + n
    BY <1>2
<1>4. w - m \in 0..n
  <2> HIDE DEF m, n
  <2>1. QED
    BY <1>1, <1>3
<1>5. /\ rest \in Seq(Byte) /\ Len(rest) = n - (w - m)
      /\ \A i \in 1..(n - (w - m)) : rest[i] = b[(w - m) + i]
    BY <1>4, SuffixIs
<1>6. ASSUME NEW i \in 1..((m + n) - w) PROVE rest[i] = f[w + i]
  <2> HIDE DEF m, n, f, rest
  <2>1. /\ w + i \in 1..(m + n) /\ ~(w + i <= m)
        /\ (w - m) + i = (w + i) - m /\ i \in 1..(n - (w - m))
    BY <1>1, <1>3
  <2>2. QED
    BY <1>2, <1>5, <2>1
<1>7. n - (w - m) = (m + n) - w
  <2> HIDE DEF m, n
  <2>1. QED
    BY <1>1
<1> HIDE DEF m, n, rest, f
<1>8. rest \in Seq(Byte) /\ Len(rest) = Len(f) - w
    BY <1>2, <1>5, <1>7
<1>9. \A i \in 1..(Len(f) - w) : rest[i] = f[w + i]
    BY <1>2, <1>6
<1>10. QED
    BY <1>8, <1>9 DEF m, n, rest, f

LEMMA CutFirst ==
    ASSUME NEW a \in Seq(Byte), NEW b \in Seq(Byte), NEW w \in Nat, w < Len(a)
    PROVE  LET rest == SubSeq(a, w + 1, Len(a)) \o b IN
           /\ rest \in Seq(Byte) /\ Len(rest) = Len(a \o b) - w
           /\ \A i \in 1..(Len(a \o b) - w) : rest[i] = (a \o b)[w + i]
<1> DEFINE m == Len(a)
           n == Len(b)
           f == a \o b
           s == SubSeq(a, w + 1, m)
           rest == s \o b
<1>1. m \in Nat /\ n \in Nat /\ w < m
    BY LenProperties
<1>2. /\ Len(f) = m + n
      /\ \A i \in 1..(m + n) : f[i] = IF i <= m THEN a[i] ELSE b[i - m]
    BY ConcatProperties
<1>3. /\ s \in Seq(Byte) /\ Len(s) = m - w
      /\ \A i \in 1..(m - w) : s[i] = a[w + i]
  <2>1. w \in 0..m
    <3> HIDE DEF m
    <3>1. QED
      BY <1>1
  <2>2. QED
    BY <2>1, SuffixIs
<1>4. /\ rest \in Seq(Byte) /\ Len(rest) = Len(s) + n
      /\ \A i \in 1..(Len(s) + n) : rest[i] = IF i <= Len(s) THEN s[i] ELSE b[i - Len(s)]
  <2> HIDE DEF s
  <2>1. QED
    BY <1>3, ConcatProperties
<1> HIDE DEF m, n, s, f, rest
<1>5. /\ Len(rest) = (m - w) + n
      /\ \A i \in 1..((m - w) + n) : rest[i] = IF i <= m - w THEN s[i] ELSE b[i - (m - w)]
    BY <1>3, <1>4
<1>6. ASSUME NEW i \in 1..((m + n) - w) PROVE rest[i] = f[w + i]
  <2>1. /\ w + i \in 1..(m + n) /\ i \in 1..((m - w) + n)
        /\ i - (m - w) = (w + i) - m
    BY <1>1
  <2>2. CASE i <= m - w
    <3>1. w + i <= m /\ i \in 1..(m - w)
      BY <1>1, <2>2
    <3>2. QED
      BY <1>2, <1>3, <1>5, <2>1, <2>2, <3>1
  <2>3. CASE ~(i <= m - w)
    <3>1. ~(w + i <= m)
      BY <1>1, <2>3
    <3>2. QED
      BY <1>2, <1>5, <2>1, <2>3, <3>1
  <2>4. QED
    BY <2>2, <2>3
<1>7. (m - w) + n = (m + n) - w
    BY <1>1
<1>8. rest \in Seq(Byte) /\ Len(rest) = Len(f) - w
    BY <1>2, <1>4, <1>5, <1>7
<1>9. \A i \in 1..(Len(f) - w) : rest[i] = f[w + i]
    BY <1>2, <1>6
<1>10. QED
    BY <1>8, <1>9 DEF m, n, rest, s, f

\* send_vectored_generic goes on with the byte after those that are written.
LEMMA RestIs ==
    ASSUME NEW c \in Batch, NEW w \in Nat, w < Len(Flat(c))
    PROVE  /\ Rest(c, w) \in Seq(Byte)
           /\ Len(Rest(c, w)) = Len(Flat(c)) - w
           /\ \A i \in 1..(Len(Flat(c)) - w) : Rest(c, w)[i] = Flat(c)[w + i]
<1> DEFINE Upto(j) == Len(FlattenSeq(SubSeq(c, 1, j)))
           K == {j \in 1..Len(c) : Upto(j) <= w}
           k == Cardinality(K)
           R(j) == IF j = Len(c) THEN <<>>
                   ELSE SubSeq(c[j + 1], w - Upto(j) + 1, Len(c[j + 1]))
                           \o FlattenSeq(SubSeq(c, j + 2, Len(c)))
           a == c[1]
           b == c[2]
<1>1. /\ c \in Seq(Seq(Byte)) /\ a \in Seq(Byte) /\ Len(a) \in Nat
      /\ Len(c) = 1 \/ Len(c) = 2
    BY BatchType, LenProperties
<1>2. Rest(c, w) = R(k)
    BY DEF Rest
<1>3. Upto(0) = 0 /\ Upto(1) = Len(a)
  <2>1. FlattenSeq(SubSeq(c, 1, 0)) = <<>>
    BY NoneOf
  <2>2. FlattenSeq(SubSeq(c, 1, 1)) = a
    BY <1>1, OneOf
  <2>3. QED
    BY <2>1, <2>2
<1>4. CASE Len(c) = 1
  <2>1. Flat(c) = a /\ w < Len(a)
    BY <1>4 DEF Flat
  <2>2. K = {}
    BY <1>3, <1>4, <2>1, <1>1
  <2>3. k = 0
    BY <2>2, FS_EmptySet
  <2>4. FlattenSeq(SubSeq(c, 2, 1)) = <<>>
    BY NoneOf
  <2> HIDE DEF Upto
  <2>5. R(0) = SubSeq(a, w + 1, Len(a)) \o <<>>
    BY <1>3, <1>4, <2>4
  <2>6. w \in 0..Len(a)
    BY <1>1, <2>1
  <2>7. Rest(c, w) = SubSeq(a, w + 1, Len(a))
    <3> HIDE DEF R, k
    <3>1. QED
      BY <1>1, <1>2, <2>3, <2>5, <2>6, SuffixIs, ConcatEmptySeq
  <2>8. QED
    BY <1>1, <2>1, <2>6, <2>7, SuffixIs
<1>5. CASE Len(c) = 2
  <2>1. Flat(c) = a \o b /\ b \in Seq(Byte) /\ Len(b) \in Nat
    BY <1>5, BatchType, LenProperties DEF Flat
  <2>2. Upto(2) = Len(a \o b)
    <3>1. SubSeq(c, 1, 2) = c
      BY <1>1, <1>5, SubSeqFull
    <3>2. QED
      BY <3>1, <2>1, FlatIs
  <2>3. w < Len(a \o b) /\ Len(a \o b) \in Nat
    <3>1. a \o b \in Seq(Byte)
      BY <1>1, <2>1, ConcatProperties
    <3>2. Len(a \o b) \in Nat
      BY <3>1, LenProperties
    <3>3. QED
      BY <2>1, <3>2
  <2>4. K = IF Len(a) <= w THEN {1} ELSE {}
    <3>1. 1..Len(c) = {1, 2}
      BY <1>5
    <3> HIDE DEF Upto
    <3>2. ~(Upto(2) <= w)
      <4> DEFINE f == Len(a \o b)
      <4>1. w < f /\ f \in Nat
        BY <2>3
      <4>2. Upto(2) = f
        BY <2>2
      <4> HIDE DEF f
      <4>3. QED
        BY <4>1, <4>2
    <3>3. QED
      BY <1>3, <3>1, <3>2
  <2>5. CASE Len(a) <= w
    <3>1. k = 1
      BY <2>4, <2>5, FS_Singleton
    <3>2. FlattenSeq(SubSeq(c, 3, 2)) = <<>>
      BY NoneOf
    <3> DEFINE s == SubSeq(b, w - Len(a) + 1, Len(b))
    <3>3. /\ s \in Seq(Byte) /\ Len(s) = Len(a \o b) - w
          /\ \A i \in 1..(Len(a \o b) - w) : s[i] = (a \o b)[w + i]
      BY <1>1, <2>1, <2>3, <2>5, CutSecond
    <3> HIDE DEF Upto
    <3>4. R(1) = s \o <<>>
      <4>1. R(1) = SubSeq(c[2], w - Upto(1) + 1, Len(c[2])) \o FlattenSeq(SubSeq(c, 3, 2))
        BY <1>5
      <4>2. QED
        BY <1>3, <3>2, <4>1, Zenon
    <3> HIDE DEF s, R, k
    <3>5. Rest(c, w) = s
      BY <1>2, <3>1, <3>3, <3>4, ConcatEmptySeq
    <3>6. QED
      BY <2>1, <3>3, <3>5
  <2>6. CASE ~(Len(a) <= w)
    <3>1. k = 0
      BY <2>4, <2>6, FS_EmptySet
    <3>2. FlattenSeq(SubSeq(c, 2, 2)) = b
      <4>1. 2 \in 1..Len(c)
        BY <1>5
      <4>2. QED
        BY <1>1, <4>1, OneOf
    <3> DEFINE s == SubSeq(a, w + 1, Len(a)) \o b
    <3>3. w < Len(a)
      BY <1>1, <2>6
    <3>4. /\ s \in Seq(Byte) /\ Len(s) = Len(a \o b) - w
          /\ \A i \in 1..(Len(a \o b) - w) : s[i] = (a \o b)[w + i]
      BY <1>1, <2>1, <3>3, CutFirst
    <3> HIDE DEF Upto
    <3>5. R(0) = s
      <4>1. R(0) = SubSeq(c[1], w - Upto(0) + 1, Len(c[1])) \o FlattenSeq(SubSeq(c, 2, 2))
        BY <1>5
      <4>2. w - 0 + 1 = w + 1
        OBVIOUS
      <4>3. QED
        BY <1>3, <3>2, <4>1, <4>2, Zenon
    <3> HIDE DEF s, R, k
    <3>6. Rest(c, w) = s
      BY <1>2, <3>1, <3>5
    <3>7. QED
      BY <2>1, <3>4, <3>6
  <2>7. QED
    BY <2>5, <2>6
<1>6. QED
    BY <1>1, <1>4, <1>5

-----------------------------------------------------------------------------
(* Fields, and what handlers set. *)

LEMMA Sizes ==
    ASSUME WriterAssumption
    PROVE  /\ HeadSize \in Nat /\ HeadSize > 0 /\ ReadSize \in Nat /\ ReadSize > 0
           /\ FileSizes \subseteq Nat /\ TextSizes \cup {0} \subseteq Nat
           /\ None \notin Nat /\ Gone \notin FileSizes
<1>1. HeadSize \in Nat /\ HeadSize > 0 /\ ReadSize \in Nat /\ ReadSize > 0
    BY DEF WriterAssumption
<1>2. FileSizes \subseteq Nat /\ TextSizes \cup {0} \subseteq Nat /\ None \notin Nat
    BY DEF WriterAssumption, None
<1>3. Gone \notin Nat
    BY Zenon DEF WriterAssumption
<1>4. QED
    BY <1>1, <1>2, <1>3, Zenon

\* What the fields are, for the steps that read them.
LEMMA Fields ==
    ASSUME WriterAssumption, FieldsOK
    PROVE  /\ writer.len \in Nat /\ writer.bytes \in Nat
           /\ writer.arena \in BOOLEAN /\ writer.use_file \in BOOLEAN
           /\ writer.body \in {"text", "path", "marker"}
           /\ disk # Gone => disk \in Nat
           /\ file.size # Gone => file.size \in Nat
           /\ file.read \in Nat
           /\ announced # None => announced \in Nat
           /\ past.filed \in BOOLEAN /\ past.last \in {"text", "file"}
    BY Sizes DEF FieldsOK

\* The handler's calls.
LEMMA SettersKeepFields ==
    ASSUME WriterAssumption, FieldsOK, HandlerInv,
           (\E n \in TextSizes : SetText(n) \/ SetBytes(n)) \/ SetHeader \/ ResponseFile
    PROVE  /\ FieldsOK' /\ HandlerInv'
           /\ UNCHANGED <<pc, todo, written, file, announced, wire, peer>> /\ pc = "handler"
<1> DEFINE W == [arena: BOOLEAN, vectored: BOOLEAN, body: {"text", "path", "marker"},
                 len: TextSizes \cup {0}, bytes: TextSizes \cup {0}, use_file: BOOLEAN,
                 odd: {"none", "content-type", "other"}]
           P == [sets: 0..MaxSets, last: {"text", "file"}, filed: BOOLEAN, changed: BOOLEAN]
           Others == UNCHANGED <<disk, pc, todo, written, file, announced, wire, peer>>
<1>1. writer \in W /\ past \in P
    BY DEF FieldsOK
<1>2. ASSUME Handler, NEW what \in {"text", "file"}, Set(what)
      PROVE  /\ past' \in P /\ past'.last = what
             /\ past'.filed <=> (past.filed \/ what = "file")
  <2>1. past.sets \in 0..MaxSets /\ MaxSets \in Nat /\ past.sets < MaxSets
    BY <1>1, <1>2 DEF Handler, WriterAssumption
  <2>2. past.sets + 1 \in 0..MaxSets
    BY <2>1
  <2>3. past' = [past EXCEPT !.sets = past.sets + 1, !.last = what,
                             !.filed = past.filed \/ what = "file"]
    BY <1>2 DEF Set
  <2>4. (past.filed \/ what = "file") \in BOOLEAN
    BY <1>1
  <2>5. QED
    BY <1>1, <2>2, <2>3, <2>4
<1>3. ASSUME writer' \in W, past' \in P, pc = "handler", Others
      PROVE  FieldsOK'
    BY <1>3 DEF FieldsOK
<1>4. ASSUME NEW n \in TextSizes, SetText(n)
      PROVE  FieldsOK' /\ HandlerInv'
  <2>1. /\ Handler /\ Set("text") /\ Others
        /\ writer' = [writer EXCEPT !.body = "text", !.len = n]
    BY <1>4 DEF SetText
  <2>2. /\ writer' \in W /\ writer'.body = "text" /\ writer'.use_file = writer.use_file
        /\ writer'.arena = writer.arena /\ writer'.bytes = writer.bytes
    BY <1>1, <2>1
  <2>3. past' \in P /\ past'.last = "text" /\ (past'.filed <=> past.filed)
    BY <1>2, <2>1
  <2> HIDE DEF W, P
  <2>4. QED
    BY <1>3, <2>1, <2>2, <2>3 DEF HandlerInv, Handler
<1>5. ASSUME NEW n \in TextSizes, SetBytes(n)
      PROVE  FieldsOK' /\ HandlerInv'
  <2>1. /\ Handler /\ Set(past.last) /\ Others /\ ~writer.arena
        /\ writer' = [writer EXCEPT !.bytes = n]
    BY <1>5 DEF SetBytes
  <2>2. /\ writer' \in W /\ writer'.body = writer.body
        /\ writer'.use_file = writer.use_file /\ writer'.arena = writer.arena
    BY <1>1, <2>1
  <2>3. past.last \in {"text", "file"} /\ (past.last = "file" => past.filed)
    BY <1>1 DEF HandlerInv
  <2>4. past' \in P /\ past'.last = past.last /\ (past'.filed <=> past.filed)
    BY <1>2, <2>1, <2>3
  <2> HIDE DEF W, P
  <2>5. QED
    BY <1>3, <2>1, <2>2, <2>4 DEF HandlerInv, Handler
<1>6. ASSUME ResponseFile PROVE FieldsOK' /\ HandlerInv'
  <2>1. PICK ok \in BOOLEAN : /\ Handler /\ writer' = FileSet(ok)
                              /\ Set(IF ok THEN "file" ELSE past.last) /\ Others
    BY <1>6 DEF ResponseFile
  <2>2. CASE ok
    <3>1. PICK b \in {"marker", "path"} :
              writer' = [writer EXCEPT !.use_file = TRUE, !.body = b]
      BY <2>1, <2>2 DEF FileSet
    <3>2. /\ writer' \in W /\ writer'.body # "text" /\ writer'.use_file
          /\ writer'.arena = writer.arena /\ writer'.bytes = writer.bytes
      BY <1>1, <3>1
    <3>3. past' \in P /\ past'.last = "file" /\ past'.filed
      BY <1>2, <2>1, <2>2
    <3> HIDE DEF W, P
    <3>4. QED
      BY <1>3, <2>1, <3>2, <3>3 DEF HandlerInv, Handler
  <2>3. CASE ~ok
    <3>1. writer' = writer
      BY <2>1, <2>3 DEF FileSet
    <3>2. past.last \in {"text", "file"} /\ (past.last = "file" => past.filed)
      BY <1>1 DEF HandlerInv
    <3>3. past' \in P /\ past'.last = past.last /\ (past'.filed <=> past.filed)
      BY <1>2, <2>1, <2>3, <3>2
    <3> HIDE DEF W, P
    <3>4. QED
      BY <1>1, <1>3, <2>1, <3>1, <3>3 DEF HandlerInv, Handler
  <2>4. QED
    BY <2>2, <2>3
<1>7. ASSUME SetHeader PROVE FieldsOK' /\ HandlerInv'
  <2>1. PICK h \in {"none", "content-type", "other"} : writer' = [writer EXCEPT !.odd = h]
    BY <1>7 DEF SetHeader
  <2>2. pc = "handler" /\ Others /\ past' = past
    BY <1>7 DEF SetHeader
  <2>3. /\ writer' \in W /\ writer'.body = writer.body /\ writer'.use_file = writer.use_file
        /\ writer'.arena = writer.arena /\ writer'.bytes = writer.bytes
    BY <1>1, <2>1
  <2> HIDE DEF W, P
  <2>4. QED
    BY <1>1, <1>3, <2>2, <2>3 DEF HandlerInv
<1>8. QED
  <2>1. FieldsOK' /\ HandlerInv'
    BY <1>4, <1>5, <1>6, <1>7
  <2>2. pc = "handler" /\ Others
    BY DEF SetText, SetBytes, SetHeader, ResponseFile, Handler
  <2>3. QED
    BY <2>1, <2>2

\* How much ReadFile reads.
ReadLeft == IF file.size > file.read THEN file.size - file.read ELSE 0
ReadNow  == IF ReadLeft < ReadSize THEN ReadLeft ELSE ReadSize

LEMMA ReadIs ==
    ASSUME WriterAssumption, FieldsOK, ReadFile
    PROVE  /\ pc = "send" /\ todo = <<>> /\ Streams /\ file.size # Gone
           /\ ReadNow \in Nat /\ file.read \in Nat /\ file.size \in Nat
           /\ \/ /\ pc' = "ok" /\ UNCHANGED <<todo, file>> /\ file.size <= file.read
              \/ /\ todo' = <<<<Bytes("file", file.read, file.read + ReadNow)>>>>
                 /\ file' = [file EXCEPT !.read = @ + ReadNow]
                 /\ UNCHANGED pc
                 /\ file.read + ReadNow <= file.size
           /\ UNCHANGED <<writer, disk, written, announced, wire, peer, past>>
<1>1. /\ Streams /\ file.size # Gone /\ pc = "send" /\ todo = <<>>
      /\ UNCHANGED <<writer, disk, written, announced, wire, peer, past>>
      /\ IF AtEnd(ReadNow)
         THEN pc' = "ok" /\ UNCHANGED <<todo, file>>
         ELSE /\ todo' = <<<<Bytes("file", file.read, file.read + ReadNow)>>>>
              /\ file' = [file EXCEPT !.read = @ + ReadNow]
              /\ UNCHANGED pc
    BY DEF ReadFile, Streams, ReadLeft, ReadNow
<1>2. file.read \in Nat /\ file.size \in Nat /\ ReadSize \in Nat /\ ReadSize > 0
    BY <1>1, Fields, Sizes
<1>3. ReadNow \in Nat /\ (ReadNow = 0 => file.size <= file.read)
      /\ (ReadNow # 0 => file.read + ReadNow <= file.size)
  <2> DEFINE r == file.read
             z == file.size
  <2>1. ReadNow = IF (IF z > r THEN z - r ELSE 0) < ReadSize
                  THEN (IF z > r THEN z - r ELSE 0) ELSE ReadSize
    BY DEF ReadNow, ReadLeft
  <2>2. r \in Nat /\ z \in Nat
    BY <1>2
  <2> HIDE DEF r, z
  <2>3. ReadNow \in Nat /\ (ReadNow = 0 => z <= r) /\ (ReadNow # 0 => r + ReadNow <= z)
    BY <1>2, <2>1, <2>2
  <2>4. QED
    BY <2>3 DEF r, z
<1>4. QED
    BY <1>1, <1>2, <1>3 DEF AtEnd

\* From responser on, what was set stays.
LEMMA OthersKeepFields ==
    ASSUME WriterAssumption, FieldsOK, HandlerInv,
           Respond \/ Send \/ ReadError \/ Cancel \/ PeerChange
    PROVE  FieldsOK' /\ HandlerInv' /\ writer' = writer
<1> USE DEF FieldsOK, HandlerInv
<1>1. CASE Refuse
    BY <1>1 DEF Refuse
<1>2. CASE (RespondCached \/ RespondFile) /\ ~Refuse
  <2>1. PICK calls : /\ disk # Gone /\ Start(calls, disk) /\ pc = "handler"
                     /\ \/ file' = file
                        \/ \E m \in BOOLEAN :
                            file' = [size |-> disk, read |-> 0, linked |-> TRUE, mapped |-> m]
    BY <1>2 DEF RespondCached, RespondFile
  <2>2. disk \in FileSizes \cup {Gone} /\ disk \in Nat
    BY <2>1, Fields
  <2>3. /\ file' \in [size: FileSizes \cup {Gone}, read: Nat, linked: BOOLEAN, mapped: BOOLEAN]
        /\ file'.size # Gone \/ file' = file
    <3>1. CASE file' = file
      BY <3>1
    <3>2. ASSUME NEW m \in BOOLEAN,
                 file' = [size |-> disk, read |-> 0, linked |-> TRUE, mapped |-> m]
          PROVE  /\ file' \in [size: FileSizes \cup {Gone}, read: Nat, linked: BOOLEAN,
                               mapped: BOOLEAN]
                 /\ file'.size # Gone
      <4> HIDE DEF FieldsOK, HandlerInv
      <4>1. QED
        BY <2>1, <2>2, <3>2
    <3>3. QED
      BY <2>1, <3>1, <3>2
  <2>4. pc' = "send" /\ announced' \in Nat \cup {None}
        /\ UNCHANGED <<writer, disk, peer, past>>
    BY <2>1, <2>2 DEF Start
  <2>5. QED
    BY <2>3, <2>4
<1>3. CASE RespondStale
    BY <1>3 DEF RespondStale, Start, Refuse
<1>4. CASE RespondBytes
    BY <1>4 DEF RespondBytes, Start, Refuse
<1>5. CASE RespondText
    BY <1>5, Fields DEF RespondText, Start, Refuse
<1>6. CASE Write \/ WriteError \/ NextSend \/ Finish
    BY <1>6 DEF Write, WriteError, NextSend, Finish
<1>7. CASE ReadFile
  <2>1. /\ file' = file \/ file' = [file EXCEPT !.read = @ + ReadNow]
        /\ file.read \in Nat /\ ReadNow \in Nat /\ pc' \in {"ok", pc}
        /\ UNCHANGED <<writer, disk, written, announced, wire, peer, past>>
        /\ pc = "send"
    BY <1>7, ReadIs
  <2>2. file.read + ReadNow \in Nat
    BY <2>1
  <2>3. /\ file' \in [size: FileSizes \cup {Gone}, read: Nat, linked: BOOLEAN, mapped: BOOLEAN]
        /\ file'.size = file.size /\ file'.linked = file.linked /\ file'.mapped = file.mapped
    BY <2>1, <2>2
  <2>4. QED
    BY <2>1, <2>3
<1>8. CASE ReadError
  <2>1. /\ pc = "send" /\ pc' = "ok" /\ UNCHANGED <<writer, disk, file, announced, peer>>
        /\ past' = [past EXCEPT !.changed = TRUE]
    BY <1>8 DEF ReadError
  <2>2. /\ past' \in [sets: 0..MaxSets, last: {"text", "file"}, filed: BOOLEAN,
                      changed: BOOLEAN]
        /\ past'.last = past.last /\ past'.filed = past.filed
    BY <2>1
  <2>3. QED
    BY <2>1, <2>2
<1>9. CASE Cancel \/ PeerChange
    BY <1>9 DEF Cancel, PeerChange
<1>10. QED
    BY <1>1, <1>2, <1>3, <1>4, <1>5, <1>6, <1>7, <1>8, <1>9 DEF Respond, Send

LEMMA ChangeKeepsFields ==
    ASSUME WriterAssumption, FieldsOK, HandlerInv, Change
    PROVE  /\ FieldsOK' /\ HandlerInv'
           /\ UNCHANGED <<writer, pc, todo, written, announced, wire, peer>>
           /\ file'.read = file.read /\ (file'.size = Gone <=> file.size = Gone)
           /\ file'.mapped = file.mapped
           /\ (past'.changed \/ (file'.size = file.size /\ ~past.changed))
<1> DEFINE inplace == file.linked /\ disk' # Gone
<1>1. /\ file' = [file EXCEPT !.size = IF inplace THEN disk' ELSE @, !.linked = inplace]
      /\ past' = [past EXCEPT !.changed = @ \/ inplace]
      /\ disk' \in FileSizes \cup {Gone}
      /\ UNCHANGED <<writer, pc, todo, written, announced, wire, peer>>
    BY DEF Change
<1>2. /\ file.linked \in BOOLEAN /\ (file.linked \/ file.mapped => file.size # Gone)
      /\ past.changed \in BOOLEAN /\ inplace \in BOOLEAN
    BY DEF FieldsOK
<1>3. CASE inplace
  <2>1. /\ file \in [size: FileSizes \cup {Gone}, read: Nat, linked: BOOLEAN, mapped: BOOLEAN]
        /\ past \in [sets: 0..MaxSets, last: {"text", "file"}, filed: BOOLEAN,
                     changed: BOOLEAN]
    BY DEF FieldsOK
  <2>2. /\ file' = [file EXCEPT !.size = disk', !.linked = TRUE]
        /\ past' = [past EXCEPT !.changed = TRUE]
    BY <1>1, <1>3, <2>1
  <2>3. /\ file' \in [size: FileSizes \cup {Gone}, read: Nat, linked: BOOLEAN, mapped: BOOLEAN]
        /\ file'.size = disk' /\ file'.read = file.read /\ file'.mapped = file.mapped
    BY <1>1, <2>1, <2>2
  <2>4. /\ past' \in [sets: 0..MaxSets, last: {"text", "file"}, filed: BOOLEAN,
                      changed: BOOLEAN]
        /\ past'.changed /\ past'.last = past.last /\ past'.filed = past.filed
    BY <2>1, <2>2
  <2>5. disk' # Gone /\ file.size # Gone
    BY <1>2, <1>3
  <2>6. FieldsOK'
    BY <1>1, <2>3, <2>4, <2>5 DEF FieldsOK
  <2>7. pc # "handler"
    BY <2>5 DEF HandlerInv
  <2>8. HandlerInv'
    BY <1>1, <2>4, <2>7 DEF HandlerInv
  <2>9. QED
    BY <1>1, <2>3, <2>4, <2>5, <2>6, <2>8
<1>4. CASE ~inplace
  <2>1. file \in [size: FileSizes \cup {Gone}, read: Nat, linked: BOOLEAN, mapped: BOOLEAN]
    BY DEF FieldsOK
  <2>2. file' = [file EXCEPT !.linked = FALSE]
    BY <1>1, <1>4, <2>1
  <2>3. /\ file' \in [size: FileSizes \cup {Gone}, read: Nat, linked: BOOLEAN, mapped: BOOLEAN]
        /\ file'.size = file.size /\ file'.read = file.read /\ file'.linked = FALSE
        /\ file'.mapped = file.mapped
    BY <2>1, <2>2
  <2>4. past \in [sets: 0..MaxSets, last: {"text", "file"}, filed: BOOLEAN,
                  changed: BOOLEAN]
    BY DEF FieldsOK
  <2>5. past' = past
    BY <1>1, <1>2, <1>4, <2>4
  <2>6. FieldsOK'
    BY <1>1, <2>3, <2>5 DEF FieldsOK
  <2>7. HandlerInv'
    BY <1>1, <2>3, <2>5 DEF HandlerInv
  <2>8. QED
    BY <1>1, <1>2, <2>3, <2>5, <2>6, <2>7
<1>5. QED
    BY <1>3, <1>4

-----------------------------------------------------------------------------
(* What responser plans to send. *)

Kinds == {"text", "bytes", "file"}

LEMMA ConcatFollows ==
    ASSUME NEW k, NEW a \in Seq(Byte), NEW b \in Seq(Byte), NEW at \in Nat,
           Follows(k, a, at), Follows(k, b, at + Len(a))
    PROVE  a \o b \in Seq(Byte) /\ Len(a \o b) = Len(a) + Len(b) /\ Follows(k, a \o b, at)
<1> DEFINE m == Len(a)
           n == Len(b)
           f == a \o b
<1>1. m \in Nat /\ n \in Nat
    BY LenProperties
<1>2. /\ f \in Seq(Byte) /\ Len(f) = m + n
      /\ \A i \in 1..(m + n) : f[i] = IF i <= m THEN a[i] ELSE b[i - m]
    BY ConcatProperties
<1>3. /\ \A i \in 1..m : a[i] = Out(k, at + i)
      /\ \A i \in 1..n : b[i] = Out(k, (at + m) + i)
    BY DEF Follows
<1> HIDE DEF m, n, f
<1>4. ASSUME NEW i \in 1..(m + n) PROVE f[i] = Out(k, at + i)
  <2>1. CASE i <= m
    <3>1. i \in 1..m
      BY <1>1, <2>1
    <3>2. QED
      BY <1>2, <1>3, <2>1, <3>1
  <2>2. CASE ~(i <= m)
    <3>1. i - m \in 1..n /\ (at + m) + (i - m) = at + i
      BY <1>1, <2>2
    <3>2. f[i] = b[i - m]
      BY <1>2, <2>2
    <3>3. QED
      BY <1>3, <3>1, <3>2
  <2>3. QED
    BY <2>1, <2>2
<1>5. \A i \in 1..Len(f) : f[i] = Out(k, at + i)
    BY <1>2, <1>4
<1>6. QED
    BY <1>2, <1>5 DEF Follows, m, n, f

LEMMA HeaderFollows ==
    ASSUME WriterAssumption, NEW k
    PROVE  Header \in Seq(Byte) /\ Len(Header) = HeadSize /\ Follows(k, Header, 0)
<1>1. HeadSize \in Nat
    BY Sizes
<1>2. /\ Header \in Seq(Byte) /\ Len(Header) = HeadSize - 0
      /\ \A i \in 1..(HeadSize - 0) : Header[i] = <<"head", 0 + i>>
  <2>1. /\ 0 \in Nat /\ HeadSize \in Nat /\ 0 <= HeadSize
        /\ "head" \in {"head", "text", "bytes", "file"}
    BY <1>1
  <2>2. /\ Bytes("head", 0, HeadSize) \in Seq(Byte)
        /\ Len(Bytes("head", 0, HeadSize)) = HeadSize - 0
        /\ \A i \in 1..(HeadSize - 0) : Bytes("head", 0, HeadSize)[i] = <<"head", 0 + i>>
    BY ONLY <2>1, BytesType, Zenon
  <2>3. QED
    BY <2>2, Zenon DEF Header
<1> DEFINE h == Header
<1> HIDE DEF h
<1>3. Len(h) = HeadSize
    BY <1>1, <1>2 DEF h
<1>4. \A i \in 1..Len(h) : h[i] = Out(k, 0 + i)
    BY <1>1, <1>2, <1>3 DEF h, Out
<1>5. QED
    BY <1>2, <1>3, <1>4 DEF Follows, h

LEMMA ContentFollows ==
    ASSUME WriterAssumption, NEW k \in Kinds, NEW from \in Nat, NEW to \in Nat, from <= to
    PROVE  /\ Bytes(k, from, to) \in Seq(Byte) /\ Len(Bytes(k, from, to)) = to - from
           /\ Follows(k, Bytes(k, from, to), HeadSize + from)
<1> DEFINE s == Bytes(k, from, to)
<1>1. HeadSize \in Nat
    BY Sizes
<1>2. /\ s \in Seq(Byte) /\ Len(s) = to - from
      /\ \A i \in 1..(to - from) : s[i] = <<k, from + i>>
  <2>1. k \in {"head", "text", "bytes", "file"}
    BY DEF Kinds
  <2>2. k \in {"head", "text", "bytes", "file"} /\ from \in Nat /\ to \in Nat /\ from <= to
    BY <2>1
  <2>3. /\ Bytes(k, from, to) \in Seq(Byte)
        /\ Len(Bytes(k, from, to)) = to - from
        /\ \A i \in 1..(to - from) : Bytes(k, from, to)[i] = <<k, from + i>>
    BY ONLY <2>2, BytesType, Zenon
  <2>4. QED
    BY <2>3
<1> HIDE DEF s
<1>3. ASSUME NEW i \in 1..(to - from)
      PROVE  s[i] = Out(k, (HeadSize + from) + i)
  <2>1. ~((HeadSize + from) + i <= HeadSize) /\ (HeadSize + from) + i - HeadSize = from + i
    BY <1>1
  <2>2. QED
    BY <1>2, <2>1 DEF Out
<1>4. QED
    BY <1>2, <1>3 DEF Follows, s

LEMMA WholeFollows ==
    ASSUME WriterAssumption, NEW k \in Kinds, NEW n \in Nat
    PROVE  /\ Bytes(k, 0, n) \in Seq(Byte) /\ Len(Bytes(k, 0, n)) = n
           /\ Follows(k, Bytes(k, 0, n), HeadSize)
<1>1. 0 \in Nat /\ 0 <= n /\ n - 0 = n /\ HeadSize + 0 = HeadSize
    BY Sizes
<1>2. /\ Bytes(k, 0, n) \in Seq(Byte) /\ Len(Bytes(k, 0, n)) = n - 0
      /\ Follows(k, Bytes(k, 0, n), HeadSize + 0)
    BY <1>1, ContentFollows
<1>3. QED
    BY <1>1, <1>2

\* The header and a content, in one slice, in two, or in two sends.
LEMMA PlansAre ==
    ASSUME WriterAssumption, NEW k, NEW data \in Seq(Byte), Follows(k, data, HeadSize)
    PROVE  /\ Plan(k, Both(data), 0, HeadSize + Len(data))
           /\ Plan(k, <<<<Header \o data>>>>, 0, HeadSize + Len(data))
           /\ Plan(k, <<<<Header>>>>, 0, HeadSize)
           /\ HeadSize + Len(data) \in Nat
<1> DEFINE n == Len(data)
           f == Header \o data
<1>1. /\ Header \in Seq(Byte) /\ Len(Header) = HeadSize /\ Follows(k, Header, 0)
      /\ HeadSize \in Nat /\ n \in Nat /\ 0 + HeadSize = HeadSize /\ HeadSize + n \in Nat
    BY HeaderFollows, Sizes, LenProperties
<1>2. f \in Seq(Byte) /\ Len(f) = HeadSize + n /\ Follows(k, f, 0)
  <2>1. Follows(k, data, 0 + Len(Header))
    BY <1>1
  <2>2. QED
    BY <1>1, <2>1, ConcatFollows
<1>3. 0 + (HeadSize + n) = HeadSize + n /\ 0 + HeadSize + n = HeadSize + n
    BY <1>1
<1>4. /\ <<Header>> \in Batch /\ Flat(<<Header>>) = Header
      /\ <<data>> \in Batch /\ Flat(<<data>>) = data
      /\ <<f>> \in Batch /\ Flat(<<f>>) = f
      /\ <<Header, data>> \in Batch /\ Flat(<<Header, data>>) = f
    BY <1>1, <1>2, BatchesAre
<1> HIDE DEF n, f
<1>5. Plan(k, <<<<f>>>>, 0, HeadSize + n)
    BY <1>2, <1>3, <1>4 DEF Plan
<1>6. Plan(k, <<<<Header, data>>>>, 0, HeadSize + n)
    BY <1>2, <1>3, <1>4 DEF Plan
<1>7. Plan(k, <<<<Header>>>>, 0, HeadSize)
    BY <1>1, <1>4 DEF Plan
<1>8. Plan(k, <<<<Header>>, <<data>>>>, 0, HeadSize + n)
  <2>1. /\ Follows(k, Flat(<<Header>>), 0) /\ Follows(k, Flat(<<data>>), 0 + Len(Flat(<<Header>>)))
        /\ HeadSize + n = 0 + Len(Flat(<<Header>>)) + Len(Flat(<<data>>))
    BY <1>1, <1>3, <1>4 DEF n
  <2>2. QED
    BY <1>4, <2>1 DEF Plan
<1>9. QED
    BY <1>1, <1>5, <1>6, <1>7, <1>8 DEF Both, n, f

-----------------------------------------------------------------------------
(* What the steps of responser keep. *)

\* The send that comes next.
LEMMA NextIs ==
    ASSUME SendInv, todo # <<>>
    PROVE  /\ todo[1] \in Batch /\ FlattenSeq(todo[1]) = Flat(todo[1])
           /\ Flat(todo[1]) \in Seq(Byte) /\ Len(Flat(todo[1])) \in Nat
           /\ Follows(Kind, Flat(todo[1]), Base)
           /\ written \in 0..Len(Flat(todo[1]))
<1>1. PICK end \in Nat : Plan(Kind, todo, Base, end)
    BY DEF SendInv
<1>2. todo[1] \in Batch /\ Follows(Kind, Flat(todo[1]), Base)
    BY <1>1 DEF Plan
<1>3. written \in 0..Len(Flat(todo[1]))
    BY DEF SendInv
<1>4. QED
    BY <1>2, <1>3, FlatIs, LenProperties

\* A step that neither plans nor sends.
LEMMA IdleKeepsSends ==
    ASSUME SendInv, UNCHANGED <<writer, todo, written, wire>>,
           pc' = "send" => pc = "send" /\ \A end \in Nat : Covers(end) => Covers(end)'
    PROVE  SendInv'
<1>1. Kind' = Kind /\ Base' = Base
    BY DEF Kind, SendsBytes, Base
<1>2. PICK end \in Nat : Plan(Kind, todo, Base, end) /\ (pc = "send" => Covers(end))
    BY DEF SendInv
<1>3. Plan(Kind', todo', Base', end)
    BY <1>1, <1>2
<1>4. pc' = "send" => Covers(end)'
    BY <1>2
<1>5. /\ wire' \in Seq(Byte) /\ Follows(Kind', wire', 0) /\ Base' \in Nat
      /\ written' \in 0..(IF todo' = <<>> THEN 0 ELSE Len(Flat(todo'[1])))
    BY <1>1 DEF SendInv
<1> HIDE DEF Covers, Plan, Kind, Base
<1>6. QED
    BY <1>3, <1>4, <1>5 DEF SendInv

\* The first plan of responser.
LEMMA StartSends ==
    ASSUME WriterAssumption, FieldsOK, HandlerInv, pc = "handler",
           NEW calls, NEW length, Start(calls, length),
           file' = file \/ (file'.mapped /\ file'.size = length),
           NEW end \in Nat, Plan(Kind, calls, 0, end),
           length = None \/ end = HeadSize + length
    PROVE  SendInv'
<1>1. /\ todo' = calls /\ written' = 0 /\ wire' = <<>> /\ announced' = length
      /\ writer' = writer /\ ~Streams' /\ (file'.size # Gone => file'.size = length)
    BY DEF Start, HandlerInv, Streams
<1>2. Kind' = Kind /\ Base' = 0
  <2>1. Len(<<>>) - 0 = 0
    OBVIOUS
  <2>2. QED
    BY <1>1, <2>1 DEF Kind, SendsBytes, Base
<1>3. Covers(end)'
    BY <1>1 DEF Covers
<1>4. /\ wire' \in Seq(Byte) /\ Follows(Kind', wire', 0) /\ Base' \in Nat
  <2>1. <<>> \in Seq(Byte) /\ Follows(Kind', <<>>, 0)
    BY DEF Follows
  <2>2. QED
    BY <1>1, <1>2, <2>1
<1>5. written' \in 0..(IF todo' = <<>> THEN 0 ELSE Len(Flat(todo'[1])))
  <2>1. CASE calls = <<>>
    BY <1>1, <2>1
  <2>2. CASE calls # <<>>
    <3>1. calls[1] \in Batch
      BY <2>2 DEF Plan
    <3>2. Len(Flat(calls[1])) \in Nat
      BY <3>1, FlatIs, LenProperties
    <3>3. QED
      BY <1>1, <2>2, <3>2
  <2>3. QED
    BY <2>1, <2>2
<1>6. Plan(Kind', todo', Base', end)
    BY <1>1, <1>2
<1> HIDE DEF Covers, Plan, Kind, Base
<1>7. QED
    BY <1>3, <1>4, <1>5, <1>6 DEF SendInv

\* The socket takes the bytes that follow those it has.
LEMMA WriteSends ==
    ASSUME SendInv, Write
    PROVE  SendInv' /\ todo # <<>> /\ pc' = "send"
<1> DEFINE c == todo[1]
           l == Len(Flat(c))
           rest == Rest(c, written)
<1>1. /\ pc = "send" /\ todo # <<>> /\ ~Sent(c)
      /\ UNCHANGED <<writer, disk, pc, todo, file, announced, peer, past>>
    BY DEF Write
<1>2. /\ c \in Batch /\ FlattenSeq(c) = Flat(c) /\ Flat(c) \in Seq(Byte) /\ l \in Nat
      /\ Follows(Kind, Flat(c), Base) /\ written \in 0..l
    BY <1>1, NextIs
<1>3. written \in Nat /\ written < l
    BY <1>1, <1>2 DEF Sent
<1>4. /\ rest \in Seq(Byte) /\ Len(rest) = l - written
      /\ \A i \in 1..(l - written) : rest[i] = Flat(c)[written + i]
    BY <1>2, <1>3, RestIs
<1>5. PICK n \in 1..Len(rest) : wire' = wire \o SubSeq(rest, 1, n) /\ written' = written + n
    BY DEF Write
<1> DEFINE s == SubSeq(rest, 1, n)
           f == Flat(c)
<1>6. n \in Nat /\ n \in 1..(l - written) /\ \A i \in 1..n : i \in 1..(l - written)
  <2> HIDE DEF l, rest
  <2>1. n \in 1..(l - written)
    BY <1>4, <1>5
  <2>2. QED
    BY <1>2, <1>3, <2>1
<1>7. s \in Seq(Byte) /\ Len(s) = n /\ \A i \in 1..n : s[i] = rest[i]
  <2> HIDE DEF rest, l
  <2>1. \A i \in 1..n : rest[i] \in Byte
    BY <1>4, <1>6, ElementOfSeq
  <2>2. 1 \in Int /\ n \in Int /\ 1 <= n /\ n - 1 + 1 = n /\ \A i \in 1..n : 1 + i - 1 = i
    BY <1>6
  <2>3. /\ s \in Seq(Byte) /\ Len(s) = IF 1 <= n THEN n - 1 + 1 ELSE 0
        /\ \A i \in 1..(n - 1 + 1) : s[i] = rest[1 + i - 1]
    BY <2>1, <2>2, SubSeqProperties
  <2> HIDE DEF s
  <2>4. QED
    BY <2>2, <2>3
<1>8. /\ wire \in Seq(Byte) /\ Follows(Kind, wire, 0) /\ Base \in Nat /\ Len(wire) \in Nat
      /\ Base = Len(wire) - written
    BY LenProperties DEF SendInv, Base
<1>9. Follows(Kind, s, 0 + Len(wire))
  <2> HIDE DEF s, f, l, rest, Base
  <2>1. \A i \in 1..l : f[i] = Out(Kind, Base + i)
    BY <1>2 DEF Follows, f, l
  <2>2. ASSUME NEW i \in 1..n PROVE s[i] = Out(Kind, (0 + Len(wire)) + i)
    <3>1. /\ written + i \in 1..l /\ Base + (written + i) = (0 + Len(wire)) + i
          /\ i \in 1..(l - written)
      BY <1>2, <1>3, <1>6, <1>8
    <3>2. s[i] = f[written + i]
      BY <1>4, <1>7, <3>1 DEF f
    <3>3. QED
      BY <2>1, <3>1, <3>2
  <2>3. QED
    BY <1>7, <2>2 DEF Follows
<1>10. wire' \in Seq(Byte) /\ Len(wire') = Len(wire) + n /\ Follows(Kind, wire', 0)
  <2> HIDE DEF s
  <2>1. wire' = wire \o s
    BY <1>5 DEF s
  <2>2. QED
    BY <1>7, <1>8, <1>9, <2>1, ConcatFollows
<1>11. Kind' = Kind /\ Base' = Base
  <2>1. Kind' = Kind
    BY <1>1 DEF Kind, SendsBytes
  <2>2. Base' = (Len(wire) + n) - (written + n)
    BY <1>5, <1>10 DEF Base
  <2>3. (Len(wire) + n) - (written + n) = Len(wire) - written
    BY <1>3, <1>6, <1>8
  <2>4. QED
    BY <1>8, <2>1, <2>2, <2>3
<1>12. written' \in 0..(IF todo' = <<>> THEN 0 ELSE Len(Flat(todo'[1])))
  <2>1. written' \in 0..l
    <3> HIDE DEF l, rest
    <3>1. QED
      BY <1>2, <1>3, <1>5, <1>6
  <2>2. QED
    BY <1>1, <2>1
<1>13. PICK end \in Nat : Plan(Kind, todo, Base, end) /\ (pc = "send" => Covers(end))
    BY DEF SendInv
<1>14. Covers(end)'
    BY <1>1, <1>11, <1>13 DEF Covers, Streams
<1>15. Plan(Kind', todo', Base', end)
    BY <1>1, <1>11, <1>13
<1>16. wire' \in Seq(Byte) /\ Follows(Kind', wire', 0) /\ Base' \in Nat
    BY <1>8, <1>10, <1>11
<1> HIDE DEF Covers, Plan, Kind, Base
<1>17. QED
    BY <1>1, <1>12, <1>14, <1>15, <1>16 DEF SendInv

\* The next send follows the one that is out.
LEMMA NextSendSends ==
    ASSUME SendInv, NextSend
    PROVE  SendInv' /\ pc' = "send"
<1>1. /\ pc = "send" /\ todo # <<>> /\ Sent(todo[1]) /\ todo' = Tail(todo) /\ written' = 0
      /\ UNCHANGED <<writer, pc, file, announced, wire, past>>
    BY DEF NextSend
<1>2. PICK end \in Nat : Plan(Kind, todo, Base, end) /\ Covers(end)
    BY <1>1 DEF SendInv
<1>3. /\ written \in Nat /\ written = Len(Flat(todo[1])) /\ Len(Flat(todo[1])) \in Nat
  <2>1. /\ FlattenSeq(todo[1]) = Flat(todo[1]) /\ Len(Flat(todo[1])) \in Nat
        /\ written \in 0..Len(Flat(todo[1]))
    BY <1>1, NextIs
  <2>2. QED
    BY <1>1, <2>1 DEF Sent
<1>4. Base \in Nat /\ Len(wire) \in Nat /\ Base = Len(wire) - written
    BY LenProperties DEF SendInv, Base
<1>5. /\ Kind' = Kind /\ Base' = Base + Len(Flat(todo[1])) /\ Base' \in Nat
  <2>1. Kind' = Kind /\ Base' = Len(wire) - 0
    BY <1>1 DEF Kind, SendsBytes, Base
  <2>2. Len(wire) - 0 = Base + written /\ Base + written \in Nat
    BY <1>3, <1>4
  <2>3. QED
    BY <1>3, <2>1, <2>2
<1>6. /\ Plan(Kind, Tail(todo), Base + Len(Flat(todo[1])), end)
      /\ Tail(todo) = <<>> \/ Len(Tail(todo)) = 1
      /\ Tail(todo) # <<>> => Tail(todo)[1] \in Batch
  <2>1. CASE \E c \in Batch : todo = <<c>> /\ end = Base + Len(Flat(c))
    <3>1. PICK c \in Batch : todo = <<c>> /\ end = Base + Len(Flat(c))
      BY <2>1
    <3>2. Tail(todo) = <<>> /\ todo[1] = c
      BY <3>1
    <3>3. QED
      BY <3>1, <3>2 DEF Plan
  <2>2. CASE \E c, d \in Batch : /\ todo = <<c, d>>
                                 /\ Follows(Kind, Flat(d), Base + Len(Flat(c)))
                                 /\ end = Base + Len(Flat(c)) + Len(Flat(d))
    <3>1. PICK c, d \in Batch : /\ todo = <<c, d>>
                                /\ Follows(Kind, Flat(d), Base + Len(Flat(c)))
                                /\ end = Base + Len(Flat(c)) + Len(Flat(d))
      BY <2>2
    <3>2. Tail(todo) = <<d>> /\ todo[1] = c
      BY <3>1
    <3>3. Len(Tail(todo)) = 1 /\ Tail(todo)[1] = d
      <4>1. Len(<<d>>) = 1 /\ <<d>>[1] = d
        OBVIOUS
      <4>2. QED
        BY <3>2, <4>1, Zenon
    <3>4. QED
      BY <3>1, <3>2, <3>3 DEF Plan
  <2>3. QED
    BY <1>1, <1>2, <2>1, <2>2 DEF Plan
<1>7. Plan(Kind', todo', Base', end)
    BY <1>1, <1>5, <1>6
<1>8. Covers(end)'
    BY <1>1, <1>2, <1>5, <1>6 DEF Covers, Streams
<1>9. written' \in 0..(IF todo' = <<>> THEN 0 ELSE Len(Flat(todo'[1])))
  <2>1. todo' # <<>> => Len(Flat(todo'[1])) \in Nat
    BY <1>1, <1>6, FlatIs, LenProperties
  <2>2. QED
    BY <1>1, <2>1
<1>10. wire' \in Seq(Byte) /\ Follows(Kind', wire', 0)
    BY <1>1, <1>5 DEF SendInv
<1> HIDE DEF Covers, Plan, Kind, Base
<1>11. QED
    BY <1>1, <1>5, <1>7, <1>8, <1>9, <1>10 DEF SendInv

\* A piece of the file follows those that are out.
LEMMA ReadSends ==
    ASSUME WriterAssumption, FieldsOK, SendInv, ReadFile
    PROVE  SendInv'
<1>1. CASE pc' = "ok" /\ UNCHANGED <<todo, file>>
  <2>1. UNCHANGED <<writer, todo, written, wire>> /\ pc' # "send"
    BY <1>1, ReadIs
  <2>2. QED
    BY <2>1, IdleKeepsSends
<1>2. CASE ~(pc' = "ok" /\ UNCHANGED <<todo, file>>)
  <2> DEFINE n == ReadNow
             r == file.read
             s == Bytes("file", r, r + n)
  <2>1. /\ pc = "send" /\ todo = <<>> /\ Streams /\ file.size # Gone /\ n \in Nat /\ r \in Nat
        /\ todo' = <<<<s>>>> /\ file' = [file EXCEPT !.read = r + n] /\ pc' = pc
        /\ UNCHANGED <<writer, written, announced, wire, past>>
        /\ file.size \in Nat /\ r + n <= file.size
    BY <1>2, ReadIs
  <2>2. PICK end \in Nat : Plan(Kind, todo, Base, end) /\ Covers(end)
    BY <2>1 DEF SendInv
  <2>3. /\ end = Base /\ Kind = "file" /\ end = HeadSize + r
        /\ ~past.changed => announced = file.size
    <3>1. \A c, d : todo # <<c>> /\ todo # <<c, d>>
      BY <2>1
    <3>2. end = Base
      BY <2>2, <3>1 DEF Plan
    <3>3. QED
      BY <2>1, <2>2, <3>2 DEF Covers
  <2>4. s \in Seq(Byte) /\ Len(s) = n /\ Follows("file", s, HeadSize + r)
    <3>1. "file" \in Kinds /\ r \in Nat /\ r + n \in Nat /\ r <= r + n /\ (r + n) - r = n
      BY <2>1 DEF Kinds
    <3> HIDE DEF n, r
    <3>2. /\ s \in Seq(Byte) /\ Len(s) = (r + n) - r /\ Follows("file", s, HeadSize + r)
      BY <3>1, ContentFollows
    <3>3. QED
      BY <3>1, <3>2
  <2>5. <<s>> \in Batch /\ Flat(<<s>>) = s
    BY <2>4, BatchesAre
  <2>6. Kind' = Kind /\ Base' = Base
    BY <2>1 DEF Kind, SendsBytes, Base
  <2>7. PICK next \in Nat : next = end + n /\ next = HeadSize + (r + n)
    <3> HIDE DEF n, r
    <3>1. QED
      BY <2>1, <2>3, Sizes
  <2>8. Plan("file", <<<<s>>>>, end, next)
    <3> HIDE DEF s, n, r
    <3>1. QED
      BY <2>3, <2>4, <2>5, <2>7 DEF Plan
  <2>9. Covers(next)'
    <3>1. /\ file'.size = file.size /\ file'.read = r + n /\ (Streams' <=> Streams)
      <4>1. file \in [size: FileSizes \cup {Gone}, read: Nat, linked: BOOLEAN, mapped: BOOLEAN]
        BY DEF FieldsOK
      <4> HIDE DEF n, r
      <4>2. QED
        BY <2>1, <4>1 DEF Streams
    <3>2. todo' = <<<<s>>>> /\ Len(<<<<s>>>>) = 1
      BY <2>1
    <3> HIDE DEF s, n, r
    <3>3. QED
      BY <2>1, <2>3, <2>6, <2>7, <3>1, <3>2 DEF Covers
  <2>10. written' \in 0..(IF todo' = <<>> THEN 0 ELSE Len(Flat(todo'[1])))
    <3>1. written = 0
      BY <2>1 DEF SendInv
    <3>2. todo'[1] = <<s>> /\ Len(Flat(<<s>>)) = n /\ written' = 0 /\ todo' # <<>>
      BY <2>1, <2>4, <2>5, <3>1
    <3> HIDE DEF s, n, r
    <3>3. QED
      BY <2>1, <3>2
  <2>11. /\ wire' \in Seq(Byte) /\ Follows(Kind', wire', 0) /\ Base' \in Nat
    BY <2>1, <2>6 DEF SendInv
  <2>12. Plan(Kind', todo', Base', next)
    <3> HIDE DEF s, n, r
    <3>1. QED
      BY <2>1, <2>3, <2>6, <2>8
  <2> HIDE DEF Covers, Plan, Kind, Base, n, r, s
  <2>13. QED
    BY <2>7, <2>9, <2>10, <2>11, <2>12 DEF SendInv
<1>3. QED
    BY <1>1, <1>2

\* With nothing left to send, the wire ends where the plan does.
LEMMA DrainedIs ==
    ASSUME SendInv, todo = <<>>, pc = "send"
    PROVE  Len(wire) \in Nat /\ Covers(Len(wire))
<1>1. PICK end \in Nat : Plan(Kind, todo, Base, end) /\ Covers(end)
    BY DEF SendInv
<1>2. \A c, d : todo # <<c>> /\ todo # <<c, d>>
    OBVIOUS
<1>3. end = Base
    BY <1>1, <1>2 DEF Plan
<1>4. written = 0 /\ Len(wire) \in Nat
    BY LenProperties DEF SendInv
<1>5. Base = Len(wire)
    BY <1>4 DEF Base
<1>6. QED
    BY <1>1, <1>3, <1>4, <1>5

\* What can make a response fail before it sends anything.
HasCause == past.filed \/ writer.odd # "none"

\* A write of mapped bytes fails only when the file has been changed since.
LEMMA FaultsWhenCut ==
    ASSUME WriterAssumption, FieldsOK, SendInv, pc = "send", todo # <<>>, ~Sent(todo[1]), Faults
    PROVE  past.changed
<1> DEFINE l == Len(Flat(todo[1]))
<1>1. PICK end \in Nat : Plan(Kind, todo, Base, end) /\ Covers(end)
    BY DEF SendInv
<1>2. /\ FlattenSeq(todo[1]) = Flat(todo[1]) /\ l \in Nat /\ written \in 0..l
    BY NextIs
<1>3. written \in Nat /\ written < l
    BY <1>2 DEF Sent
<1>4. Base \in Nat /\ Len(wire) \in Nat /\ Base = Len(wire) - written
    BY LenProperties DEF SendInv, Base
<1>5. Base + l <= end
  <2>1. CASE \E c \in Batch : todo = <<c>> /\ end = Base + Len(Flat(c))
    <3>1. PICK c \in Batch : todo = <<c>> /\ end = Base + Len(Flat(c))
      BY <2>1
    <3>2. todo[1] = c
      BY <3>1
    <3>3. end = Base + l
      BY <3>1, <3>2
    <3> HIDE DEF l
    <3>4. QED
      BY <3>3
  <2>2. CASE \E c, d \in Batch : todo = <<c, d>> /\ end = Base + Len(Flat(c)) + Len(Flat(d))
    <3>1. PICK c, d \in Batch : todo = <<c, d>> /\ end = Base + Len(Flat(c)) + Len(Flat(d))
      BY <2>2
    <3>2. todo[1] = c /\ Len(Flat(d)) \in Nat
      BY <3>1, FlatIs, LenProperties
    <3>3. end = Base + l + Len(Flat(d))
      BY <3>1, <3>2
    <3> HIDE DEF l
    <3>4. QED
      BY ONLY <1>2, <1>4, <3>2, <3>3
  <2>3. QED
    BY <1>1, <2>1, <2>2 DEF Plan
<1>6. /\ file.mapped /\ file.size # Gone /\ file.size \in Nat /\ HeadSize \in Nat
      /\ Len(wire) >= HeadSize + file.size
    BY Fields, Sizes DEF Faults, FieldsOK
<1>7. ~past.changed => announced = file.size /\ (announced = None \/ end = HeadSize + announced)
    BY <1>1, <1>6 DEF Covers, Streams
<1> HIDE DEF l, Base
<1>8. ~past.changed => end = HeadSize + file.size
    BY <1>6, <1>7 DEF None
<1>9. QED
    BY <1>1, <1>2, <1>3, <1>4, <1>5, <1>6, <1>8

\* responser refuses, or plans what it is to send.
LEMMA RespondSends ==
    ASSUME WriterAssumption, WriterInv, Respond
    PROVE  SendInv' /\ StaleInv' /\ (pc' = "send" \/ (pc' = "err" /\ HasCause))
<1>1. /\ FieldsOK /\ HandlerInv /\ SendInv /\ pc = "handler" /\ todo = <<>> /\ written = 0
      /\ wire = <<>> /\ announced = None /\ file.size = Gone
      /\ writer.use_file => past.filed
    BY DEF WriterInv, HandlerInv, Respond, RespondCached, RespondFile, RespondStale,
           RespondBytes, RespondText
<1>2. /\ writer.len \in Nat /\ writer.bytes \in Nat /\ (disk # Gone => disk \in Nat)
      /\ HeadSize \in Nat
    BY <1>1, Fields, Sizes
<1>3. ASSUME Refuse, writer.use_file \/ writer.odd # "none"
      PROVE  SendInv' /\ StaleInv' /\ pc' = "err" /\ HasCause
  <2>1. UNCHANGED <<writer, todo, written, file, wire>> /\ pc' = "err"
    BY <1>3 DEF Refuse
  <2>2. SendInv'
    BY <1>1, <2>1, IdleKeepsSends
  <2>3. StaleInv'
    BY <1>1, <2>1 DEF StaleInv
  <2>4. QED
    BY <1>1, <1>3, <2>1, <2>2, <2>3 DEF HasCause
<1>4. ASSUME NEW calls, NEW length, Start(calls, length),
             ~(writer.use_file /\ writer.body = "text")
      PROVE  StaleInv' /\ pc' = "send"
    BY <1>4 DEF Start, StaleInv
<1>5. CASE RespondCached
  <2>1. CASE Refuse
    BY <1>3, <1>5, <2>1 DEF RespondCached
  <2>2. CASE ~Refuse
    <3> DEFINE data == Bytes("file", 0, disk)
    <3>1. /\ disk # Gone /\ Start(Both(data), disk)
          /\ file' = file \/ (file'.mapped /\ file'.size = disk)
          /\ writer.use_file /\ writer.body = "marker" /\ ~SendsBytes
      BY <1>5, <2>2 DEF RespondCached
    <3>2. Kind = "file"
      BY <3>1 DEF Kind
    <3>3. data \in Seq(Byte) /\ Len(data) = disk /\ Follows("file", data, HeadSize)
      <4>1. "file" \in Kinds
        BY DEF Kinds
      <4>2. QED
        BY <1>2, <3>1, <4>1, WholeFollows
    <3> HIDE DEF data
    <3>4. Plan(Kind, Both(data), 0, HeadSize + disk) /\ HeadSize + disk \in Nat
      BY <3>2, <3>3, PlansAre
    <3>5. SendInv'
      BY <1>1, <3>1, <3>4, StartSends
    <3>6. StaleInv' /\ pc' = "send"
      BY <1>4, <3>1
    <3>7. QED
      BY <3>5, <3>6
  <2>3. QED
    BY <2>1, <2>2
<1>6. CASE RespondFile
  <2>1. CASE Refuse
    BY <1>3, <1>6, <2>1 DEF RespondFile
  <2>2. CASE ~Refuse
    <3>1. /\ disk # Gone /\ Start(<<<<Header>>>>, disk)
          /\ file' = [size |-> disk, read |-> 0, linked |-> TRUE, mapped |-> FALSE]
          /\ writer.use_file /\ writer.body = "path" /\ ~SendsBytes
      BY <1>6, <2>2 DEF RespondFile
    <3>2. Kind' = "file" /\ Base' = 0
      <4>1. writer' = writer /\ wire' = wire /\ written' = written
        BY <3>1 DEF Start
      <4>2. Len(<<>>) - 0 = 0
        OBVIOUS
      <4>3. QED
        BY <1>1, <3>1, <4>1, <4>2 DEF Kind, SendsBytes, Base
    <3>3. Plan("file", <<<<Header>>>>, 0, HeadSize)
      <4>1. <<>> \in Seq(Byte) /\ Follows("file", <<>>, HeadSize)
        BY DEF Follows
      <4>2. QED
        BY <4>1, PlansAre
    <3>4. Covers(HeadSize)'
      <4>1. /\ file'.size = disk /\ ~file'.mapped /\ file'.read = 0 /\ announced' = disk
            /\ todo' = <<<<Header>>>> /\ Len(<<<<Header>>>>) = 1
        BY <3>1 DEF Start
      <4>2. HeadSize = HeadSize + 0 /\ 0 <= disk
        BY <1>2, <3>1
      <4>3. QED
        BY <3>1, <3>2, <4>1, <4>2 DEF Covers, Streams
    <3>5. /\ wire' \in Seq(Byte) /\ Follows(Kind', wire', 0) /\ Base' \in Nat
      <4>1. wire' = <<>>
        BY <1>1, <3>1 DEF Start
      <4>2. QED
        BY <3>2, <4>1 DEF Follows
    <3>6. written' \in 0..(IF todo' = <<>> THEN 0 ELSE Len(Flat(todo'[1])))
      <4>1. todo' = <<<<Header>>>> /\ written' = 0
        BY <1>1, <3>1 DEF Start
      <4>2. Flat(todo'[1]) = Header /\ Len(Header) = HeadSize /\ todo' # <<>>
        BY <4>1, HeaderFollows, BatchesAre
      <4>3. QED
        BY <1>2, <4>1, <4>2
    <3>7. Plan(Kind', todo', Base', HeadSize)
      BY <3>1, <3>2, <3>3 DEF Start
    <3>8. SendInv'
      <4> HIDE DEF Covers, Plan, Kind, Base
      <4>1. QED
        BY <1>2, <3>4, <3>5, <3>6, <3>7 DEF SendInv
    <3>9. StaleInv' /\ pc' = "send"
      BY <1>4, <3>1
    <3>10. QED
      BY <3>8, <3>9
  <2>3. QED
    BY <2>1, <2>2
<1>7. CASE RespondStale
  <2>1. CASE Refuse
    BY <1>3, <1>7, <2>1 DEF RespondStale
  <2>2. CASE ~Refuse
    <3>1. Start(<<>>, None) /\ file' = file
      BY <1>7, <2>2 DEF RespondStale
    <3>2. Plan(Kind, <<>>, 0, 0)
      BY DEF Plan
    <3>3. SendInv'
      BY <1>1, <3>1, <3>2, StartSends
    <3>4. StaleInv' /\ pc' = "send"
      BY <1>1, <3>1 DEF StaleInv, Start
    <3>5. QED
      BY <3>3, <3>4
  <2>3. QED
    BY <2>1, <2>2
<1>8. CASE RespondBytes
  <2>1. CASE Refuse /\ writer.odd # "none"
    BY <1>3, <2>1
  <2>2. CASE ~(Refuse /\ writer.odd # "none")
    <3> DEFINE data == Bytes("bytes", 0, writer.bytes)
    <3>1. /\ SendsBytes /\ Start(Both(data), None) /\ file' = file
      BY <1>8, <2>2 DEF RespondBytes
    <3>2. Kind = "bytes" /\ ~writer.use_file
      BY <3>1 DEF Kind, SendsBytes
    <3>3. data \in Seq(Byte) /\ Follows("bytes", data, HeadSize)
      <4>1. "bytes" \in Kinds
        BY DEF Kinds
      <4>2. QED
        BY <1>2, <4>1, WholeFollows
    <3> HIDE DEF data
    <3>4. Plan(Kind, Both(data), 0, HeadSize + Len(data)) /\ HeadSize + Len(data) \in Nat
      BY <3>2, <3>3, PlansAre
    <3>5. SendInv'
      BY <1>1, <3>1, <3>4, StartSends
    <3>6. StaleInv' /\ pc' = "send"
      BY <1>4, <3>1, <3>2
    <3>7. QED
      BY <3>5, <3>6
  <2>3. QED
    BY <2>1, <2>2
<1>9. CASE RespondText
  <2>1. CASE Refuse /\ writer.odd # "none"
    BY <1>3, <2>1
  <2>2. CASE ~(Refuse /\ writer.odd # "none")
    <3> DEFINE data == Bytes("text", 0, writer.len)
               calls == IF writer.arena /\ writer.len > 0 THEN Both(data)
                        ELSE <<<<Header \o data>>>>
    <3>1. ~SendsBytes /\ ~writer.use_file /\ Start(calls, writer.len) /\ file' = file
      BY <1>9, <2>2 DEF RespondText
    <3>2. Kind = "text"
      BY <3>1 DEF Kind
    <3>3. data \in Seq(Byte) /\ Len(data) = writer.len /\ Follows("text", data, HeadSize)
      <4>1. "text" \in Kinds
        BY DEF Kinds
      <4>2. QED
        BY <1>2, <4>1, WholeFollows
    <3> HIDE DEF data
    <3>4. Plan(Kind, calls, 0, HeadSize + writer.len) /\ HeadSize + writer.len \in Nat
      BY <3>2, <3>3, PlansAre
    <3> HIDE DEF calls
    <3>5. SendInv'
      BY <1>1, <3>1, <3>4, StartSends
    <3>6. StaleInv' /\ pc' = "send"
      BY <1>4, <3>1
    <3>7. QED
      BY <3>5, <3>6
  <2>3. QED
    BY <2>1, <2>2
<1>10. QED
    BY <1>5, <1>6, <1>7, <1>8, <1>9 DEF Respond

-----------------------------------------------------------------------------
(* The invariant, and the properties it gives. *)

LEMMA InitInv == ASSUME WriterAssumption, Init PROVE WriterInv
<1> USE DEF Init
<1>1. FieldsOK /\ HandlerInv /\ StaleInv /\ FailsClean /\ WholeWhenOk
  <2>1. /\ writer \in [arena: BOOLEAN, vectored: BOOLEAN, body: {"text", "path", "marker"},
                       len: TextSizes \cup {0}, bytes: TextSizes \cup {0}, use_file: BOOLEAN,
                       odd: {"none", "content-type", "other"}]
        /\ writer.body = "text" /\ writer.use_file = FALSE /\ writer.bytes = 0
    OBVIOUS
  <2>2. /\ file \in [size: FileSizes \cup {Gone}, read: Nat, linked: BOOLEAN, mapped: BOOLEAN]
        /\ file.linked = FALSE /\ file.mapped = FALSE /\ file.size = Gone
    OBVIOUS
  <2>3. /\ past \in [sets: 0..MaxSets, last: {"text", "file"}, filed: BOOLEAN,
                     changed: BOOLEAN]
        /\ past.last = "text" /\ past.filed = FALSE
    BY DEF WriterAssumption
  <2>4. FieldsOK
    BY <2>1, <2>2, <2>3 DEF FieldsOK
  <2>5. QED
    BY <2>1, <2>2, <2>3, <2>4 DEF HandlerInv, StaleInv, FailsClean, WholeWhenOk
<1>2. SendInv
  <2>1. wire = <<>> /\ todo = <<>> /\ written = 0 /\ pc = "handler"
    OBVIOUS
  <2>2. wire \in Seq(Byte) /\ Follows(Kind, wire, 0)
    BY <2>1 DEF Follows
  <2>3. Base = 0
    <3>1. Len(<<>>) - 0 = 0
      OBVIOUS
    <3>2. QED
      BY <2>1, <3>1 DEF Base
  <2>4. Plan(Kind, todo, 0, 0)
    BY <2>1 DEF Plan
  <2>5. written \in 0..(IF todo = <<>> THEN 0 ELSE Len(Flat(todo[1])))
    BY <2>1
  <2> HIDE DEF Init, Plan, Base, Kind
  <2>6. QED
    BY <2>1, <2>2, <2>3, <2>4, <2>5 DEF SendInv
<1>3. QED
    BY <1>1, <1>2 DEF WriterInv

LEMMA StepInv ==
    ASSUME WriterAssumption, WriterInv, [Next]_vars
    PROVE  WriterInv'
<1>1. FieldsOK /\ HandlerInv /\ SendInv /\ StaleInv /\ FailsClean /\ WholeWhenOk
    BY DEF WriterInv
<1>2. CASE (\E n \in TextSizes : SetText(n) \/ SetBytes(n)) \/ SetHeader \/ ResponseFile
  <2>1. /\ FieldsOK' /\ HandlerInv' /\ pc = "handler"
        /\ UNCHANGED <<pc, todo, written, file, announced, wire, peer>>
    BY <1>1, <1>2, SettersKeepFields
  <2>2. wire' = <<>> /\ todo' = <<>> /\ written' = 0 /\ pc' = "handler" /\ file'.size = Gone
    BY <1>1, <2>1 DEF HandlerInv
  <2>3. StaleInv' /\ FailsClean' /\ WholeWhenOk'
    BY <2>2 DEF StaleInv, FailsClean, WholeWhenOk
  <2>4. SendInv'
    <3>1. wire' \in Seq(Byte) /\ Follows(Kind', wire', 0) /\ Plan(Kind', todo', 0, 0)
      BY <2>2 DEF Follows, Plan
    <3>2. Len(<<>>) - 0 = 0
      OBVIOUS
    <3>3. Base' = 0
      BY <2>2, <3>2 DEF Base
    <3>4. written' \in 0..(IF todo' = <<>> THEN 0 ELSE Len(Flat(todo'[1])))
      BY <2>2
    <3> HIDE DEF Plan, Base, Kind
    <3>5. QED
      BY <2>2, <3>1, <3>3, <3>4 DEF SendInv
  <2>5. QED
    BY <2>1, <2>3, <2>4 DEF WriterInv
<1>3. CASE Respond \/ Send \/ ReadError \/ Cancel \/ PeerChange
  <2>1. FieldsOK' /\ HandlerInv' /\ writer' = writer
    BY <1>1, <1>3, OthersKeepFields
  <2>2. CASE Respond
    <3>1. SendInv' /\ StaleInv' /\ (pc' = "send" \/ (pc' = "err" /\ HasCause))
      BY <2>2, RespondSends
    <3>2. UNCHANGED <<wire, past>> /\ wire = <<>>
      BY <1>1, <2>2 DEF HandlerInv, Respond, RespondCached, RespondFile, RespondStale,
         RespondBytes, RespondText, Start, Refuse
    <3>3. FailsClean' /\ WholeWhenOk'
      BY <2>1, <3>1, <3>2 DEF FailsClean, WholeWhenOk, HasCause
    <3>4. QED
      BY <2>1, <3>1, <3>3 DEF WriterInv
  <2>3. CASE Write
    <3>1. SendInv' /\ todo # <<>> /\ pc' = "send" /\ pc = "send"
      BY <1>1, <2>3, WriteSends DEF Write
    <3>2. StaleInv'
      BY <1>1, <2>1, <3>1 DEF StaleInv
    <3>3. FailsClean' /\ WholeWhenOk'
      BY <3>1 DEF FailsClean, WholeWhenOk
    <3>4. QED
      BY <2>1, <3>1, <3>2, <3>3 DEF WriterInv
  <2>4. CASE WriteError
    <3>1. /\ pc = "send" /\ pc' = "err" /\ (peer' = "gone" \/ (file'.mapped /\ past'.changed))
          /\ UNCHANGED <<writer, todo, written, wire, file>>
      <4>1. /\ pc = "send" /\ todo # <<>> /\ ~Sent(todo[1]) /\ pc' = "err"
            /\ peer' = "gone" \/ Faults
            /\ UNCHANGED <<writer, todo, written, wire, file, past>>
        BY <2>4 DEF WriteError
      <4>2. Faults => file.mapped /\ past.changed
        BY <1>1, <4>1, FaultsWhenCut DEF Faults
      <4>3. QED
        BY <4>1, <4>2
    <3>2. SendInv'
      BY <1>1, <3>1, IdleKeepsSends
    <3>3. StaleInv' /\ FailsClean' /\ WholeWhenOk'
      BY <1>1, <3>1 DEF StaleInv, FailsClean, WholeWhenOk
    <3>4. QED
      BY <2>1, <3>2, <3>3 DEF WriterInv
  <2>5. CASE NextSend
    <3>1. SendInv' /\ pc' = "send"
      BY <1>1, <2>5, NextSendSends
    <3>2. pc = "send" /\ todo # <<>>
      BY <2>5 DEF NextSend
    <3>3. StaleInv' /\ FailsClean' /\ WholeWhenOk'
      BY <1>1, <2>1, <3>1, <3>2 DEF StaleInv, FailsClean, WholeWhenOk
    <3>4. QED
      BY <2>1, <3>1, <3>3 DEF WriterInv
  <2>6. CASE Finish
    <3>1. /\ pc = "send" /\ todo = <<>> /\ ~Streams /\ pc' = "ok"
          /\ UNCHANGED <<writer, todo, written, file, announced, wire, past>>
      BY <2>6 DEF Finish
    <3>2. SendInv'
      BY <1>1, <3>1, IdleKeepsSends
    <3>3. announced # None => Len(wire) = HeadSize + announced
      BY <1>1, <3>1, DrainedIs DEF Covers
    <3>4. StaleInv' /\ FailsClean' /\ WholeWhenOk'
      BY <1>1, <3>1, <3>3 DEF StaleInv, FailsClean, WholeWhenOk
    <3>5. QED
      BY <2>1, <3>2, <3>4 DEF WriterInv
  <2>7. CASE ReadFile
    <3>1. SendInv'
      BY <1>1, <2>7, ReadSends
    <3>2. /\ pc = "send" /\ todo = <<>> /\ Streams /\ file.size # Gone /\ file.read \in Nat
          /\ file.size \in Nat
          /\ (pc' = "ok" /\ file.size <= file.read) \/ pc' = "send"
          /\ UNCHANGED <<writer, announced, wire, peer, past>>
      BY <1>1, <2>7, ReadIs
    <3>3. Covers(Len(wire))
      BY <1>1, <3>2, DrainedIs
    <3>4. pc' = "ok" /\ ~past.changed => Len(wire) = HeadSize + announced
      <4>1. SUFFICES ASSUME pc' = "ok", ~past.changed
                     PROVE  Len(wire) = HeadSize + announced
        OBVIOUS
      <4>2. /\ Len(wire) = HeadSize + file.read /\ announced = file.size
            /\ file.read <= file.size /\ file.size <= file.read
        BY <3>2, <3>3, <4>1 DEF Covers
      <4>3. file.read = file.size
        BY <3>2, <4>2
      <4>4. QED
        BY <4>2, <4>3
    <3>5. ~(writer.use_file /\ writer.body = "text")
      BY <1>1, <3>2 DEF StaleInv
    <3>6. StaleInv' /\ FailsClean' /\ WholeWhenOk'
      BY <3>2, <3>4, <3>5 DEF StaleInv, FailsClean, WholeWhenOk
    <3>7. QED
      BY <2>1, <3>1, <3>6 DEF WriterInv
  <2>8. CASE ReadError
    <3>1. /\ pc = "send" /\ pc' = "ok" /\ past'.changed
          /\ UNCHANGED <<writer, todo, written, wire, file>>
      BY <1>1, <2>8 DEF ReadError, FieldsOK
    <3>2. SendInv'
      BY <1>1, <3>1, IdleKeepsSends
    <3>3. StaleInv' /\ FailsClean' /\ WholeWhenOk'
      BY <1>1, <3>1 DEF StaleInv, FailsClean, WholeWhenOk
    <3>4. QED
      BY <2>1, <3>2, <3>3 DEF WriterInv
  <2>9. CASE Cancel
    <3>1. /\ pc = "send" /\ pc' = "dropped"
          /\ UNCHANGED <<writer, todo, written, wire, file>>
      BY <2>9 DEF Cancel
    <3>2. SendInv'
      BY <1>1, <3>1, IdleKeepsSends
    <3>3. StaleInv' /\ FailsClean' /\ WholeWhenOk'
      BY <1>1, <3>1 DEF StaleInv, FailsClean, WholeWhenOk
    <3>4. QED
      BY <2>1, <3>2, <3>3 DEF WriterInv
  <2>10. CASE PeerChange
    <3>1. /\ peer # "gone"
          /\ UNCHANGED <<writer, pc, todo, written, file, announced, wire, past>>
      BY <2>10 DEF PeerChange
    <3>2. \A end \in Nat : Covers(end) => Covers(end)'
      BY <3>1 DEF Covers, Streams, Kind, SendsBytes
    <3>3. SendInv'
      BY <1>1, <3>1, <3>2, IdleKeepsSends
    <3>4. StaleInv' /\ FailsClean' /\ WholeWhenOk'
      BY <1>1, <3>1 DEF StaleInv, FailsClean, WholeWhenOk
    <3>5. QED
      BY <2>1, <3>3, <3>4 DEF WriterInv
  <2>11. QED
    BY <1>3, <2>2, <2>3, <2>4, <2>5, <2>6, <2>7, <2>8, <2>9, <2>10 DEF Send
<1>4. CASE Change
  <2>1. /\ FieldsOK' /\ HandlerInv'
        /\ UNCHANGED <<writer, pc, todo, written, announced, wire, peer>>
        /\ file'.read = file.read /\ (file'.size = Gone <=> file.size = Gone)
        /\ file'.mapped = file.mapped
        /\ (past'.changed \/ (file'.size = file.size /\ ~past.changed))
    BY <1>1, <1>4, ChangeKeepsFields
  <2>2. \A end \in Nat : Covers(end) => Covers(end)'
    BY <2>1 DEF Covers, Streams, Kind, SendsBytes
  <2>3. SendInv'
    BY <1>1, <2>1, <2>2, IdleKeepsSends
  <2>4. past'.filed = past.filed
    BY <1>1, <1>4 DEF Change, FieldsOK
  <2>5. StaleInv' /\ FailsClean' /\ WholeWhenOk'
    BY <1>1, <2>1, <2>4 DEF StaleInv, FailsClean, WholeWhenOk
  <2>6. QED
    BY <2>1, <2>3, <2>5 DEF WriterInv
<1>5. CASE UNCHANGED vars
  <2> USE <1>5 DEF vars
  <2>1. FieldsOK' /\ HandlerInv' /\ StaleInv' /\ FailsClean' /\ WholeWhenOk'
    BY <1>1 DEF FieldsOK, HandlerInv, StaleInv, FailsClean, WholeWhenOk
  <2>2. \A end \in Nat : Covers(end) => Covers(end)'
    BY DEF Covers, Streams, Kind, SendsBytes
  <2>3. SendInv'
    BY <1>1, <2>2, IdleKeepsSends
  <2>4. QED
    BY <2>1, <2>3 DEF WriterInv
<1>6. QED
    BY <1>2, <1>3, <1>4, <1>5 DEF Next

LEMMA InvHolds == Spec => []WriterInv
<1>1. Init => WriterInv
    BY InitInv, WriterAssumption
<1>2. WriterInv /\ [Next]_vars => WriterInv'
    BY StepInv, WriterAssumption
<1>3. QED
    BY <1>1, <1>2, PTL DEF Spec

\* The variables of responser have their types, and no send is out further than it is
\* long, however the socket takes its slices.
THEOREM TypeCorrect == Spec => []TypeOK
<1>1. WriterInv => TypeOK
  <2> SUFFICES ASSUME WriterInv PROVE TypeOK
    OBVIOUS
  <2>1. FieldsOK /\ SendInv
    BY DEF WriterInv
  <2>2. todo \in Seq(Seq(Seq(Byte)))
    <3>1. PICK end \in Nat : Plan(Kind, todo, Base, end)
      BY <2>1 DEF SendInv
    <3>2. todo = <<>> \/ (\E c \in Batch : todo = <<c>>) \/ (\E c, d \in Batch : todo = <<c, d>>)
      BY <3>1, Zenon DEF Plan
    <3> DEFINE Sends == Seq(Seq(Byte))
    <3>3. \A c \in Batch : c \in Sends
      BY DEF Batch
    <3> HIDE DEF Sends
    <3>4. /\ <<>> \in Seq(Sends)
          /\ \A c \in Sends : <<c>> \in Seq(Sends)
          /\ \A c, d \in Sends : <<c, d>> \in Seq(Sends)
      OBVIOUS
    <3>5. todo \in Seq(Sends)
      BY <3>2, <3>3, <3>4, Zenon
    <3>6. QED
      BY <3>5 DEF Sends
  <2>3. written \in 0..(IF todo = <<>> THEN 0 ELSE Len(FlattenSeq(todo[1])))
    <3>1. CASE todo = <<>>
      BY <2>1, <3>1 DEF SendInv
    <3>2. CASE todo # <<>>
      BY <2>1, <3>2, NextIs
    <3>3. QED
      BY <3>1, <3>2
  <2>4. wire \in Seq(Byte)
    BY <2>1 DEF SendInv
  <2>5. QED
    BY <2>1, <2>2, <2>3, <2>4 DEF FieldsOK, TypeOK
<1>2. QED
    BY <1>1, InvHolds, PTL

\* However the socket cuts the slices of send_vectored_generic, and whatever happens to
\* the peer and the file, the bytes go out once and in order.
THEOREM BytesInOrder == Spec => []InOrder
<1>1. WriterInv => InOrder
  <2> SUFFICES ASSUME WriterInv PROVE InOrder
    OBVIOUS
  <2>1. /\ wire \in Seq(Byte) /\ Len(wire) \in Nat /\ HeadSize \in Nat
        /\ \A i \in 1..Len(wire) : wire[i] = Out(Kind, 0 + i)
    BY WriterAssumption, Sizes, LenProperties DEF WriterInv, SendInv, Follows
  <2>2. ASSUME NEW i \in 1..Len(wire)
        PROVE  IF i <= HeadSize THEN wire[i] = <<"head", i>>
               ELSE wire[i] = <<wire[HeadSize + 1][1], i - HeadSize>> /\ wire[i][1] # "head"
    <3>1. i \in Int /\ 0 + i = i /\ wire[i] = Out(Kind, i)
      BY <2>1
    <3>2. CASE i <= HeadSize
      BY <3>1, <3>2 DEF Out
    <3>3. CASE ~(i <= HeadSize)
      <4>1. wire[i] = <<Kind, i - HeadSize>>
        BY <3>1, <3>3 DEF Out
      <4>2. HeadSize + 1 \in 1..Len(wire) /\ ~(HeadSize + 1 <= HeadSize)
        BY <2>1, <3>3
      <4>3. 0 + (HeadSize + 1) = HeadSize + 1
        BY <2>1
      <4>4. wire[HeadSize + 1] = <<Kind, (HeadSize + 1) - HeadSize>>
        BY <2>1, <4>2, <4>3 DEF Out
      <4>5. wire[HeadSize + 1][1] = Kind
        BY <4>4
      <4>6. wire[i][1] = Kind /\ Kind # "head"
        BY <4>1 DEF Kind
      <4>7. QED
        BY <3>3, <4>1, <4>5, <4>6
    <3>4. QED
      BY <3>2, <3>3
  <2>3. QED
    BY <2>2 DEF InOrder
<1>2. QED
    BY <1>1, InvHolds, PTL

\* When responser returns Ok the peer has the header and as many bytes as it announces,
\* unless the open file was changed or could not be read.
THEOREM OkIsWhole == Spec => []WholeWhenOk
<1>1. WriterInv => WholeWhenOk
    BY DEF WriterInv
<1>2. QED
    BY <1>1, InvHolds, PTL

\* When responser returns an error the peer has nothing yet, unless it is gone or a mapped
\* file was changed while it was sent; and the response had a file, or a header that
\* cannot be written.
THEOREM ErrorIsClean == Spec => []FailsClean
<1>1. WriterInv => FailsClean
    BY DEF WriterInv
<1>2. QED
    BY <1>1, InvHolds, PTL

\* What the peer gets after the header is what the handler set last, of text and file.
THEOREM SendsLastSet == Spec => []SendsWhatWasSet
<1>1. WriterInv => SendsWhatWasSet
  <2> SUFFICES ASSUME WriterInv, Len(wire) > HeadSize
               PROVE  LET of == wire[HeadSize + 1][1] IN
                      /\ of = "file" => past.last = "file"
                      /\ of = "bytes" => ~past.filed
                      /\ of = "text" => past.last = "text" /\ ~past.filed /\ writer.bytes = 0
    BY DEF SendsWhatWasSet
  <2>1. /\ FieldsOK /\ HandlerInv /\ StaleInv
        /\ wire \in Seq(Byte) /\ Len(wire) \in Nat /\ HeadSize \in Nat
        /\ \A i \in 1..Len(wire) : wire[i] = Out(Kind, 0 + i)
    BY WriterAssumption, Sizes, LenProperties DEF WriterInv, SendInv, Follows
  <2>2. /\ HeadSize + 1 \in 1..Len(wire) /\ ~(HeadSize + 1 <= HeadSize)
        /\ 0 + (HeadSize + 1) = HeadSize + 1
    BY <2>1
  <2>3. wire[HeadSize + 1] = <<Kind, (HeadSize + 1) - HeadSize>>
    BY <2>1, <2>2 DEF Out
  <2>4. wire[HeadSize + 1][1] = Kind
    BY <2>3
  <2>5. wire # <<>>
    BY <2>1, <2>2
  <2>6. writer.bytes \in Nat /\ past.last \in {"text", "file"}
    BY <2>1, WriterAssumption, Fields
  <2>7. Kind = "file" => past.last = "file"
    BY <2>1, <2>5, <2>6 DEF Kind, HandlerInv, StaleInv
  <2>8. Kind = "bytes" => ~past.filed
    BY <2>1 DEF Kind, SendsBytes, HandlerInv
  <2>9. Kind = "text" => past.last = "text" /\ ~past.filed /\ writer.bytes = 0
    BY <2>1, <2>6 DEF Kind, SendsBytes, HandlerInv
  <2>10. QED
    BY <2>4, <2>7, <2>8, <2>9
<1>2. QED
    BY <1>1, InvHolds, PTL

=============================================================================
