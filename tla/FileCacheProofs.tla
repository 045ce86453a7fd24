--------------------------- MODULE FileCacheProofs ---------------------------
(***************************************************************************)
(* Proofs about ZeroCopyCache, for all threads, paths and limits: that its *)
(* entries and the locals of load_file have their types, that what is      *)
(* served is fresh, that the cache is not overfull by more than a file per *)
(* thread, and that making room does not subtract more than there is.      *)
(***************************************************************************)
EXTENDS FileCache, FiniteSetTheorems, WellFoundedInduction, TLAPS

-----------------------------------------------------------------------------
(* Induction over a set of numbers, for what Total adds up. *)

\* Every set of numbers that is not empty has a least one.
LEMMA LeastOf ==
    ASSUME NEW T \in SUBSET Nat, T # {}
    PROVE  \E n \in T : \A m \in T : ~(m < n)
<1> DEFINE R == OpToRel(<, Nat)
<1>1. IsWellFoundedOn(R, Nat)
    BY NatLessThanWellFounded
<1>2. \A x, y \in Nat : x < y => <<x, y>> \in R
    BY DEF OpToRel
<1> HIDE DEF R
<1>3. PICK n \in T : \A m \in T : ~(<<m, n>> \in R)
    BY <1>1, WFMin
<1>4. \A m \in T : ~(m < n)
    BY <1>2, <1>3
<1>5. QED
    BY <1>4

\* A set with 0 and the successors of its numbers has all of them.
LEMMA AllOf ==
    ASSUME NEW S, 0 \in S, \A n \in Nat : n \in S => n + 1 \in S
    PROVE  Nat \subseteq S
<1> SUFFICES ASSUME Nat \ S # {} PROVE FALSE
    OBVIOUS
<1>1. PICK n \in Nat \ S : \A m \in Nat \ S : ~(m < n)
    BY LeastOf
<1>2. n # 0 /\ n - 1 \in Nat /\ n - 1 < n
    OBVIOUS
<1>3. n - 1 \in S
    BY <1>1, <1>2
<1>4. QED
    BY <1>1, <1>2, <1>3

\* How a sum of f over a set goes on: with one of its members, and the rest.
Pick(s)       == CHOOSE x \in s : TRUE
Adds(f, g, s) == IF s = {} THEN 0 ELSE f[Pick(s)] + g[s \ {Pick(s)}]

\* What is left of a finite set is a smaller one.
LEMMA PickSmaller ==
    ASSUME NEW S, IsFiniteSet(S), NEW s \in SUBSET S, s # {}
    PROVE  /\ Pick(s) \in s /\ s \ {Pick(s)} \in SUBSET S
           /\ Cardinality(s) \in Nat
           /\ Cardinality(s \ {Pick(s)}) = Cardinality(s) - 1
<1>1. IsFiniteSet(s)
    BY FS_Subset
<1>2. Pick(s) \in s
    BY DEF Pick
<1>3. Cardinality(s \ {Pick(s)}) = Cardinality(s) - 1
    BY <1>1, <1>2, FS_RemoveElement
<1>4. QED
    BY <1>1, <1>2, <1>3, FS_CardinalityType

\* There is a function that adds up f over every subset.
LEMMA SumExists ==
    ASSUME NEW S, IsFiniteSet(S), NEW f
    PROVE  \E g : g = [s \in SUBSET S |-> Adds(f, g, s)]
<1> DEFINE UpTo(h, n) == \A s \in SUBSET S : Cardinality(s) <= n => h[s] = Adds(f, h, s)
           Good == {n \in Nat : \E h : h = [s \in SUBSET S |-> h[s]] /\ UpTo(h, n)}
<1>1. \A s \in SUBSET S : IsFiniteSet(s) /\ Cardinality(s) \in Nat /\ Cardinality(s) <= Cardinality(S)
    BY FS_Subset, FS_CardinalityType
<1>2. 0 \in Good
  <2> DEFINE h == [s \in SUBSET S |-> 0]
  <2>1. \A s \in SUBSET S : Cardinality(s) <= 0 => s = {}
    BY <1>1, FS_EmptySet
  <2>2. UpTo(h, 0)
    BY <2>1 DEF Adds
  <2>3. h = [s \in SUBSET S |-> h[s]]
    OBVIOUS
  <2>4. QED
    BY <2>2, <2>3
<1>3. ASSUME NEW n \in Nat, n \in Good PROVE n + 1 \in Good
  <2>1. PICK h : h = [s \in SUBSET S |-> h[s]] /\ UpTo(h, n)
    BY <1>3
  <2> DEFINE k == [s \in SUBSET S |-> IF Cardinality(s) <= n THEN h[s] ELSE Adds(f, h, s)]
  <2>2. ASSUME NEW s \in SUBSET S, Cardinality(s) <= n + 1 PROVE k[s] = Adds(f, h, s)
    BY <2>1, <2>2
  <2>3. ASSUME NEW s \in SUBSET S, Cardinality(s) <= n + 1, s # {}
        PROVE  k[s \ {Pick(s)}] = h[s \ {Pick(s)}]
    <3>1. /\ s \ {Pick(s)} \in SUBSET S /\ Cardinality(s) \in Nat
          /\ Cardinality(s \ {Pick(s)}) = Cardinality(s) - 1
      BY <2>3, PickSmaller
    <3>2. Cardinality(s \ {Pick(s)}) <= n
      BY <2>3, <3>1
    <3>3. QED
      BY <3>1, <3>2
  <2>4. ASSUME NEW s \in SUBSET S, Cardinality(s) <= n + 1 PROVE k[s] = Adds(f, k, s)
    <3> HIDE DEF k
    <3>1. k[s] = Adds(f, h, s)
      BY <2>2, <2>4
    <3>2. QED
      BY <2>3, <2>4, <3>1 DEF Adds
  <2>5. k = [s \in SUBSET S |-> k[s]]
    OBVIOUS
  <2>6. QED
    <3> HIDE DEF k
    <3>1. UpTo(k, n + 1)
      BY <2>4
    <3>2. n + 1 \in Nat
      OBVIOUS
    <3> HIDE DEF UpTo
    <3>3. QED
      BY <2>5, <3>1, <3>2, Zenon
<1>4. Nat \subseteq Good
  <2> HIDE DEF Good
  <2>1. QED
    BY <1>2, <1>3, AllOf
<1>5. Cardinality(S) \in Nat
    BY FS_CardinalityType
<1>6. PICK h : h = [s \in SUBSET S |-> h[s]] /\ UpTo(h, Cardinality(S))
    BY <1>4, <1>5
<1>7. \A s \in SUBSET S : h[s] = Adds(f, h, s)
    BY <1>1, <1>6
<1>8. h = [s \in SUBSET S |-> Adds(f, h, s)]
    BY <1>6, <1>7
<1>9. QED
    BY <1>8

\* A sum of natural numbers is one.
LEMMA SumType ==
    ASSUME NEW S, IsFiniteSet(S), NEW f, \A x \in S : f[x] \in Nat
    PROVE  FoldFunctionOnSet(+, 0, f, S) \in Nat
<1> DEFINE g == CHOOSE g : g = [s \in SUBSET S |-> Adds(f, g, s)]
           Good == {n \in Nat : \A s \in SUBSET S : Cardinality(s) = n => g[s] \in Nat}
<1>1. FoldFunctionOnSet(+, 0, f, S) = g[S]
    BY DEF FoldFunctionOnSet, MapThenFoldSet, Adds, Pick
<1>2. g = [s \in SUBSET S |-> Adds(f, g, s)]
    BY SumExists
<1> HIDE DEF g
<1>3. \A s \in SUBSET S : g[s] = Adds(f, g, s)
    BY <1>2
<1>4. 0 \in Good
  <2>1. ASSUME NEW s \in SUBSET S, Cardinality(s) = 0 PROVE s = {}
    BY <2>1, FS_Subset, FS_EmptySet
  <2>2. ASSUME NEW s \in SUBSET S, Cardinality(s) = 0 PROVE g[s] = 0
    BY <1>3, <2>1, <2>2 DEF Adds
  <2>3. QED
    BY <2>2
<1>5. ASSUME NEW n \in Nat, n \in Good PROVE n + 1 \in Good
  <2>1. ASSUME NEW s \in SUBSET S, Cardinality(s) = n + 1 PROVE g[s] \in Nat
    <3>1. s # {}
      BY <2>1, FS_EmptySet
    <3>2. /\ Pick(s) \in S /\ s \ {Pick(s)} \in SUBSET S
          /\ Cardinality(s \ {Pick(s)}) = n
      BY <2>1, <3>1, PickSmaller
    <3>3. g[s] = f[Pick(s)] + g[s \ {Pick(s)}]
      BY <1>3, <3>1 DEF Adds
    <3>4. f[Pick(s)] \in Nat /\ g[s \ {Pick(s)}] \in Nat
      BY <1>5, <3>2
    <3>5. QED
      BY <3>3, <3>4
  <2>2. QED
    BY <2>1
<1>6. Nat \subseteq Good
  <2> HIDE DEF Good
  <2>1. QED
    BY <1>4, <1>5, AllOf
<1>7. Cardinality(S) \in Nat
    BY FS_CardinalityType
<1>8. QED
    BY <1>1, <1>6, <1>7

-----------------------------------------------------------------------------
(* The types. *)

\* Where load_file has a path, and the file it looked at there.
Working == {"lookup", "map", "read", "count", "evict", "sum", "room", "trim",
            "insert", "served"}
Filling == {"count", "evict", "sum", "room", "trim", "insert", "served"}

\* The entries are of files that were there; so are the cached paths finitely many.
EntriesOK ==
    /\ cache \in [Path -> Entry]
    /\ IsFiniteSet(Cached)
    /\ \A p \in Cached : Size(p) \in Sizes

\* A thread's locals, while it loads a path.
LocalsOK(r) ==
    /\ r \in Locals
    /\ r.pc \in Working => r.path \in Path /\ r.meta.size \in Sizes
    /\ r.pc \in Filling => r.data.size \in Sizes

\* The inductive invariant for the types.
TypeInv ==
    /\ disk \in [Path -> File]
    /\ EntriesOK
    /\ thread \in [Thread -> Locals]
    /\ \A t \in Thread : LocalsOK(thread[t])

LEMMA Constant ==
    ASSUME CacheAssumption
    PROVE  /\ Gone \notin Sizes /\ Gone # 0 /\ NoFile \in File
           /\ Grain \in Nat /\ Grain > 0 /\ Word \in Nat /\ Word > 0
           /\ MaxVersion \in Nat /\ MaxFileSize \in Nat /\ TotalLimit \in Nat
           /\ MaxCacheFiles \in Nat /\ MaxCacheFiles > 0
<1>1. Gone \notin Sizes /\ Gone # 0
  <2>1. Gone \notin Nat /\ Sizes \subseteq Nat
    BY Zenon DEF CacheAssumption
  <2>2. 0 \in Nat
    OBVIOUS
  <2>3. QED
    BY <2>1, <2>2, Zenon
<1>2. MaxVersion \in Nat /\ MaxFileSize \in Nat /\ TotalLimit \in Nat
    BY DEF CacheAssumption
<1>3. 0 \in 0..MaxVersion
    BY <1>2
<1>4. NoFile \in File
    BY <1>3 DEF NoFile, File
<1>5. QED
    BY <1>1, <1>2, <1>4 DEF CacheAssumption

LEMMA IdleOK ==
    ASSUME CacheAssumption
    PROVE  LocalsOK(Idle)
    BY Constant DEF LocalsOK, Idle, Locals, Working, Filling, NoFile, File

\* One thread goes on; the others stay where they are.
LEMMA GoesOn ==
    ASSUME TypeInv, NEW t \in Thread, NEW r, Goto(t, r), LocalsOK(r)
    PROVE  /\ thread' \in [Thread -> Locals]
           /\ \A s \in Thread : LocalsOK(thread'[s])
           /\ thread'[t] = r
           /\ \A s \in Thread : s # t => thread'[s] = thread[s]
    BY DEF TypeInv, Goto, LocalsOK

\* A modification time is one, and does not go back.
LEMMA MtimeType ==
    ASSUME CacheAssumption, NEW v \in Nat
    PROVE  v \div Grain \in Nat /\ v \div Grain <= v
    BY DEF CacheAssumption

LEMMA MtimeGrows ==
    ASSUME CacheAssumption, NEW v \in Nat, NEW w \in Nat, v <= w
    PROVE  v \div Grain <= w \div Grain
    BY DEF CacheAssumption

\* An entry is removed, or there was none at that path.
LEMMA RemovedOK ==
    ASSUME CacheAssumption, EntriesOK, NEW p, cache' = Removed(p)
    PROVE  /\ EntriesOK'
           /\ Cached' \subseteq Cached
           /\ \A q \in Path : cache'[q] = cache[q] \/ cache'[q] = Nothing
<1>1. Nothing \in Entry
  <2>1. 0 \in 0..MaxVersion
    BY Constant
  <2>2. QED
    BY <2>1, Constant DEF Nothing, Entry
<1>2. \A q \in Path : cache'[q] = cache[q] \/ cache'[q] = Nothing
    BY DEF EntriesOK, Removed
<1>3. cache' \in [Path -> Entry]
    BY <1>1 DEF EntriesOK, Removed
<1>4. Cached' \subseteq Cached
    BY <1>2 DEF Cached
<1>5. IsFiniteSet(Cached')
    BY <1>4, FS_Subset DEF EntriesOK
<1>6. \A q \in Cached' : Size(q)' = Size(q)
    BY <1>2 DEF Cached, Size
<1>7. QED
    BY <1>2, <1>3, <1>4, <1>5, <1>6 DEF EntriesOK

\* An entry is inserted.
LEMMA InsertedOK ==
    ASSUME CacheAssumption, EntriesOK, NEW p \in Path, NEW e \in Entry, e.data.size \in Sizes,
           cache' = [cache EXCEPT ![p] = e]
    PROVE  /\ EntriesOK'
           /\ Cached' = Cached \cup {p}
           /\ cache'[p] = e
           /\ \A q \in Path : q # p => cache'[q] = cache[q]
<1>1. cache'[p] = e /\ \A q \in Path : q # p => cache'[q] = cache[q]
    BY DEF EntriesOK
<1>2. cache' \in [Path -> Entry]
    BY DEF EntriesOK
<1>3. e # Nothing
    BY Constant DEF Nothing, NoFile
<1>4. Cached' = Cached \cup {p}
    BY <1>1, <1>3 DEF Cached
<1>5. IsFiniteSet(Cached')
    BY <1>4, FS_AddElement DEF EntriesOK
<1>6. \A q \in Cached' : q # p => Size(q)' = Size(q)
    BY <1>1, <1>4 DEF Cached, Size
<1>7. Size(p)' = e.data.size
    BY <1>1 DEF Size
<1>8. QED
    BY <1>1, <1>2, <1>4, <1>5, <1>6, <1>7 DEF EntriesOK

\* What the entries take, together.
LEMMA TotalType ==
    ASSUME CacheAssumption, EntriesOK
    PROVE  Total \in Nat
<1> DEFINE f == [p \in Cached |-> Size(p)]
<1>1. \A p \in Cached : f[p] \in Nat
    BY DEF EntriesOK, CacheAssumption
<1>2. FoldFunctionOnSet(+, 0, f, Cached) \in Nat
  <2> HIDE DEF f
  <2>1. QED
    BY <1>1, SumType DEF EntriesOK
<1>3. QED
    BY <1>2 DEF Total

\* A remainder is a usize.
LEMMA WordType ==
    ASSUME CacheAssumption, NEW n \in Int
    PROVE  n % Word \in 0..(Word - 1)
    BY DEF CacheAssumption

\* A step that touches one thread only.
LEMMA ThreadOnly ==
    ASSUME TypeInv, NEW t \in Thread, NEW r, Goto(t, r), LocalsOK(r), UNCHANGED <<disk, cache>>
    PROVE  TypeInv'
<1>1. EntriesOK' /\ disk' = disk
    BY DEF TypeInv, EntriesOK, Cached, Size
<1>2. QED
    BY <1>1, GoesOn DEF TypeInv

\* What load_file returns.
LEMMA ServeOK ==
    ASSUME CacheAssumption, NEW t \in Thread, LocalsOK(thread[t]),
           thread[t].pc \in Working, NEW f \in File, f.size \in Sizes
    PROVE  LocalsOK([thread[t] EXCEPT !.pc = "served", !.data = f,
                                      !.rem = 0, !.victim = NoPath, !.gain = 0])
<1>1. 0 \in 0..(Word - 1)
    BY Constant
<1>2. QED
    BY <1>1 DEF LocalsOK, Locals, Working, Filling

LEMMA LoadTypes ==
    ASSUME CacheAssumption, TypeInv, NEW t \in Thread, NEW p \in Path, Load(t, p)
    PROVE  TypeInv'
<1>1. disk[p] \in File
    BY DEF TypeInv
<1>2. CASE disk[p].size = Gone
    BY <1>2, IdleOK, ThreadOnly DEF Load, Fail
<1>3. ASSUME NEW c \in {"lookup", "map"}, disk[p].size # Gone
      PROVE  LocalsOK([Idle EXCEPT !.path = p, !.meta = disk[p], !.pc = c])
  <2>1. disk[p].size \in Sizes
    BY <1>1, <1>3 DEF File
  <2>2. QED
    BY <1>1, <2>1, IdleOK DEF LocalsOK, Locals, Idle, Working, Filling
<1>4. CASE disk[p].size # Gone
  <2>1. PICK c \in {"lookup", "map"} :
          /\ Goto(t, [Idle EXCEPT !.path = p, !.meta = disk[p], !.pc = c])
          /\ UNCHANGED <<disk, cache>>
    BY <1>4 DEF Load
  <2>2. QED
    BY <1>3, <1>4, <2>1, ThreadOnly
<1>5. QED
    BY <1>2, <1>4

LEMMA MapFileTypes ==
    ASSUME CacheAssumption, TypeInv, NEW t \in Thread, MapFile(t)
    PROVE  TypeInv'
<1> DEFINE f == disk[thread[t].path]
<1>1. f \in File /\ LocalsOK(thread[t]) /\ thread[t].pc \in Working
    BY DEF TypeInv, LocalsOK, MapFile, Working
<1>2. CASE f.size \in {0, Gone}
    BY <1>2, IdleOK, ThreadOnly DEF MapFile, Fail
<1>3. CASE f.size \notin {0, Gone}
  <2>1. f.size \in Sizes
    BY <1>1, <1>3 DEF File
  <2>2. LocalsOK([thread[t] EXCEPT !.pc = "served", !.data = f,
                                   !.rem = 0, !.victim = NoPath, !.gain = 0])
    BY <1>1, <2>1, ServeOK
  <2>3. QED
    BY <1>3, <2>2, ThreadOnly DEF MapFile, Serve
<1>4. QED
    BY <1>2, <1>3

LEMMA LookupTypes ==
    ASSUME CacheAssumption, TypeInv, NEW t \in Thread, Lookup(t)
    PROVE  TypeInv'
<1> DEFINE r == thread[t]
           e == cache[r.path]
<1>1. LocalsOK(r) /\ r.pc \in Working /\ r.path \in Path
    BY DEF TypeInv, LocalsOK, Lookup, Working
<1>2. CASE Current(e, r.meta)
  <2>1. e \in Entry /\ e.data \in File /\ e.data.size \in Sizes
    BY <1>1, <1>2 DEF TypeInv, EntriesOK, Cached, Size, Current, Entry
  <2>2. LocalsOK([thread[t] EXCEPT !.pc = "served", !.data = e.data,
                                   !.rem = 0, !.victim = NoPath, !.gain = 0])
    BY <1>1, <2>1, ServeOK
  <2>3. QED
    BY <1>2, <2>2, ThreadOnly DEF Lookup, Serve
<1>3. CASE ~Current(e, r.meta)
  <2>1. LocalsOK([r EXCEPT !.pc = "read"])
    BY <1>1 DEF LocalsOK, Locals, Working, Filling
  <2>2. QED
    BY <1>3, <2>1, ThreadOnly DEF Lookup
<1>4. QED
    BY <1>2, <1>3

LEMMA ReadFileTypes ==
    ASSUME CacheAssumption, TypeInv, NEW t \in Thread, ReadFile(t)
    PROVE  TypeInv'
<1> DEFINE r == thread[t]
           f == disk[r.path]
<1>1. f \in File /\ LocalsOK(r) /\ r.pc \in Working
    BY DEF TypeInv, LocalsOK, ReadFile, Working
<1>2. CASE Unreadable(f)
    BY <1>2, IdleOK, ThreadOnly DEF ReadFile, Fail
<1>3. CASE ~Unreadable(f)
  <2>1. f.size \in Sizes
    BY <1>1, <1>3 DEF File, Unreadable
  <2>2. LocalsOK([r EXCEPT !.pc = "count", !.data = f])
    BY <1>1, <2>1 DEF LocalsOK, Locals, Working, Filling
  <2>3. QED
    BY <1>3, <2>2, ThreadOnly DEF ReadFile
<1>4. QED
    BY <1>2, <1>3

LEMMA CountTypes ==
    ASSUME CacheAssumption, TypeInv, NEW t \in Thread, Count(t)
    PROVE  TypeInv'
<1> DEFINE r == thread[t]
<1>1. LocalsOK(r) /\ r.pc = "count"
    BY DEF TypeInv, Count
<1>2. LocalsOK([r EXCEPT !.pc = "sum"])
    BY <1>1 DEF LocalsOK, Locals, Working, Filling
<1>3. \A p \in Cached : LocalsOK([r EXCEPT !.pc = "evict", !.victim = p])
    BY <1>1 DEF LocalsOK, Locals, Working, Filling, Cached
<1>4. QED
    BY <1>2, <1>3, ThreadOnly DEF Count

\* A step in which a thread removes an entry.
LEMMA ThreadRemoves ==
    ASSUME CacheAssumption, TypeInv, NEW t \in Thread, NEW r, NEW p,
           Goto(t, r), LocalsOK(r), cache' = Removed(p), UNCHANGED disk
    PROVE  TypeInv'
<1>1. EntriesOK'
    BY RemovedOK DEF TypeInv
<1>2. QED
    BY <1>1, GoesOn DEF TypeInv

LEMMA EvictTypes ==
    ASSUME CacheAssumption, TypeInv, NEW t \in Thread, Evict(t)
    PROVE  TypeInv'
<1> DEFINE r == thread[t]
<1>1. LocalsOK(r) /\ r.pc = "evict"
    BY DEF TypeInv, Evict
<1>2. LocalsOK([r EXCEPT !.pc = "count", !.victim = NoPath])
    BY <1>1 DEF LocalsOK, Locals, Working, Filling
<1>3. QED
    BY <1>2, ThreadRemoves DEF Evict

LEMMA SumTypes ==
    ASSUME CacheAssumption, TypeInv, NEW t \in Thread, Sum(t)
    PROVE  TypeInv'
<1> DEFINE r == thread[t]
           n == (Total + r.meta.size) % Word
<1>1. LocalsOK(r) /\ r.pc = "sum" /\ r.meta.size \in Sizes
    BY DEF TypeInv, LocalsOK, Sum, Working
<1>2. Total \in Nat /\ r.meta.size \in Nat
    BY <1>1, TotalType DEF TypeInv, CacheAssumption
<1>3. n \in 0..(Word - 1)
  <2>1. Total + r.meta.size \in Int
    BY <1>2
  <2>2. QED
    BY <2>1, WordType
<1>4. LocalsOK([r EXCEPT !.pc = "room", !.rem = n])
  <2> HIDE DEF n
  <2>1. QED
    BY <1>1, <1>3 DEF LocalsOK, Locals, Working, Filling
<1>5. QED
    BY <1>4, ThreadOnly DEF Sum

LEMMA RoomTypes ==
    ASSUME CacheAssumption, TypeInv, NEW t \in Thread, Room(t)
    PROVE  TypeInv'
<1> DEFINE r == thread[t]
<1>1. LocalsOK(r) /\ r.pc = "room"
    BY DEF TypeInv, Room
<1>2. LocalsOK([r EXCEPT !.pc = "insert", !.rem = 0])
  <2>1. 0 \in 0..(Word - 1)
    BY Constant
  <2>2. QED
    BY <1>1, <2>1 DEF LocalsOK, Locals, Working, Filling
<1>3. \A p \in Cached : LocalsOK([r EXCEPT !.pc = "trim", !.victim = p, !.gain = Size(p)])
    BY <1>1 DEF LocalsOK, Locals, Working, Filling, Cached, TypeInv, EntriesOK
<1>4. QED
    BY <1>2, <1>3, ThreadOnly DEF Room

LEMMA TrimTypes ==
    ASSUME CacheAssumption, TypeInv, NEW t \in Thread, Trim(t)
    PROVE  TypeInv'
<1> DEFINE r == thread[t]
           n == (r.rem + Word - r.gain) % Word
<1>1. LocalsOK(r) /\ r.pc = "trim"
    BY DEF TypeInv, Trim
<1>2. n \in 0..(Word - 1)
  <2>1. r.rem \in Int /\ r.gain \in Int /\ Word \in Int
    <3>1. r.rem \in 0..(Word - 1) /\ r.gain \in Sizes \cup {0}
      BY <1>1 DEF LocalsOK, Locals
    <3>2. Sizes \cup {0} \subseteq Int
      BY DEF CacheAssumption
    <3>3. r.gain \in Int
      BY <3>1, <3>2
    <3>4. r.rem \in Int
      BY <3>1
    <3>5. QED
      BY <3>3, <3>4, Constant
  <2>2. r.rem + Word - r.gain \in Int
    BY <2>1
  <2>3. QED
    BY <2>2, WordType
<1>3. LocalsOK([r EXCEPT !.pc = "room", !.victim = NoPath, !.gain = 0, !.rem = n])
  <2> HIDE DEF n
  <2>1. QED
    BY <1>1, <1>2 DEF LocalsOK, Locals, Working, Filling
<1>4. QED
    BY <1>3, ThreadRemoves DEF Trim

LEMMA InsertTypes ==
    ASSUME CacheAssumption, TypeInv, NEW t \in Thread, Insert(t)
    PROVE  TypeInv'
<1> DEFINE r == thread[t]
           e == [mtime |-> Stamp(t), data |-> r.data]
<1>1. LocalsOK(r) /\ r.pc \in Working /\ r.pc \in Filling
    BY DEF TypeInv, Insert, Working, Filling
<1>2. r.path \in Path /\ r.data \in File /\ r.data.size \in Sizes /\ r.meta \in File
    BY <1>1 DEF LocalsOK, Locals
<1>3. e \in Entry
  <2>1. r.meta.version \in 0..MaxVersion /\ MaxVersion \in Nat
    BY <1>2, Constant DEF File
  <2>2. Stamp(t) \in 0..MaxVersion
    BY <2>1, MtimeType DEF Stamp, Mtime
  <2>3. QED
    BY <1>2, <2>2 DEF Entry
<1>4. EntriesOK'
  <2>1. e.data.size \in Sizes /\ cache' = [cache EXCEPT ![r.path] = e]
    BY <1>2 DEF Insert
  <2> HIDE DEF e
  <2>2. QED
    BY <1>2, <1>3, <2>1, InsertedOK DEF TypeInv
<1>5. LocalsOK([thread[t] EXCEPT !.pc = "served", !.data = r.data,
                                 !.rem = 0, !.victim = NoPath, !.gain = 0])
    BY <1>1, <1>2, ServeOK
<1>6. QED
    BY <1>4, <1>5, GoesOn DEF Insert, Serve, TypeInv

LEMMA PurgeTypes ==
    ASSUME CacheAssumption, TypeInv, NEW t \in Thread, Purge(t)
    PROVE  TypeInv'
<1>1. ASSUME NEW S \in SUBSET Cached
      PROVE  LocalsOK([Idle EXCEPT !.pc = "purge", !.todo = S])
    BY IdleOK DEF LocalsOK, Locals, Idle, Working, Filling, Cached
<1>2. PICK S \in SUBSET Cached : Goto(t, [Idle EXCEPT !.pc = "purge", !.todo = S])
    BY DEF Purge
<1>3. QED
    BY <1>1, <1>2, ThreadOnly DEF Purge

LEMMA PurgeOneTypes ==
    ASSUME CacheAssumption, TypeInv, NEW t \in Thread, PurgeOne(t)
    PROVE  TypeInv'
<1> DEFINE r == thread[t]
           n(p) == IF r.todo = {p} THEN Idle ELSE [r EXCEPT !.todo = @ \ {p}]
<1>1. LocalsOK(r) /\ r.pc = "purge"
    BY DEF TypeInv, PurgeOne
<1>2. PICK p \in r.todo : cache' = Removed(p) /\ Goto(t, n(p))
    BY DEF PurgeOne
<1>3. LocalsOK(n(p))
  <2>1. LocalsOK([r EXCEPT !.todo = @ \ {p}])
    BY <1>1 DEF LocalsOK, Locals, Working, Filling
  <2>2. QED
    BY <2>1, IdleOK
<1> HIDE DEF n
<1>4. QED
    BY <1>2, <1>3, ThreadRemoves DEF PurgeOne

LEMMA ChangeTypes ==
    ASSUME CacheAssumption, TypeInv, NEW p \in Path, Change(p)
    PROVE  TypeInv'
<1>1. PICK now \in 1..MaxVersion, n \in Sizes \cup {Gone} :
        disk' = [disk EXCEPT ![p] = [version |-> now, size |-> n]]
    BY DEF Change
<1>2. [version |-> now, size |-> n] \in File
    BY Constant DEF File
<1>3. disk' \in [Path -> File]
    BY <1>1, <1>2 DEF TypeInv
<1>4. EntriesOK' /\ thread' = thread
    BY DEF Change, TypeInv, EntriesOK, Cached, Size
<1>5. QED
    BY <1>3, <1>4 DEF TypeInv

LEMMA TypesKept ==
    ASSUME CacheAssumption, TypeInv, [Next]_vars
    PROVE  TypeInv'
<1>1. ASSUME NEW t \in Thread, Run(t) PROVE TypeInv'
    BY <1>1, MapFileTypes, LookupTypes, ReadFileTypes, CountTypes, EvictTypes, SumTypes,
       RoomTypes, TrimTypes, InsertTypes, PurgeOneTypes DEF Run
<1>2. ASSUME NEW t \in Thread, Done(t) PROVE TypeInv'
    BY <1>2, IdleOK, ThreadOnly DEF Done
<1>3. CASE UNCHANGED vars
    BY <1>3 DEF vars, TypeInv, EntriesOK, Cached, Size
<1>4. QED
    BY <1>1, <1>2, <1>3, PurgeTypes, LoadTypes, ChangeTypes DEF Next

LEMMA TypesStart ==
    ASSUME CacheAssumption, Init
    PROVE  TypeInv
<1>1. Cached = {}
    BY DEF Init, Cached
<1>2. EntriesOK
  <2>1. 0 \in 0..MaxVersion
    BY Constant
  <2>2. Nothing \in Entry
    BY <2>1, Constant DEF Nothing, Entry
  <2>3. QED
    BY <1>1, <2>2, FS_EmptySet DEF Init, EntriesOK
<1>3. disk \in [Path -> File]
  <2>1. \A f \in [version : {0}, size : Sizes] : f \in File
    BY Constant DEF File
  <2>2. QED
    BY <2>1 DEF Init
<1>4. thread \in [Thread -> Locals] /\ \A t \in Thread : LocalsOK(thread[t])
    BY IdleOK DEF Init, LocalsOK
<1>5. QED
    BY <1>2, <1>3, <1>4 DEF TypeInv

LEMMA TypesAlways == Spec => []TypeInv
<1>1. Init => TypeInv
    BY CacheAssumption, TypesStart
<1>2. TypeInv /\ [Next]_vars => TypeInv'
    BY CacheAssumption, TypesKept
<1>3. QED
    BY <1>1, <1>2, PTL DEF Spec

\* The disk, the entries and the locals of load_file have their types at every
\* step: what is cached, and what is served, is of a file that was there.
THEOREM TypeCorrect == Spec => []TypeOK
<1>1. TypeInv => TypeOK
    BY DEF TypeInv, EntriesOK, LocalsOK, TypeOK, Filling
<1>2. QED
    BY <1>1, TypesAlways, PTL

-----------------------------------------------------------------------------
(* Freshness. *)

\* An entry has content of its file, of its modification time or later.
EntriesFresh ==
    \A p \in Cached :
        /\ cache[p].data.version <= disk[p].version
        /\ cache[p].mtime <= Mtime(cache[p].data)

\* A thread has looked at its file, and what it has read it has read after that.
LocalsFresh(r) ==
    /\ r.pc \in Working => r.meta.version <= disk[r.path].version
    /\ r.pc \in Filling =>
          /\ r.data.version <= disk[r.path].version
          /\ Mtime(r.meta) <= Mtime(r.data)

\* The inductive invariant for FreshServed.
FreshInv == EntriesFresh /\ \A t \in Thread : LocalsFresh(thread[t])

LEMMA IdleFresh == LocalsFresh(Idle)
    BY DEF LocalsFresh, Idle, Working, Filling

LEMMA FreshGoesOn ==
    ASSUME TypeInv, FreshInv, NEW t \in Thread, NEW r, Goto(t, r), LocalsFresh(r), UNCHANGED disk
    PROVE  \A s \in Thread : LocalsFresh(thread[s])'
    BY DEF TypeInv, FreshInv, Goto, LocalsFresh, Mtime

LEMMA FreshThread ==
    ASSUME TypeInv, FreshInv, NEW t \in Thread, NEW r, Goto(t, r), LocalsFresh(r),
           UNCHANGED <<disk, cache>>
    PROVE  FreshInv'
<1>1. EntriesFresh'
    BY DEF FreshInv, EntriesFresh, Cached, Mtime
<1>2. QED
    BY <1>1, FreshGoesOn DEF FreshInv

LEMMA FreshRemoves ==
    ASSUME CacheAssumption, TypeInv, FreshInv, NEW t \in Thread, NEW r, NEW p,
           Goto(t, r), LocalsFresh(r), cache' = Removed(p), UNCHANGED disk
    PROVE  FreshInv'
<1>1. \A q \in Cached' : q \in Cached /\ cache'[q] = cache[q]
    BY RemovedOK DEF TypeInv, Cached
<1>2. EntriesFresh'
    BY <1>1 DEF FreshInv, EntriesFresh, Mtime
<1>3. QED
    BY <1>2, FreshGoesOn DEF FreshInv

\* Modification times are in the order of the changes.
LEMMA MtimeOrder ==
    ASSUME CacheAssumption, NEW f \in File, NEW g \in File, f.version <= g.version
    PROVE  Mtime(f) <= Mtime(g)
<1>1. f.version \in Nat /\ g.version \in Nat
    BY Constant DEF File
<1>2. QED
    BY <1>1, MtimeGrows DEF Mtime

\* What is at hand when a thread reads its file.
LEMMA ReadsLater ==
    ASSUME CacheAssumption, TypeInv, FreshInv, NEW t \in Thread, thread[t].pc \in Working
    PROVE  LET r == thread[t] IN
           /\ r.path \in Path /\ r.meta \in File /\ disk[r.path] \in File
           /\ r.meta.version <= disk[r.path].version
           /\ Mtime(r.meta) <= Mtime(disk[r.path])
           /\ disk[r.path].version <= disk[r.path].version
<1> DEFINE r == thread[t]
<1>1. r.path \in Path /\ r.meta \in File /\ disk[r.path] \in File
    BY DEF TypeInv, LocalsOK, Locals
<1>2. r.meta.version <= disk[r.path].version
    BY DEF FreshInv, LocalsFresh
<1>3. Mtime(r.meta) <= Mtime(disk[r.path])
    BY <1>1, <1>2, MtimeOrder
<1>4. disk[r.path].version \in Int
    BY <1>1, Constant DEF File
<1>5. QED
    BY <1>1, <1>2, <1>3, <1>4

LEMMA FreshRun ==
    ASSUME CacheAssumption, TypeInv, FreshInv, NEW t \in Thread,
           MapFile(t) \/ Lookup(t) \/ ReadFile(t)
    PROVE  FreshInv'
<1> DEFINE r == thread[t]
           f == disk[r.path]
           e == cache[r.path]
           served(x) == [thread[t] EXCEPT !.pc = "served", !.data = x,
                                          !.rem = 0, !.victim = NoPath, !.gain = 0]
<1>1. r.pc \in Working /\ r \in Locals /\ LocalsFresh(r)
    BY DEF MapFile, Lookup, ReadFile, Working, TypeInv, FreshInv
<1>2. /\ r.path \in Path /\ r.meta \in File /\ f \in File
      /\ r.meta.version <= f.version /\ Mtime(r.meta) <= Mtime(f) /\ f.version <= f.version
    BY <1>1, ReadsLater
<1>3. ASSUME NEW x, x.version <= f.version, Mtime(r.meta) <= Mtime(x)
      PROVE  LocalsFresh(served(x)) /\ LocalsFresh([r EXCEPT !.pc = "count", !.data = x])
    BY <1>1, <1>3 DEF LocalsFresh, Working, Filling, Locals
<1>4. CASE MapFile(t)
  <2>1. Goto(t, Idle) \/ Goto(t, served(f))
    BY <1>4 DEF MapFile, Serve, Fail
  <2> HIDE DEF served
  <2>2. QED
    BY <1>2, <1>3, <1>4, <2>1, IdleFresh, FreshThread DEF MapFile
<1>5. CASE Lookup(t) /\ Current(e, r.meta)
  <2>1. /\ r.path \in Cached /\ e.mtime = Mtime(r.meta) /\ Goto(t, served(e.data))
    BY <1>2, <1>5 DEF Lookup, Current, Cached, Serve
  <2>2. e.data.version <= f.version /\ Mtime(r.meta) <= Mtime(e.data)
    BY <2>1 DEF FreshInv, EntriesFresh
  <2>3. LocalsFresh(served(e.data))
    BY <1>3, <2>2
  <2> HIDE DEF served
  <2>4. QED
    BY <1>5, <2>1, <2>3, FreshThread DEF Lookup
<1>6. CASE Lookup(t) /\ ~Current(e, r.meta)
  <2>1. LocalsFresh([r EXCEPT !.pc = "read"])
    BY <1>1, <1>2 DEF LocalsFresh, Locals, Working, Filling
  <2>2. QED
    BY <1>6, <2>1, FreshThread DEF Lookup
<1>7. CASE ReadFile(t)
  <2>1. Goto(t, Idle) \/ Goto(t, [r EXCEPT !.pc = "count", !.data = f])
    BY <1>7 DEF ReadFile, Fail
  <2>2. QED
    BY <1>2, <1>3, <1>7, <2>1, IdleFresh, FreshThread DEF ReadFile
<1>8. QED
    BY <1>4, <1>5, <1>6, <1>7

\* Making room keeps what was read.
LEMMA FreshRoom ==
    ASSUME CacheAssumption, TypeInv, FreshInv, NEW t \in Thread,
           Count(t) \/ Evict(t) \/ Sum(t) \/ Room(t) \/ Trim(t)
    PROVE  FreshInv'
<1> DEFINE r == thread[t]
<1>1. r.pc \in Filling /\ r \in Locals /\ LocalsFresh(r)
    BY DEF Count, Evict, Sum, Room, Trim, Filling, TypeInv, FreshInv
<1>2. CASE Count(t)
  <2>1. LocalsFresh([r EXCEPT !.pc = "sum"])
    BY <1>1 DEF LocalsFresh, Locals, Working, Filling
  <2>2. \A p \in Cached : LocalsFresh([r EXCEPT !.pc = "evict", !.victim = p])
    BY <1>1 DEF LocalsFresh, Locals, Working, Filling
  <2>3. QED
    BY <1>2, <2>1, <2>2, FreshThread DEF Count
<1>3. CASE Evict(t)
  <2>1. LocalsFresh([r EXCEPT !.pc = "count", !.victim = NoPath])
    BY <1>1 DEF LocalsFresh, Locals, Working, Filling
  <2>2. QED
    BY <1>3, <2>1, FreshRemoves DEF Evict
<1>4. CASE Sum(t)
  <2>1. \A n : LocalsFresh([r EXCEPT !.pc = "room", !.rem = n])
    BY <1>1 DEF LocalsFresh, Locals, Working, Filling
  <2>2. PICK n : Goto(t, [r EXCEPT !.pc = "room", !.rem = n])
    BY <1>4 DEF Sum
  <2>3. QED
    BY <1>4, <2>1, <2>2, FreshThread DEF Sum
<1>5. CASE Room(t)
  <2>1. LocalsFresh([r EXCEPT !.pc = "insert", !.rem = 0])
    BY <1>1 DEF LocalsFresh, Locals, Working, Filling
  <2>2. \A p : LocalsFresh([r EXCEPT !.pc = "trim", !.victim = p, !.gain = Size(p)])
    BY <1>1 DEF LocalsFresh, Locals, Working, Filling
  <2>3. QED
    BY <1>5, <2>1, <2>2, FreshThread DEF Room
<1>6. CASE Trim(t)
  <2>1. \A n : LocalsFresh([r EXCEPT !.pc = "room", !.victim = NoPath, !.gain = 0, !.rem = n])
    BY <1>1 DEF LocalsFresh, Locals, Working, Filling
  <2>2. PICK n : Goto(t, [r EXCEPT !.pc = "room", !.victim = NoPath, !.gain = 0, !.rem = n])
    BY <1>6 DEF Trim
  <2>3. QED
    BY <1>6, <2>1, <2>2, FreshRemoves DEF Trim
<1>7. QED
    BY <1>2, <1>3, <1>4, <1>5, <1>6

\* The entry gets the time of the first look and the content of the later one.
LEMMA FreshInsert ==
    ASSUME CacheAssumption, TypeInv, FreshInv, NEW t \in Thread, Insert(t)
    PROVE  FreshInv'
<1> DEFINE r == thread[t]
           e == [mtime |-> Mtime(r.meta), data |-> r.data]
<1>1. /\ r.pc \in Filling /\ r.pc \in Working /\ r \in Locals /\ LocalsFresh(r)
      /\ r.path \in Path
    BY DEF Insert, Filling, Working, TypeInv, LocalsOK, FreshInv
<1>2. r.data.version <= disk[r.path].version /\ Mtime(r.meta) <= Mtime(r.data)
    BY <1>1 DEF LocalsFresh
<1>3. LocalsFresh([r EXCEPT !.pc = "served", !.data = r.data,
                            !.rem = 0, !.victim = NoPath, !.gain = 0])
    BY <1>1 DEF LocalsFresh, Locals, Working, Filling
<1>4. cache' = [cache EXCEPT ![r.path] = e] /\ UNCHANGED disk
    BY DEF Insert, Stamp
<1>5. cache'[r.path] = e /\ \A q \in Path : q # r.path => cache'[q] = cache[q]
    BY <1>1, <1>4 DEF TypeInv, EntriesOK
<1>6. \A q \in Cached' : q # r.path => q \in Cached
    BY <1>5 DEF Cached
<1>7. EntriesFresh'
    BY <1>2, <1>4, <1>5, <1>6 DEF FreshInv, EntriesFresh, Cached, Mtime
<1>8. QED
    BY <1>3, <1>7, FreshGoesOn DEF Insert, Serve, FreshInv

LEMMA FreshLoad ==
    ASSUME CacheAssumption, TypeInv, FreshInv, NEW t \in Thread, NEW p \in Path, Load(t, p)
    PROVE  FreshInv'
<1>1. disk[p].version <= disk[p].version
    BY Constant DEF TypeInv, File
<1>2. \A c \in {"lookup", "map"} : LocalsFresh([Idle EXCEPT !.path = p, !.meta = disk[p], !.pc = c])
    BY <1>1 DEF LocalsFresh, Idle, Working, Filling
<1>3. PICK r \in {Idle} \cup {[Idle EXCEPT !.path = p, !.meta = disk[p], !.pc = c] :
                                 c \in {"lookup", "map"}} :
          Goto(t, r) /\ UNCHANGED <<disk, cache>>
    BY DEF Load, Fail
<1>4. LocalsFresh(r)
    BY <1>2, IdleFresh
<1>5. QED
    BY <1>3, <1>4, FreshThread

LEMMA FreshPurge ==
    ASSUME CacheAssumption, TypeInv, FreshInv, NEW t \in Thread,
           Done(t) \/ Purge(t) \/ PurgeOne(t)
    PROVE  FreshInv'
<1> DEFINE r == thread[t]
<1>1. CASE Done(t)
    BY <1>1, IdleFresh, FreshThread DEF Done
<1>2. CASE Purge(t)
  <2>1. \A S : LocalsFresh([Idle EXCEPT !.pc = "purge", !.todo = S])
    BY DEF LocalsFresh, Idle, Working, Filling
  <2>2. QED
    BY <1>2, <2>1, FreshThread DEF Purge
<1>3. CASE PurgeOne(t)
  <2> DEFINE n(p) == IF r.todo = {p} THEN Idle ELSE [r EXCEPT !.todo = @ \ {p}]
  <2>1. r \in Locals /\ r.pc = "purge"
    BY <1>3 DEF PurgeOne, TypeInv
  <2>2. \A p : LocalsFresh([r EXCEPT !.todo = @ \ {p}])
    BY <2>1 DEF LocalsFresh, Locals, Working, Filling
  <2>3. \A p : LocalsFresh(n(p))
    BY <2>2, IdleFresh
  <2>4. PICK p : cache' = Removed(p) /\ Goto(t, n(p))
    BY <1>3 DEF PurgeOne
  <2> HIDE DEF n
  <2>5. QED
    BY <1>3, <2>3, <2>4, FreshRemoves DEF PurgeOne
<1>4. QED
    BY <1>1, <1>2, <1>3

\* Files get newer.
LEMMA FreshChange ==
    ASSUME CacheAssumption, TypeInv, FreshInv, NEW p \in Path, Change(p)
    PROVE  FreshInv'
<1>1. PICK now \in 1..MaxVersion, n \in Sizes \cup {Gone} :
        /\ \A q \in Path : disk[q].version < now
        /\ disk' = [disk EXCEPT ![p] = [version |-> now, size |-> n]]
    BY DEF Change
<1>2. \A q \in Path : disk[q].version \in Int /\ disk'[q].version \in Int
    BY <1>1, Constant DEF TypeInv, File
<1>3. \A q \in Path : disk[q].version <= disk'[q].version
    BY <1>1, <1>2 DEF TypeInv
<1>4. cache' = cache /\ thread' = thread
    BY DEF Change
<1>5. \A q \in Cached : cache[q].data.version \in Int
    BY Constant DEF TypeInv, EntriesOK, Cached, Entry, File
<1>6. EntriesFresh'
  <2>1. \A q \in Cached : cache[q].data.version <= disk'[q].version
    BY <1>2, <1>3, <1>5 DEF FreshInv, EntriesFresh, Cached
  <2>2. QED
    BY <1>4, <2>1 DEF FreshInv, EntriesFresh, Cached, Mtime
<1>7. ASSUME NEW t \in Thread PROVE LocalsFresh(thread[t])'
  <2> DEFINE r == thread[t]
  <2>1. LocalsOK(r) /\ LocalsFresh(r) /\ r \in Locals
    BY DEF TypeInv, FreshInv
  <2>2. r.meta.version \in Int /\ r.data.version \in Int
    BY <2>1, Constant DEF Locals, File
  <2>3. r.pc \in Filling => r.pc \in Working
    BY DEF Filling, Working
  <2>4. r.pc \in Working => r.meta.version <= disk'[r.path].version
    BY <1>2, <1>3, <2>1, <2>2 DEF LocalsOK, LocalsFresh
  <2>5. r.pc \in Filling => r.data.version <= disk'[r.path].version
    BY <1>2, <1>3, <2>1, <2>2, <2>3 DEF LocalsOK, LocalsFresh
  <2>6. QED
    BY <1>4, <2>1, <2>4, <2>5 DEF LocalsFresh, Mtime
<1>8. QED
    BY <1>6, <1>7 DEF FreshInv

LEMMA FreshAlways == Spec => []FreshInv
<1>1. Init => FreshInv
  <2> SUFFICES ASSUME Init PROVE FreshInv
    OBVIOUS
  <2>1. Cached = {}
    BY DEF Init, Cached
  <2>2. \A t \in Thread : thread[t] = Idle
    BY DEF Init
  <2>3. QED
    BY <2>1, <2>2, IdleFresh DEF FreshInv, EntriesFresh
<1>2. TypeInv /\ FreshInv /\ [Next]_vars => FreshInv'
  <2> SUFFICES ASSUME TypeInv, FreshInv, [Next]_vars PROVE FreshInv'
    OBVIOUS
  <2> USE CacheAssumption
  <2>1. ASSUME NEW t \in Thread, Run(t) \/ Done(t) \/ Purge(t) PROVE FreshInv'
    BY <2>1, FreshRun, FreshRoom, FreshInsert, FreshPurge DEF Run
  <2>2. CASE UNCHANGED vars
    BY <2>2 DEF vars, FreshInv, EntriesFresh, LocalsFresh, Cached, Mtime
  <2>3. QED
    BY <2>1, <2>2, FreshLoad, FreshChange DEF Next
<1>3. QED
    BY <1>1, <1>2, TypesAlways, PTL DEF Spec

\* What load_file returns is at least as new as the file was when it was called,
\* by modification time, though its look at the file, its reading and its
\* insertion are steps between which files change and entries come and go.
THEOREM ServesFresh == Spec => []FreshServed
<1>1. TypeInv /\ FreshInv => FreshServed
  <2> SUFFICES ASSUME TypeInv, FreshInv, NEW t \in Thread, thread[t].pc = "served"
               PROVE  /\ Mtime(thread[t].data) >= Mtime(thread[t].meta)
                      /\ thread[t].data.version <= disk[thread[t].path].version
    BY DEF FreshServed
  <2>1. thread[t].pc \in Filling
    BY DEF Filling
  <2>2. /\ thread[t].data.version <= disk[thread[t].path].version
        /\ Mtime(thread[t].meta) <= Mtime(thread[t].data)
    BY <2>1 DEF FreshInv, LocalsFresh
  <2>3. QED
    BY <2>2
<1>2. QED
    BY <1>1, TypesAlways, FreshAlways, PTL

-----------------------------------------------------------------------------
(* The limits. *)

\* The threads that have found the cache not full, and have not inserted yet.
Admitted == {t \in Thread : thread[t].pc \in {"sum", "room", "trim", "insert"}}

\* A file that was let in counts already; the last of them found room for one.
Bounded == Cardinality(Cached) + Cardinality(Admitted) <= MaxCacheFiles - 1 + Cardinality(Thread)

Admits(pc) == pc \in {"sum", "room", "trim", "insert"}

\* Where the steps of a thread lead it, and that the other threads stay.
LEMMA Goes ==
    ASSUME TypeInv, NEW t \in Thread
    PROVE  /\ (\E r : Goto(t, r)) => \A s \in Thread : s # t => thread'[s] = thread[s]
           /\ MapFile(t) \/ Lookup(t) \/ ReadFile(t) => ~Admits(thread'[t].pc)
           /\ Done(t) \/ Purge(t) \/ PurgeOne(t) => ~Admits(thread'[t].pc)
           /\ \A p \in Path : Load(t, p) => ~Admits(thread'[t].pc)
           /\ Evict(t) \/ Insert(t) => ~Admits(thread'[t].pc)
           /\ Count(t) => thread'[t].pc \in {"sum", "evict"}
           /\ Sum(t) \/ Trim(t) => thread'[t].pc = "room"
           /\ Room(t) => thread'[t].pc \in {"trim", "insert"}
<1> DEFINE r == thread[t]
<1>1. r \in Locals
    BY DEF TypeInv
<1>2. \A s : Goto(t, s) => /\ thread'[t] = s
                           /\ \A u \in Thread : u # t => thread'[u] = thread[u]
    BY DEF Goto, TypeInv
<1>3. Goto(t, Idle) => thread'[t].pc = "idle"
    BY DEF Goto, TypeInv, Idle
<1>4. \A f : Serve(t, f) => thread'[t].pc = "served"
    BY <1>1 DEF Goto, TypeInv, Serve, Locals
<1>5. MapFile(t) => ~Admits(thread'[t].pc)
    BY <1>3, <1>4 DEF MapFile, Fail, Admits
<1>6. Lookup(t) => ~Admits(thread'[t].pc)
  <2>1. Goto(t, [r EXCEPT !.pc = "read"]) => thread'[t].pc = "read"
    BY <1>1 DEF Goto, TypeInv, Locals
  <2>2. QED
    BY <1>4, <2>1 DEF Lookup, Admits
<1>7. ReadFile(t) => ~Admits(thread'[t].pc)
  <2>1. \A f : Goto(t, [r EXCEPT !.pc = "count", !.data = f]) => thread'[t].pc = "count"
    BY <1>1 DEF Goto, TypeInv, Locals
  <2>2. QED
    BY <1>3, <2>1 DEF ReadFile, Fail, Admits
<1>8. Done(t) \/ Purge(t) \/ PurgeOne(t) => ~Admits(thread'[t].pc)
  <2>1. \A S : Goto(t, [Idle EXCEPT !.pc = "purge", !.todo = S]) => thread'[t].pc = "purge"
    BY DEF Goto, TypeInv, Idle
  <2>2. \A p : r.pc = "purge" /\ Goto(t, [r EXCEPT !.todo = @ \ {p}]) => thread'[t].pc = "purge"
    BY <1>1 DEF Goto, TypeInv, Locals
  <2>3. PurgeOne(t) => r.pc = "purge" /\ \E p : \/ Goto(t, Idle)
                                                \/ Goto(t, [r EXCEPT !.todo = @ \ {p}])
    BY DEF PurgeOne
  <2>4. QED
    BY <1>3, <2>1, <2>2, <2>3 DEF Done, Purge, Admits
<1>9. ASSUME NEW p \in Path, Load(t, p) PROVE ~Admits(thread'[t].pc)
  <2>1. \A c : Goto(t, [Idle EXCEPT !.path = p, !.meta = disk[p], !.pc = c]) => thread'[t].pc = c
    BY DEF Goto, TypeInv, Idle
  <2>2. Goto(t, Idle) \/ \E c \in {"lookup", "map"} :
           Goto(t, [Idle EXCEPT !.path = p, !.meta = disk[p], !.pc = c])
    BY <1>9 DEF Load, Fail
  <2>3. QED
    BY <1>3, <2>1, <2>2 DEF Admits
<1>10. Evict(t) \/ Insert(t) => ~Admits(thread'[t].pc)
  <2>1. Goto(t, [r EXCEPT !.pc = "count", !.victim = NoPath]) => thread'[t].pc = "count"
    BY <1>1 DEF Goto, TypeInv, Locals
  <2>2. QED
    BY <1>4, <2>1 DEF Evict, Insert, Admits
<1>11. Count(t) => thread'[t].pc \in {"sum", "evict"}
  <2>1. Goto(t, [r EXCEPT !.pc = "sum"]) => thread'[t].pc = "sum"
    BY <1>1 DEF Goto, TypeInv, Locals
  <2>2. \A p : Goto(t, [r EXCEPT !.pc = "evict", !.victim = p]) => thread'[t].pc = "evict"
    BY <1>1 DEF Goto, TypeInv, Locals
  <2>3. QED
    BY <2>1, <2>2 DEF Count
<1>12. Sum(t) \/ Trim(t) => thread'[t].pc = "room"
  <2>1. \A n : Goto(t, [r EXCEPT !.pc = "room", !.rem = n]) => thread'[t].pc = "room"
    BY <1>1 DEF Goto, TypeInv, Locals
  <2>2. \A n : Goto(t, [r EXCEPT !.pc = "room", !.victim = NoPath, !.gain = 0, !.rem = n])
                 => thread'[t].pc = "room"
    BY <1>1 DEF Goto, TypeInv, Locals
  <2>3. QED
    BY <2>1, <2>2 DEF Sum, Trim
<1>13. Room(t) => thread'[t].pc \in {"trim", "insert"}
  <2>1. Goto(t, [r EXCEPT !.pc = "insert", !.rem = 0]) => thread'[t].pc = "insert"
    BY <1>1 DEF Goto, TypeInv, Locals
  <2>2. \A p, n : Goto(t, [r EXCEPT !.pc = "trim", !.victim = p, !.gain = n])
                    => thread'[t].pc = "trim"
    BY <1>1 DEF Goto, TypeInv, Locals
  <2>3. QED
    BY <2>1, <2>2 DEF Room
<1>14. (\E s : Goto(t, s)) => \A u \in Thread : u # t => thread'[u] = thread[u]
    BY <1>2
<1>15. QED
    BY <1>5, <1>6, <1>7, <1>8, <1>9, <1>10, <1>11, <1>12, <1>13, <1>14

\* Every step of a thread leads it somewhere.
LEMMA Steps ==
    ASSUME [Next]_vars
    PROVE  \/ UNCHANGED thread
           \/ \E t \in Thread : /\ \E r : Goto(t, r)
                                /\ \/ Run(t) \/ Done(t) \/ Purge(t)
                                   \/ \E p \in Path : Load(t, p)
<1>1. \A t \in Thread : Run(t) \/ Done(t) \/ Purge(t) => \E r : Goto(t, r)
    BY DEF Run, Done, Purge, MapFile, Lookup, ReadFile, Count, Evict, Sum, Room, Trim,
           Insert, PurgeOne, Serve, Fail
<1>2. \A t \in Thread, p \in Path : Load(t, p) => \E r : Goto(t, r)
    BY DEF Load, Fail
<1>3. \A p \in Path : Change(p) => UNCHANGED thread
    BY DEF Change
<1>4. QED
    BY <1>1, <1>2, <1>3 DEF Next, vars

\* The threads, and the entries, can be counted.
LEMMA Countable ==
    ASSUME ThreadsFinite, TypeInv
    PROVE  /\ IsFiniteSet(Admitted) /\ IsFiniteSet(Cached)
           /\ Cardinality(Admitted) \in Nat /\ Cardinality(Cached) \in Nat
           /\ Cardinality(Thread) \in Nat
           /\ \A S \in SUBSET Thread : Cardinality(S) <= Cardinality(Thread)
<1>1. Admitted \in SUBSET Thread
    BY DEF Admitted
<1>2. IsFiniteSet(Thread)
    BY DEF ThreadsFinite
<1>3. IsFiniteSet(Admitted)
    BY <1>1, <1>2, FS_Subset
<1>4. \A S \in SUBSET Thread : Cardinality(S) <= Cardinality(Thread)
    BY <1>2, FS_Subset
<1>5. IsFiniteSet(Cached)
    BY DEF TypeInv, EntriesOK
<1>6. QED
    BY <1>2, <1>3, <1>4, <1>5, FS_CardinalityType

\* Fewer entries and fewer threads on their way.
LEMMA BoundedShrinks ==
    ASSUME CacheAssumption, ThreadsFinite, TypeInv, TypeInv', Bounded,
           Cached' \subseteq Cached, Admitted' \subseteq Admitted
    PROVE  Bounded'
<1> DEFINE a == Cardinality(Admitted)
           b == Cardinality(Admitted')
           c == Cardinality(Cached)
           d == Cardinality(Cached')
           n == Cardinality(Thread)
<1>1. a \in Nat /\ c \in Nat /\ n \in Nat
    BY Countable
<1>2. b <= a /\ d <= c
    BY Countable, FS_Subset
<1>3. b \in Nat /\ d \in Nat
    BY Countable, FS_Subset, FS_CardinalityType
<1>4. c + a <= MaxCacheFiles - 1 + n
    BY DEF Bounded
<1>5. MaxCacheFiles \in Nat
    BY Constant
<1> HIDE DEF a, b, c, d, n
<1>6. d + b <= MaxCacheFiles - 1 + n
    BY <1>1, <1>2, <1>3, <1>4, <1>5
<1>7. QED
    BY <1>6 DEF Bounded, b, d, n

\* A thread is let in while the cache is not full.
LEMMA BoundedCount ==
    ASSUME CacheAssumption, ThreadsFinite, TypeInv, TypeInv', NEW t \in Thread, Count(t), ~Full
    PROVE  Bounded'
<1> DEFINE b == Cardinality(Admitted')
           c == Cardinality(Cached)
           n == Cardinality(Thread)
<1>1. c \in Nat /\ n \in Nat
    BY Countable
<1>2. Admitted' \in SUBSET Thread
    BY DEF Admitted
<1>3. b <= n /\ b \in Nat
    BY <1>2, Countable, FS_Subset, FS_CardinalityType DEF ThreadsFinite
<1>4. ~(c >= MaxCacheFiles)
    BY DEF Full
<1>5. MaxCacheFiles \in Nat
    BY Constant
<1>6. Cached' = Cached
    BY DEF Count, Cached
<1> HIDE DEF b, c, n
<1>7. c + b <= MaxCacheFiles - 1 + n
    BY <1>1, <1>3, <1>4, <1>5
<1>8. QED
    BY <1>6, <1>7 DEF Bounded, b, c, n

\* A thread inserts its file, and is not on its way any more.
LEMMA BoundedInsert ==
    ASSUME CacheAssumption, ThreadsFinite, TypeInv, TypeInv', Bounded, NEW t \in Thread, Insert(t)
    PROVE  Bounded'
<1> DEFINE p == thread[t].path
           a == Cardinality(Admitted)
           b == Cardinality(Admitted')
           c == Cardinality(Cached)
           d == Cardinality(Cached')
           n == Cardinality(Thread)
<1>1. a \in Nat /\ c \in Nat /\ n \in Nat /\ IsFiniteSet(Admitted) /\ IsFiniteSet(Cached)
    BY Countable
<1>2. Cached' \subseteq Cached \cup {p}
    BY DEF Insert, Cached, TypeInv, EntriesOK
<1>3. t \in Admitted
    BY DEF Admitted, Insert
<1>4. \A s \in Thread : s # t => thread'[s] = thread[s]
    BY Goes DEF Insert, Serve
<1>5. ~Admits(thread'[t].pc)
    BY Goes
<1>6. Admitted' = Admitted \ {t}
    BY <1>3, <1>4, <1>5 DEF Admitted, Admits
<1>7. b = a - 1
    BY <1>1, <1>3, <1>6, FS_RemoveElement
<1>8. d <= c + 1 /\ d \in Nat
  <2>1. IsFiniteSet(Cached \cup {p}) /\ Cardinality(Cached \cup {p}) \in {c, c + 1}
    BY <1>1, FS_AddElement
  <2>2. IsFiniteSet(Cached') /\ d <= Cardinality(Cached \cup {p})
    BY <1>2, <2>1, FS_Subset
  <2>3. d \in Nat
    BY <2>2, FS_CardinalityType
  <2> HIDE DEF c, d
  <2>4. QED
    BY <1>1, <2>1, <2>2, <2>3
<1>9. c + a <= MaxCacheFiles - 1 + n
    BY DEF Bounded
<1>10. MaxCacheFiles \in Nat
    BY Constant
<1> HIDE DEF a, b, c, d, n
<1>11. d + b <= MaxCacheFiles - 1 + n
    BY <1>1, <1>7, <1>8, <1>9, <1>10
<1>12. QED
    BY <1>11 DEF Bounded, b, d, n

LEMMA BoundedKept ==
    ASSUME CacheAssumption, ThreadsFinite, TypeInv, TypeInv', Bounded, [Next]_vars
    PROVE  Bounded'
<1>1. \A p : cache' = Removed(p) => Cached' \subseteq Cached
    BY RemovedOK DEF TypeInv
<1>2. CASE \E t \in Thread : Insert(t) \/ (Count(t) /\ ~Full)
    BY <1>2, BoundedInsert, BoundedCount
<1>3. CASE ~\E t \in Thread : Insert(t) \/ (Count(t) /\ ~Full)
  <2>1. Cached' \subseteq Cached
    <3>1. cache' = cache \/ \E p : cache' = Removed(p)
      BY <1>3 DEF Next, Run, MapFile, Lookup, ReadFile, Count, Evict, Sum, Room, Trim,
                  Done, Purge, PurgeOne, Load, Change, vars
    <3>2. cache' = cache => Cached' = Cached
      BY DEF Cached
    <3>3. QED
      BY <1>1, <3>1, <3>2
  <2>2. ASSUME NEW t \in Thread, Admits(thread'[t].pc) PROVE Admits(thread[t].pc)
    <3>1. CASE thread'[t] = thread[t]
      BY <2>2, <3>1
    <3>2. CASE Sum(t) \/ Trim(t) \/ Room(t)
      BY <3>2 DEF Sum, Trim, Room, Admits
    <3>3. ~Count(t)
      <4>1. \A p : Goto(t, [thread[t] EXCEPT !.pc = "evict", !.victim = p])
                      => thread'[t].pc = "evict"
        BY DEF Goto, TypeInv, Locals
      <4>2. Count(t) /\ Full => thread'[t].pc = "evict"
        BY <4>1 DEF Count
      <4>3. QED
        BY <1>3, <2>2, <4>2 DEF Admits
    <3>4. ~(Evict(t) \/ Insert(t) \/ MapFile(t) \/ Lookup(t) \/ ReadFile(t)
            \/ Done(t) \/ Purge(t) \/ PurgeOne(t) \/ \E p \in Path : Load(t, p))
      BY <2>2, Goes
    <3>5. (thread'[t] = thread[t]) \/ Run(t) \/ Done(t) \/ Purge(t) \/ \E p \in Path : Load(t, p)
      BY Goes, Steps
    <3>6. QED
      BY <3>1, <3>2, <3>3, <3>4, <3>5 DEF Run
  <2>3. Admitted' \subseteq Admitted
    BY <2>2 DEF Admitted, Admits
  <2>4. QED
    BY <2>1, <2>3, BoundedShrinks
<1>4. QED
    BY <1>2, <1>3

\* However many threads find room for a file at the same time and insert theirs
\* later, the cache never holds more than a file per thread, all but one, above
\* max_cache_files.
THEOREM OvershootStaysBounded == Spec => []OvershootBounded
<1> USE CacheAssumption, ThreadsFinite
<1>1. Init => Bounded
  <2> SUFFICES ASSUME Init PROVE Bounded
    OBVIOUS
  <2>1. Cached = {} /\ Admitted = {}
    BY DEF Init, Cached, Admitted, Idle
  <2>2. Cardinality(Thread) \in Nat
    BY Countable, TypesStart
  <2>3. QED
    BY <2>1, <2>2, Constant, FS_EmptySet DEF Bounded
<1>2. TypeInv /\ TypeInv' /\ Bounded /\ [Next]_vars => Bounded'
    BY BoundedKept
<1>3. TypeInv /\ Bounded => OvershootBounded
  <2> SUFFICES ASSUME TypeInv, Bounded PROVE OvershootBounded
    OBVIOUS
  <2> DEFINE a == Cardinality(Admitted)
             c == Cardinality(Cached)
             n == Cardinality(Thread)
  <2>1. a \in Nat /\ c \in Nat /\ n \in Nat /\ MaxCacheFiles \in Nat
    BY Countable, Constant
  <2>2. c + a <= MaxCacheFiles - 1 + n
    BY DEF Bounded
  <2> HIDE DEF a, c, n
  <2>3. c <= MaxCacheFiles - 1 + n
    BY <2>1, <2>2
  <2>4. QED
    BY <2>3 DEF OvershootBounded, c, n
<1>4. QED
    BY <1>1, <1>2, <1>3, TypesAlways, PTL DEF Spec

=============================================================================
