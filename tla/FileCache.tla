------------------------------ MODULE FileCache ------------------------------
(***************************************************************************)
(* ZeroCopyCache: the files that responders serve from memory, in a        *)
(* DashMap shared by the threads of the server.  A step of a thread is a   *)
(* system call or an operation on the map; a scan of the map is one step.  *)
(* Times of last access are not modelled: any entry may be the oldest, and *)
(* any may have expired.                                                   *)
(***************************************************************************)
EXTENDS Integers, FiniteSets, Functions

CONSTANTS
    Thread, Path, NoPath,
    Sizes,              \* of files; those above MaxFileSize are mapped instead
    Gone,               \* "size" of a file that is not there
    MaxVersion,         \* bound: how often files are changed
    Grain,              \* changes that may get the same modification time
    MaxCacheFiles, MaxFileSize, TotalLimit,
    Word                \* usize is 0..(Word - 1)

ASSUME CacheAssumption ==
    /\ NoPath \notin Path /\ Gone \notin Nat /\ Sizes \subseteq Nat
    /\ Grain \in Nat \ {0} /\ Word \in Nat \ {0}
    /\ MaxCacheFiles \in Nat \ {0}      \* with 0 no load comes to an end
    /\ {MaxVersion, MaxFileSize, TotalLimit} \subseteq Nat

\* The threads of the server: tokio starts as many as it was told to.
ASSUME ThreadsFinite == IsFiniteSet(Thread)

VARIABLES
    disk,       \* path -> the file
    cache,      \* path -> its entry, or Nothing
    thread      \* thread -> where it is, and its locals

vars == <<disk, cache, thread>>

\* What stat and read see of a file: which change made it, and its size.
File    == [version: 0..MaxVersion, size: Sizes \cup {Gone}]
NoFile  == [version |-> 0, size |-> Gone]

Mtime(f) == f.version \div Grain

Entry   == [mtime: 0..MaxVersion, data: File]
Nothing == [mtime |-> 0, data |-> NoFile]

Idle == [pc |-> "idle", path |-> NoPath, meta |-> NoFile, data |-> NoFile,
         rem |-> 0, victim |-> NoPath, gain |-> 0, todo |-> {}]

Init ==
    /\ disk \in [Path -> [version: {0}, size: Sizes]]
    /\ cache = [p \in Path |-> Nothing]
    /\ thread = [t \in Thread |-> Idle]

Cached  == {p \in Path : cache[p] # Nothing}
Size(p) == cache[p].data.size
Total   == FoldFunctionOnSet(+, 0, [p \in Cached |-> Size(p)], Cached)

\* Mutants: a deleted file is read; modification times are not compared; an entry
\* gets the one of when it is inserted; > for >=; the total does not matter; entries
\* are not removed.
NeverUnreadable(f) == FALSE
SamePath(e, m)  == e # Nothing
InsertTime(t)   == Mtime(disk[thread[t].path])
OverFull        == Cardinality(Cached) > MaxCacheFiles
AlwaysRoomy(r)  == TRUE
StillThere(p)   == cache

Unreadable(f) == f.size = Gone
Current(e, m) == e # Nothing /\ e.mtime = Mtime(m)
Stamp(t)      == Mtime(thread[t].meta)
Full          == Cardinality(Cached) >= MaxCacheFiles
Roomy(r)      == r <= TotalLimit
Removed(p)    == [cache EXCEPT ![p] = Nothing]

Goto(t, r) == thread' = [thread EXCEPT ![t] = r]

\* load_file returns the data, or an error.
Serve(t, f) == Goto(t, [thread[t] EXCEPT !.pc = "served", !.data = f,
                                         !.rem = 0, !.victim = NoPath, !.gain = 0])
Fail(t)     == Goto(t, Idle)
-----------------------------------------------------------------------------
\* load_file looks at the file: there is none, or its size decides whether it may
\* be cached.
Load(t, p) ==
    /\ thread[t].pc = "idle"
    /\ \/ disk[p].size = Gone /\ Fail(t)
       \/ /\ disk[p].size # Gone
          /\ Goto(t, [Idle EXCEPT !.path = p, !.meta = disk[p],
                        !.pc = IF disk[p].size <= MaxFileSize THEN "lookup" ELSE "map"])
    /\ UNCHANGED <<disk, cache>>

\* A large file is mapped; one that has become empty cannot be.
MapFile(t) ==
    LET f == disk[thread[t].path] IN
    /\ thread[t].pc = "map"
    /\ IF f.size \in {0, Gone} THEN Fail(t) ELSE Serve(t, f)
    /\ UNCHANGED <<disk, cache>>

\* An entry with the modification time that stat returned is a hit.
Lookup(t) ==
    LET r == thread[t]
        e == cache[r.path] IN
    /\ r.pc = "lookup"
    /\ IF Current(e, r.meta) THEN Serve(t, e.data)
                             ELSE Goto(t, [r EXCEPT !.pc = "read"])
    /\ UNCHANGED <<disk, cache>>

ReadFile(t) ==
    LET r == thread[t]
        f == disk[r.path] IN
    /\ r.pc = "read"
    /\ IF Unreadable(f) THEN Fail(t)
                        ELSE Goto(t, [r EXCEPT !.pc = "count", !.data = f])
    /\ UNCHANGED <<disk, cache>>

\* ensure_cache_capacity, first loop: while the cache is full, the oldest entry
\* is looked for, and removed in a step of its own.
Count(t) ==
    LET r == thread[t] IN
    /\ r.pc = "count"
    /\ \/ ~Full /\ Goto(t, [r EXCEPT !.pc = "sum"])
       \/ Full /\ \E p \in Cached : Goto(t, [r EXCEPT !.pc = "evict", !.victim = p])
    /\ UNCHANGED <<disk, cache>>

\* Whatever the cache has at that path by now is removed.
Evict(t) ==
    LET r == thread[t] IN
    /\ r.pc = "evict"
    /\ cache' = Removed(r.victim)
    /\ Goto(t, [r EXCEPT !.pc = "count", !.victim = NoPath])
    /\ UNCHANGED disk

\* The sizes of the entries, and the size that stat returned for the new one.
Sum(t) ==
    LET r == thread[t] IN
    /\ r.pc = "sum"
    /\ Goto(t, [r EXCEPT !.pc = "room", !.rem = (Total + r.meta.size) % Word])
    /\ UNCHANGED <<disk, cache>>

\* Second loop: until the sizes fit, or nothing is left.
Room(t) ==
    LET r == thread[t] IN
    /\ r.pc = "room"
    /\ \/ /\ Roomy(r.rem) \/ Cached = {}
          /\ Goto(t, [r EXCEPT !.pc = "insert", !.rem = 0])
       \/ /\ ~Roomy(r.rem)
          /\ \E p \in Cached : Goto(t, [r EXCEPT !.pc = "trim", !.victim = p, !.gain = Size(p)])
    /\ UNCHANGED <<disk, cache>>

\* The size subtracted is the one of when the entry was looked for.
Trim(t) ==
    LET r == thread[t] IN
    /\ r.pc = "trim"
    /\ cache' = Removed(r.victim)
    /\ Goto(t, [r EXCEPT !.pc = "room", !.victim = NoPath, !.gain = 0,
                         !.rem = (r.rem + Word - r.gain) % Word])
    /\ UNCHANGED disk

Insert(t) ==
    LET r == thread[t] IN
    /\ r.pc = "insert"
    /\ cache' = [cache EXCEPT ![r.path] = [mtime |-> Stamp(t), data |-> r.data]]
    /\ Serve(t, r.data)
    /\ UNCHANGED disk

\* The responder is done with the data.
Done(t) ==
    /\ thread[t].pc = "served"
    /\ Goto(t, Idle)
    /\ UNCHANGED <<disk, cache>>

\* cleanup_expired collects expired entries, clear_cache clears the map shard by
\* shard; the entries go one by one.
Purge(t) ==
    /\ thread[t].pc = "idle"
    /\ \E S \in (SUBSET Cached) \ {{}} :
          Goto(t, [Idle EXCEPT !.pc = "purge", !.todo = S])
    /\ UNCHANGED <<disk, cache>>

PurgeOne(t) ==
    LET r == thread[t] IN
    /\ r.pc = "purge"
    /\ \E p \in r.todo :
          /\ cache' = Removed(p)
          /\ Goto(t, IF r.todo = {p} THEN Idle ELSE [r EXCEPT !.todo = @ \ {p}])
    /\ UNCHANGED disk

\* Somebody writes, truncates or deletes a file.
Change(p) ==
    \E now \in 1..MaxVersion, n \in Sizes \cup {Gone} :
        /\ \A q \in Path : disk[q].version < now
        /\ \E q \in Path : disk[q].version = now - 1
        /\ disk' = [disk EXCEPT ![p] = [version |-> now, size |-> n]]
        /\ UNCHANGED <<cache, thread>>

\* What a thread does once it is called.
Run(t) ==
    \/ MapFile(t) \/ Lookup(t) \/ ReadFile(t) \/ Count(t) \/ Evict(t)
    \/ Sum(t) \/ Room(t) \/ Trim(t) \/ Insert(t) \/ PurgeOne(t)

Next ==
    \/ \E t \in Thread : Run(t) \/ Done(t) \/ Purge(t)
    \/ \E t \in Thread, p \in Path : Load(t, p)
    \/ \E p \in Path : Change(p)

Spec == Init /\ [][Next]_vars

\* The operating system runs every thread; none of these steps waits for
\* anything but a lock of the map that is held for one operation.
FairSpec == Spec /\ \A t \in Thread : WF_vars(Run(t))
-----------------------------------------------------------------------------
Locals == [pc: {"idle", "lookup", "map", "read", "count", "evict", "sum", "room",
                "trim", "insert", "served", "purge"},
           path: Path \cup {NoPath}, meta: File, data: File, rem: 0..(Word - 1),
           victim: Path \cup {NoPath}, gain: Sizes \cup {0}, todo: SUBSET Path]

\* The types of the variables; entries and served data are of files that were
\* there.
TypeOK ==
    /\ disk \in [Path -> File]
    /\ cache \in [Path -> Entry]
    /\ thread \in [Thread -> Locals]
    /\ \A p \in Cached : Size(p) \in Sizes
    /\ \A t \in Thread :
          thread[t].pc \in {"count", "evict", "sum", "room", "trim", "insert", "served"}
             => thread[t].data.size \in Sizes

\* What is served is, by modification times, at least as new as the file was when
\* load_file was called, though the cache pairs the time of one system call
\* with the content of a later one and other threads replace and evict entries.
FreshServed ==
    \A t \in Thread : thread[t].pc = "served" =>
        /\ Mtime(thread[t].data) >= Mtime(thread[t].meta)
        /\ thread[t].data.version <= disk[thread[t].path].version

\* The capacity is ensured in one step and used in another: the cache can hold
\* more than max_cache_files, but each thread adds one file at most to the last
\* it let in.
OvershootBounded ==
    Cardinality(Cached) <= MaxCacheFiles - 1 + Cardinality(Thread)

\* What one thread alone would leave in the cache: the total's limit, or a single
\* larger file.
Alone == IF TotalLimit < MaxFileSize THEN MaxFileSize ELSE TotalLimit

\* The total is bounded likewise, though what a thread believes is left to evict is
\* stale: it counts as gone what another thread has put back, or has removed before
\* it, and it wraps when an entry is larger than all the thread knows of
\* (remaining_size -= evicted_size).  Each thread still takes the cache past what one
\* leaves by one file at most, unless a file changed between its stat and its read.
BytesBounded ==
    (\A p \in Cached : Size(p) <= MaxFileSize /\ cache[p].mtime = Mtime(cache[p].data)) =>
        Total <= Alone + (Cardinality(Thread) - 1) * MaxFileSize

Loading(t) == thread[t].pc \notin {"idle", "served", "purge"}

\* Loads do not evict each other's files for ever: as long as some thread is in
\* load_file, one or another call of it returns.
SomeLoadReturns ==
    (\E t \in Thread : []<>Loading(t)) =>
        []<><<\E t \in Thread : Loading(t) /\ ~Loading(t)'>>_vars
=============================================================================
