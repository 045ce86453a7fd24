--------------------------- MODULE ConnectionPool ---------------------------
(***************************************************************************)
(* The connection pool of src/src/connection_pool.rs.  The map `pools` (a  *)
(* DashMap) leads from addresses to deques, each behind a tokio mutex.     *)
(* Users get and return connections, clearers call clear (shutdown ends in *)
(* it), sweepers are the cleanup tasks.  A critical section of a deque's   *)
(* mutex has no await in it and is one step; between two steps of an actor *)
(* it awaits a mutex or a connection, or synchronises with the map.        *)
(*                                                                         *)
(* A shard of the map is under a reader/writer lock.  get_connection and   *)
(* clear keep its read guard while they await a mutex, so that entry(),    *)
(* remove() and clear() of that shard have to wait (ShardRead).            *)
(***************************************************************************)
EXTENDS Integers, Sequences, FiniteSets

CONSTANTS
    User, Clearer, Sweeper,     \* the tasks
    Addr, NShards, ShardOf,     \* addresses, and their shards in the map
    PoolId, StreamId,           \* deques and connections alive at once
    NoAddr, NoPool, NoStream,
    MaxConnectionsPerHost, MaxIdleTime, MaxLifetime, EnableKeepAlive,
    AgeCap,                     \* bound: ages are counted up to here
    CounterMod                  \* the counters' modulus, 2^64 in the code

ASSUME PoolAssumption ==
    /\ NoAddr \notin Addr
    /\ NoPool \notin PoolId
    /\ NoStream \notin StreamId
    /\ NShards \in Nat /\ ShardOf \in [Addr -> 1..NShards]
    /\ {MaxConnectionsPerHost, MaxIdleTime, MaxLifetime, AgeCap} \subseteq Nat
    /\ MaxIdleTime < AgeCap /\ MaxLifetime < AgeCap
    /\ EnableKeepAlive \in BOOLEAN
    /\ CounterMod \in Nat \ {0}

\* However many tasks are spawned, at any time there are finitely many.
ASSUME UsersFinite == IsFiniteSet(User)

VARIABLES
    pools,      \* address -> deque
    deque,      \* deque -> its entries, front first
    user,       \* user -> where it is, its address, deque and stream
    clearer,    \* clearer -> where it is, its shard, entry and entries to visit
    job,        \* sweeper -> address -> deque a future of the sweep still holds
    doomed,     \* sweeper -> address it is about to remove
    stats,      \* the atomic counters
    lost        \* history: connections counted active that are never returned

vars == <<pools, deque, user, clearer, job, doomed, stats, lost>>

\* PooledConnection.  Both timestamps are taken when a stream is pooled, so the
\* metadata has one age.
Entry == [stream: StreamId, age: 0..AgeCap]

Counter == {"total", "active", "reused", "hits", "misses"}

\* Where a user's code is, with what it has there: the address it was called
\* with, a deque and a stream.  Between two calls it has a stream, if any, and
\* nothing of the pool says where that one leads.
At(pc, a, p, s) == [pc |-> pc, addr |-> a, ref |-> p, conn |-> s]

Idle == At("idle", NoAddr, NoPool, NoStream)

\* Where a clearer is: at a shard, at an entry, with others of the shard to come.
Visit(pc, k, a, as) == [pc |-> pc, shard |-> k, addr |-> a, todo |-> as]

Off == Visit("off", 1, NoAddr, {})

Init ==
    /\ pools = [a \in Addr |-> NoPool]
    /\ deque = [p \in PoolId |-> <<>>]
    /\ user = [u \in User |-> Idle]
    /\ clearer = [c \in Clearer |-> Off]
    /\ job = [w \in Sweeper |-> [a \in Addr |-> NoPool]]
    /\ doomed = [w \in Sweeper |-> NoAddr]
    /\ stats = [n \in Counter |-> 0]
    /\ lost = 0

Expired(e) == e.age > MaxIdleTime \/ e.age > MaxLifetime

\* Mutant of Skips: an expired entry at the front is passed over, never popped.
SkipsUnpopped(q, k) == k = 0 /\ (q # <<>> => ~Expired(q[1]))

\* The first k entries, and no more, are dropped by the pop_front loop.  They
\* are also those that retain drops: see ExpiredInFront.
Skips(q, k) ==
    /\ \A i \in 1..k : Expired(q[i])
    /\ k < Len(q) => ~Expired(q[k + 1])

\* Mutants: the loop pops once more, > for >=, push_front for push_back.
AfterExtraPop(q, k) == SubSeq(q, k + 3, Len(q))
OverFull(q)     == Len(q) > MaxConnectionsPerHost
PushFront(q, e) == <<e>> \o q

\* The deque after the k dropped entries and the one popped next.
AfterPop(q, k) == SubSeq(q, k + 2, Len(q))

Full(q)        == Len(q) >= MaxConnectionsPerHost
PushBack(q, e) == Append(q, e)

\* Arc: a deque lives while the map, a user or a sweep refers to it.
Referenced(p) ==
    \/ \E a \in Addr : pools[a] = p
    \/ \E u \in User : user[u].ref = p
    \/ \E w \in Sweeper, a \in Addr : job[w][a] = p

\* The step leaves the deques as dq; one that nobody refers to any more is
\* freed and its streams are closed.
Settle(dq) ==
    deque' = [p \in PoolId |-> IF Referenced(p)' THEN dq[p] ELSE <<>>]

InUse(s) ==
    \/ \E u \in User : user[u].conn = s
    \/ \E p \in PoolId : \E i \in DOMAIN deque[p] : deque[p][i].stream = s

\* Mutants: get_connection drops its guard before it awaits the mutex; the iterator
\* of clear, with its guard, is still alive when clear empties the map.
ShardReadByClear(k) ==
    \E c \in Clearer : clearer[c].pc = "lock" /\ clearer[c].shard = k
ShardReadByIter(k) ==
    \/ \E u \in User : user[u].pc = "wait" /\ ShardOf[user[u].addr] = k
    \/ \E c \in Clearer : clearer[c].pc \in {"lock", "wipe"} /\ clearer[c].shard = k

\* A read guard of shard k is held across an await.
ShardRead(k) ==
    \/ \E u \in User : user[u].pc = "wait" /\ ShardOf[user[u].addr] = k
    \/ \E c \in Clearer : clearer[c].pc = "lock" /\ clearer[c].shard = k

Plus(n, d) == (n + d) % CounterMod
Bump(ns)   == [n \in Counter |-> IF n \in ns THEN Plus(stats[n], 1) ELSE stats[n]]

\* Mutants: active is not counted on a miss; the counters are signed.
CountMissIdle   == stats' = Bump({"misses", "total"})
SubActiveSigned == stats' = [stats EXCEPT !["active"] = @ - 1]

CountMiss  == stats' = Bump({"misses", "total", "active"})
CountHit   == stats' = Bump({"hits", "reused"})
SubActive  == stats' = [stats EXCEPT !["active"] = Plus(@, CounterMod - 1)]
Lose       == lost' = Plus(lost, 1)

Become(u, r) == user' = [user EXCEPT ![u] = r]
-----------------------------------------------------------------------------
\* get_connection looks the address up.  Without a deque it is a miss; with one
\* it awaits the deque's mutex and keeps the shard's read guard.
GetConnection(u, a) ==
    /\ user[u].pc = "idle"
    /\ \/ /\ pools[a] = NoPool
          /\ Become(u, At("connect", a, NoPool, NoStream))
          /\ CountMiss
       \/ /\ pools[a] # NoPool
          /\ Become(u, At("wait", a, pools[a], NoStream))
          /\ UNCHANGED stats
    /\ UNCHANGED <<pools, deque, clearer, job, doomed, lost>>

\* The mutex is acquired: the front entries that have expired are dropped, and
\* the next one is the connection; when none is left it is a miss.
PopUnexpired(u) ==
    /\ user[u].pc = "wait"
    /\ LET q == deque[user[u].ref] IN \E k \in 0..Len(q) :
          /\ Skips(q, k)
          /\ \/ /\ k < Len(q)
                /\ Become(u, At("hold", NoAddr, NoPool, q[k + 1].stream))
                /\ CountHit
             \/ /\ k = Len(q)
                /\ Become(u, At("connect", user[u].addr, NoPool, NoStream))
                /\ CountMiss
          /\ UNCHANGED <<pools, clearer, job, doomed, lost>>
          /\ Settle([deque EXCEPT ![user[u].ref] = AfterPop(q, k)])

\* TcpStream::connect succeeds.
ConnectOk(u) ==
    /\ user[u].pc = "connect"
    /\ \E s \in StreamId : ~InUse(s) /\ Become(u, At("hold", NoAddr, NoPool, s))
    /\ UNCHANGED <<pools, deque, clearer, job, doomed, stats, lost>>

\* It fails, or the caller drops the future there: total and active stay up.
ConnectFail(u) ==
    /\ user[u].pc = "connect"
    /\ Become(u, Idle) /\ Lose
    /\ UNCHANGED <<pools, deque, clearer, job, doomed, stats>>

\* The caller drops the future while it awaits the mutex.
GetCancelled(u) ==
    /\ user[u].pc = "wait"
    /\ Become(u, Idle)
    /\ UNCHANGED <<pools, deque, clearer, job, doomed, stats, lost>>
-----------------------------------------------------------------------------
\* The caller drops the stream instead of returning it.
UserDrop(u) ==
    /\ user[u].pc = "hold"
    /\ Become(u, Idle) /\ Lose
    /\ UNCHANGED <<pools, deque, clearer, job, doomed, stats>>

\* return_connection without keep-alive: the stream is closed.
ReturnClose(u) ==
    /\ user[u].pc = "hold"
    /\ Become(u, Idle) /\ SubActive
    /\ UNCHANGED <<pools, deque, clearer, job, doomed, lost>>

\* return_connection finds or inserts the deque of the address its caller names,
\* which need not be the one it got the stream for, under the shard's write lock,
\* and awaits the mutex with a reference to the deque but no guard.
ReturnEntry(u, a) ==
    /\ user[u].pc = "hold"
    /\ EnableKeepAlive
    /\ ~ShardRead(ShardOf[a])
    /\ \E p \in PoolId :
          /\ IF pools[a] = NoPool THEN ~Referenced(p) ELSE p = pools[a]
          /\ pools' = [pools EXCEPT ![a] = p]
          /\ Become(u, At("push", a, p, user[u].conn))
    /\ UNCHANGED <<deque, clearer, job, doomed, stats, lost>>

\* The mutex is acquired: a full deque closes the stream, another pools it.
ReturnPush(u) ==
    LET p == user[u].ref
        e == [stream |-> user[u].conn, age |-> 0] IN
    /\ user[u].pc = "push"
    /\ Become(u, Idle) /\ SubActive
    /\ UNCHANGED <<pools, clearer, job, doomed, lost>>
    /\ \/ Full(deque[p]) /\ Settle(deque)
       \/ ~Full(deque[p]) /\ Settle([deque EXCEPT ![p] = PushBack(@, e)])

\* The caller drops the future while it awaits the mutex: the stream is closed.
ReturnCancelled(u) ==
    /\ user[u].pc = "push"
    /\ Become(u, Idle) /\ Lose
    /\ UNCHANGED <<pools, clearer, job, doomed, stats>>
    /\ Settle(deque)

UserNext(u) ==
    \/ \E a \in Addr : GetConnection(u, a) \/ ReturnEntry(u, a)
    \/ PopUnexpired(u) \/ ConnectOk(u) \/ ConnectFail(u) \/ GetCancelled(u)
    \/ UserDrop(u) \/ ReturnClose(u)
    \/ ReturnPush(u) \/ ReturnCancelled(u)
-----------------------------------------------------------------------------
EntriesOf(k) == {a \in Addr : ShardOf[a] = k /\ pools[a] # NoPool}

Clears(c, r) == clearer' = [clearer EXCEPT ![c] = r]

ClearCall(c) ==
    /\ clearer[c].pc = "off"
    /\ Clears(c, Visit("scan", 1, NoAddr, {}))
    /\ UNCHANGED <<pools, deque, user, job, doomed, stats, lost>>

\* The iterator enters its next shard and takes its first entry, if any: its
\* mutex is awaited with the shard's read guard held.
ClearScan(c) ==
    LET k == clearer[c].shard IN
    /\ clearer[c].pc = "scan"
    /\ \/ k > NShards /\ Clears(c, Visit("wipe", 1, NoAddr, {}))
       \/ /\ k <= NShards /\ EntriesOf(k) = {}
          /\ Clears(c, Visit("scan", k + 1, NoAddr, {}))
       \/ \E a \in EntriesOf(k) : Clears(c, Visit("lock", k, a, EntriesOf(k) \ {a}))
    /\ UNCHANGED <<pools, deque, user, job, doomed, stats, lost>>

\* The mutex is acquired and the deque emptied; on to the next entry.
ClearDeque(c) ==
    LET r == clearer[c] IN
    /\ r.pc = "lock"
    /\ \/ r.todo = {} /\ Clears(c, Visit("scan", r.shard + 1, NoAddr, {}))
       \/ \E a \in r.todo : Clears(c, Visit("lock", r.shard, a, r.todo \ {a}))
    /\ deque' = [deque EXCEPT ![pools[r.addr]] = <<>>]
    /\ UNCHANGED <<pools, user, job, doomed, stats, lost>>

\* self.pools.clear(): the shards in turn, each under its write lock.
ClearWipe(c) ==
    LET k == clearer[c].shard IN
    /\ clearer[c].pc = "wipe"
    /\ \/ /\ k <= NShards /\ ~ShardRead(k)
          /\ pools' = [a \in Addr |-> IF ShardOf[a] = k THEN NoPool ELSE pools[a]]
          /\ Clears(c, Visit("wipe", k + 1, NoAddr, {}))
       \/ /\ k > NShards /\ Clears(c, Off)
          /\ UNCHANGED pools
    /\ UNCHANGED <<user, job, doomed, stats, lost>>
    /\ Settle(deque)

\* The caller drops the future while it awaits a mutex.
ClearCancelled(c) ==
    /\ clearer[c].pc = "lock"
    /\ Clears(c, Off)
    /\ UNCHANGED <<pools, deque, user, job, doomed, stats, lost>>

ClearNext(c) ==
    \/ ClearCall(c) \/ ClearScan(c) \/ ClearDeque(c) \/ ClearWipe(c)
    \/ ClearCancelled(c)
-----------------------------------------------------------------------------
Resting(w) == \A a \in Addr : job[w][a] = NoPool

\* A tick of the cleanup task: one future per entry, each with a clone of the
\* entry's deque.
SweepCollect(w) ==
    /\ Resting(w)
    /\ job' = [job EXCEPT ![w] = pools]
    /\ UNCHANGED <<pools, deque, user, clearer, doomed, stats, lost>>

\* A future acquires the mutex, retains the entries that have not expired and
\* releases it, knowing whether the deque was empty.  One task polls all the
\* futures, so none of them runs between that and the remove.
SweepRetain(w, a) ==
    LET p == job[w][a]
        q == deque[p] IN
    /\ p # NoPool /\ doomed[w] = NoAddr
    /\ \E k \in 0..Len(q) :
          /\ Skips(q, k)
          /\ \/ /\ k = Len(q)
                /\ doomed' = [doomed EXCEPT ![w] = a]
                /\ UNCHANGED job
             \/ /\ k < Len(q)
                /\ job' = [job EXCEPT ![w][a] = NoPool]
                /\ UNCHANGED doomed
          /\ UNCHANGED <<pools, user, clearer, stats, lost>>
          /\ Settle([deque EXCEPT ![p] = SubSeq(q, k + 1, Len(q))])

\* pools_ref.remove(&addr): whatever deque the map has there by now.
SweepRemove(w) ==
    LET a == doomed[w] IN
    /\ a # NoAddr /\ ~ShardRead(ShardOf[a])
    /\ pools' = [pools EXCEPT ![a] = NoPool]
    /\ job' = [job EXCEPT ![w][a] = NoPool]
    /\ doomed' = [doomed EXCEPT ![w] = NoAddr]
    /\ UNCHANGED <<user, clearer, stats, lost>>
    /\ Settle(deque)

\* The task is aborted at an await, and the futures are dropped.
SweepAbort(w) ==
    /\ doomed[w] = NoAddr /\ ~Resting(w)
    /\ job' = [job EXCEPT ![w] = [a \in Addr |-> NoPool]]
    /\ UNCHANGED <<pools, user, clearer, doomed, stats, lost>>
    /\ Settle(deque)

SweepNext(w) ==
    \/ SweepCollect(w) \/ SweepRemove(w) \/ SweepAbort(w)
    \/ \E a \in Addr : SweepRetain(w, a)

Older(q) == [i \in DOMAIN q |->
                [q[i] EXCEPT !.age = IF @ < AgeCap THEN @ + 1 ELSE @]]

\* Time passes for all entries at once.
Tick ==
    /\ deque' = [p \in PoolId |-> Older(deque[p])]
    /\ UNCHANGED <<pools, user, clearer, job, doomed, stats, lost>>

Next ==
    \/ \E u \in User : UserNext(u)
    \/ \E c \in Clearer : ClearNext(c)
    \/ \E w \in Sweeper : SweepNext(w)
    \/ Tick

Spec == Init /\ [][Next]_vars
-----------------------------------------------------------------------------
UserState ==
    {Idle}
      \cup [pc: {"wait"}, addr: Addr, ref: PoolId, conn: {NoStream}]
      \cup [pc: {"connect"}, addr: Addr, ref: {NoPool}, conn: {NoStream}]
      \cup [pc: {"hold"}, addr: {NoAddr}, ref: {NoPool}, conn: StreamId]
      \cup [pc: {"push"}, addr: Addr, ref: PoolId, conn: StreamId]

ClearerState ==
    [pc: {"off", "scan", "wipe"}, shard: 1..(NShards + 1), addr: {NoAddr}, todo: {{}}]
      \cup [pc: {"lock"}, shard: 1..NShards, addr: Addr, todo: SUBSET Addr]

\* The types of the variables; a task has an address, a deque and a stream in
\* exactly the states in which its code holds them.
TypeOK ==
    /\ pools \in [Addr -> PoolId \cup {NoPool}]
    /\ deque \in [PoolId -> Seq(Entry)]
    /\ user \in [User -> UserState]
    /\ clearer \in [Clearer -> ClearerState]
    /\ job \in [Sweeper -> [Addr -> PoolId \cup {NoPool}]]
    /\ doomed \in [Sweeper -> Addr \cup {NoAddr}]
    /\ stats \in [Counter -> 0..(CounterMod - 1)]
    /\ lost \in 0..(CounterMod - 1)

\* A host never has more idle connections than max_connections_per_host, though
\* the check and the push are in return_connection and the deque is shared.
CapacityRespected == \A p \in PoolId : Len(deque[p]) <= MaxConnectionsPerHost

\* The guard a get_connection or a clear holds while it awaits a mutex keeps
\* that deque in the map: nothing is taken from, or cleared in, a dropped one.
GuardPinsDeque ==
    /\ \A u \in User : user[u].pc = "wait" =>
          pools[user[u].addr] # NoPool /\ user[u].ref = pools[user[u].addr]
    /\ \A c \in Clearer : clearer[c].pc = "lock" =>
          \A a \in clearer[c].todo \cup {clearer[c].addr} : pools[a] # NoPool

\* Entries expire from the front: the loop of get_connection, which stops at
\* the first entry that has not, leaves no expired one behind it, and agrees
\* with the retain of the sweep.
ExpiredInFront ==
    \A p \in PoolId : \A i, j \in DOMAIN deque[p] :
        (i < j /\ Expired(deque[p][j])) => Expired(deque[p][i])

CheckedOut == {u \in User : user[u].pc \in {"connect", "hold", "push"}}

\* active_connections drifts from the number of connections checked out: down
\* by one with every hit and up by one with every connection lost.
ActiveDrift ==
    Plus(stats["active"], stats["hits"]) = Plus(Cardinality(CheckedOut), lost)

\* "Remove empty pools": the sweep removes a deque from the map only if it has
\* no connections.
RemovesOnlyEmpty ==
    [][\A w \in Sweeper, a \in Addr :
          (SweepRemove(w) /\ a = doomed[w] /\ pools[a] # NoPool) => deque[pools[a]] = <<>>]_vars
-----------------------------------------------------------------------------
IdsIn(q) == {q[i].stream : i \in DOMAIN q}

\* What a user sees of the pool: the idle connections the map leads to.
IdleIds == [a \in Addr |-> IF pools[a] = NoPool THEN {} ELSE IdsIn(deque[pools[a]])]

\* A connection users could get at an address stops being there only when it is
\* handed to a user that asked for that address, has expired, is cleared, or goes
\* with the deque of a cleanup that had found one without connections.
LeavesForCause ==
    [][\A a \in Addr : \A s \in IdleIds[a] \ IdleIds'[a] :
          \/ \E u \in User :
                user[u].pc = "wait" /\ user[u].addr = a /\ user'[u].conn = s
          \/ \E i \in DOMAIN deque[pools[a]] :
                deque[pools[a]][i].stream = s /\ Expired(deque[pools[a]][i])
          \/ \E c \in Clearer :
                \/ ClearDeque(c) /\ clearer[c].addr = a
                \/ ClearWipe(c) /\ clearer[c].shard = ShardOf[a]
          \/ \E w \in Sweeper : SweepRemove(w) /\ doomed[w] = a]_vars

\* The addresses users wait for a connection to, and the connections in their
\* hands.
Asks == [u \in User |-> IF user[u].pc \in {"wait", "connect"} THEN user[u].addr
                                                           ELSE NoAddr]
Held == [u \in User |-> user[u].conn]

Promise == INSTANCE PoolPromise WITH idle <- IdleIds, asks <- Asks, held <- Held

\* The pool keeps its promise: each of its steps is one of PoolPromise's or
\* leaves what the users see unchanged.
KeepsPromise == Promise!Spec
=============================================================================
