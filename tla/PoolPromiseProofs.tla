-------------------------- MODULE PoolPromiseProofs --------------------------
(***************************************************************************)
(* Theorems about the connections themselves: how they leave the pool, how *)
(* they are counted, and that ConnectionPool implements PoolPromise; and   *)
(* about the pool on a runtime, which implements ConnectionPool and is     *)
(* blocked only by a guard that is held across an await.                   *)
(***************************************************************************)
EXTENDS ConnectionPoolProofs, PoolRuntime, FiniteSetTheorems

\* The map, a user or a sweep has a reference to deque p for address a.
Refers(p, a) ==
    \/ pools[a] = p
    \/ \E u \in User : user[u].ref = p /\ user[u].addr = a
    \/ \E w \in Sweeper : job[w][a] = p

\* Whatever refers to a deque does so for one address; a deque nobody refers to is
\* empty.
OneHost == \A p \in PoolId : \A a, b \in Addr : Refers(p, a) /\ Refers(p, b) => a = b

Freed == \A p \in PoolId : (\A a \in Addr : ~Refers(p, a)) => deque[p] = <<>>

HostInv == OneHost /\ Freed

PoolInv == TypeOK /\ GuardPinsDeque /\ HostInv

\* What a user holds in each state of its code.
LEMMA UserFields ==
    ASSUME PoolAssumption, TypeOK, NEW u \in User
    PROVE  /\ user[u].pc = "idle" => user[u] = Idle
           /\ user[u].pc \in {"wait", "connect", "push"} => user[u].addr \in Addr
           /\ user[u].pc \notin {"wait", "connect", "push"} => user[u].addr = NoAddr
           /\ user[u].pc \in {"wait", "push"} => user[u].ref \in PoolId
           /\ user[u].pc \notin {"wait", "push"} => user[u].ref = NoPool
           /\ user[u].pc \in {"hold", "push"} => /\ user[u].conn \in StreamId
                                                 /\ user[u].conn # NoStream
           /\ user[u].pc \notin {"hold", "push"} => user[u].conn = NoStream
           /\ user[u].pc \in {"idle", "wait", "connect", "hold", "push"}
<1>1. user[u] \in UserState /\ NoStream \notin StreamId
    BY DEF TypeOK, PoolAssumption
<1>2. QED
    BY <1>1 DEF UserState, Idle, At

\* The deques somebody refers to are those Refers is about.
LEMMA ReferencedRefers ==
    ASSUME PoolAssumption, TypeOK, NEW p \in PoolId
    PROVE  Referenced(p) <=> \E a \in Addr : Refers(p, a)
<1>1. ASSUME NEW u \in User, user[u].ref = p PROVE user[u].addr \in Addr
  <2>1. user[u].pc \in {"wait", "push"}
    BY <1>1, UserFields, PoolAssumption DEF PoolAssumption
  <2>2. QED
    BY <2>1, UserFields
<1>2. QED
    BY <1>1 DEF Referenced, Refers
-----------------------------------------------------------------------------
\* A step takes entries from the front of a deque, at most; the streams of the
\* others stay in their order.
ShiftedBy(p, d) ==
    \A i \in 1..Len(deque'[p]) :
        i + d \in 1..Len(deque[p]) /\ deque'[p][i].stream = deque[p][i + d].stream

Shifted(p) == \E d \in Nat : ShiftedBy(p, d)

LEMMA PushedGrows ==
    ASSUME PoolAssumption, TypeOK, NEW p \in PoolId, NEW u \in User, Pushed(p, u)
    PROVE  Len(deque'[p]) = Len(deque[p]) + 1 /\ Len(deque[p]) \in Nat
<1>1. user[u].conn \in StreamId /\ 0 \in 0..AgeCap
    BY UserFields DEF Pushed, PoolAssumption
<1>2. [stream |-> user[u].conn, age |-> 0] \in Entry /\ deque[p] \in Seq(Entry)
    BY <1>1 DEF Entry, TypeOK
<1>3. QED
    BY <1>2, AppendProperties, LenProperties DEF Pushed

LEMMA ShiftedOrPushed ==
    ASSUME PoolAssumption, TypeOK, [Next]_vars, NEW p \in PoolId
    PROVE  Shifted(p) \/ \E u \in User : Pushed(p, u)
<1> DEFINE q == deque[p]
<1>1. q \in Seq(Entry) /\ Len(q) \in Nat
    BY LenProperties DEF TypeOK
<1>2. CASE deque'[p] = q
  <2>1. \A i \in 1..Len(deque'[p]) : i + 0 \in 1..Len(q) /\ q[i] = q[i + 0]
    BY <1>1, <1>2
  <2>2. QED
    BY <1>2, <2>1 DEF Shifted, ShiftedBy
<1>3. CASE deque'[p] = <<>>
  <2>1. Len(deque'[p]) = 0
    BY <1>3, EmptySeq
  <2>2. QED
    BY <2>1 DEF Shifted, ShiftedBy
<1>4. CASE deque'[p] = Older(q)
  <2>1. Len(deque'[p]) = Len(q) /\ \A i \in 1..Len(q) : deque'[p][i].stream = q[i].stream
    BY <1>1, <1>4, OlderEffect
  <2>2. \A i \in 1..Len(q) : i + 0 \in 1..Len(q) /\ q[i] = q[i + 0]
    BY <1>1
  <2>3. QED
    BY <2>1, <2>2 DEF Shifted, ShiftedBy
<1>5. CASE \E k \in Nat \ {0} : deque'[p] = SubSeq(q, k, Len(q))
  <2>1. PICK k \in Nat \ {0} : deque'[p] = SubSeq(q, k, Len(q))
    BY <1>5
  <2>2. /\ Len(deque'[p]) = IF k <= Len(q) THEN Len(q) - k + 1 ELSE 0
        /\ \A i \in 1..(Len(q) - k + 1) : deque'[p][i] = q[k + i - 1]
    BY <1>1, <2>1, SuffixType
  <2>3. \A i \in 1..Len(deque'[p]) :
            /\ i \in 1..(Len(q) - k + 1)
            /\ i + (k - 1) \in 1..Len(q) /\ k + i - 1 = i + (k - 1)
    BY <1>1, <2>2
  <2>4. \A i \in 1..Len(deque'[p]) :
            i + (k - 1) \in 1..Len(q) /\ deque'[p][i].stream = q[i + (k - 1)].stream
    BY <2>2, <2>3
  <2>5. k - 1 \in Nat
    OBVIOUS
  <2>6. QED
    BY <2>4, <2>5 DEF Shifted, ShiftedBy
<1>6. DequeEffect(p)
    BY StepDequeEffect
<1>7. QED
    BY <1>2, <1>3, <1>4, <1>5, <1>6 DEF DequeEffect
-----------------------------------------------------------------------------
\* A step that makes no reference leaves each deque the one host it had.
LEMMA HostKept ==
    ASSUME OneHost, Freed',
           \A p \in PoolId, a \in Addr : Refers(p, a)' => Refers(p, a)
    PROVE  HostInv'
BY DEF HostInv, OneHost

\* The deques are settled by what refers to them then.
LEMMA SettleFreed ==
    ASSUME PoolAssumption, TypeOK', NEW dq, Settle(dq)
    PROVE  Freed'
<1> SUFFICES ASSUME NEW p \in PoolId, \A a \in Addr : ~Refers(p, a)'
             PROVE  deque'[p] = <<>>
    BY DEF Freed
<1>1. ASSUME NEW u \in User, user'[u].ref = p PROVE user'[u].addr \in Addr
  <2>1. user'[u] \in UserState /\ user'[u].ref # NoPool
    BY <1>1 DEF TypeOK, PoolAssumption
  <2>2. QED
    BY <2>1 DEF UserState, Idle, At
<1>2. ~Referenced(p)'
    BY <1>1 DEF Referenced, Refers
<1>3. QED
    BY <1>2 DEF Settle

\* Nothing is freed by a step that keeps every reference and all deques.
LEMMA ReferencesKept ==
    ASSUME Freed, UNCHANGED deque,
           \A p \in PoolId, a \in Addr : Refers(p, a) => \E b \in Addr : Refers(p, b)'
    PROVE  Freed'
BY DEF Freed

\* A user that lets its deque go, keeps it, or takes the one the map has for its
\* address makes no reference that was not there.
LEMMA UserRefers ==
    ASSUME PoolAssumption, TypeOK, NEW u \in User, NEW r, Become(u, r),
           UNCHANGED <<pools, job>>,
           r.ref \in {NoPool, pools[r.addr]}
    PROVE  /\ \A p \in PoolId, a \in Addr : Refers(p, a)' => Refers(p, a)
           /\ user' = [user EXCEPT ![u] = r]
           /\ \A v \in User : v # u => user'[v] = user[v]
           /\ user'[u] = r
<1>1. /\ user' = [user EXCEPT ![u] = r] /\ user'[u] = r
      /\ \A v \in User : v # u => user'[v] = user[v]
    BY DEF Become, TypeOK
<1>2. ASSUME NEW p \in PoolId, NEW a \in Addr, Refers(p, a)' PROVE Refers(p, a)
  <2>1. p # NoPool
    BY DEF PoolAssumption
  <2>2. CASE pools'[a] = p \/ \E w \in Sweeper : job'[w][a] = p
    BY <2>2 DEF Refers
  <2>3. CASE \E v \in User : user'[v].ref = p /\ user'[v].addr = a
    <3>1. PICK v \in User : user'[v].ref = p /\ user'[v].addr = a
      BY <2>3
    <3>2. CASE v = u
      BY <1>1, <2>1, <3>1, <3>2 DEF Refers
    <3>3. CASE v # u
      BY <1>1, <3>1, <3>3 DEF Refers
    <3>4. QED
      BY <3>2, <3>3
  <2>4. QED
    BY <1>2, <2>2, <2>3 DEF Refers
<1>3. QED
    BY <1>1, <1>2

LEMMA UserHosts ==
    ASSUME PoolAssumption, PoolInv, TypeOK', NEW u \in User, UserNext(u)
    PROVE  HostInv'
<1> USE DEF PoolInv, HostInv
<1>a. user[u].pc \in {"wait", "push"} => Refers(user[u].ref, user[u].addr)
    BY UserFields DEF Refers
\* What remains to be shown of a step that leaves the map alone.
<1>b. ASSUME NEW r, Become(u, r), UNCHANGED <<pools, job>>,
             r.ref \in {NoPool, pools[r.addr]},
             Freed'
      PROVE  HostInv'
  <2>1. \A p \in PoolId, a \in Addr : Refers(p, a)' => Refers(p, a)
    BY <1>b, UserRefers
  <2>2. QED
    BY <1>b, <2>1, HostKept
\* A user that leaves its deque alone, or one the map keeps, frees none.
<1>c. ASSUME NEW r, Become(u, r), UNCHANGED <<pools, deque, job>>,
             user[u].pc # "push"
      PROVE  Freed'
  <2>1. user' = [user EXCEPT ![u] = r]
    BY <1>c DEF Become
  <2>2. ASSUME NEW p \in PoolId, NEW a \in Addr, Refers(p, a)
        PROVE  \E b \in Addr : Refers(p, b)'
    <3>1. CASE pools[a] = p \/ \E w \in Sweeper : job[w][a] = p
      BY <1>c, <3>1 DEF Refers
    <3>2. CASE \E v \in User : user[v].ref = p /\ user[v].addr = a
      <4>1. PICK v \in User : user[v].ref = p /\ user[v].addr = a
        BY <3>2
      <4>2. CASE v # u
        BY <2>1, <4>1, <4>2 DEF Refers, TypeOK
      <4>3. CASE v = u
        <5>1. user[u].pc = "wait"
          BY <1>c, <4>1, <4>3, UserFields DEF PoolAssumption
        <5>2. pools'[a] = p
          BY <1>c, <4>1, <4>3, <5>1 DEF GuardPinsDeque
        <5>3. QED
          BY <5>2 DEF Refers
      <4>4. QED
        BY <4>2, <4>3
    <3>3. QED
      BY <2>2, <3>1, <3>2 DEF Refers
  <2>3. QED
    BY <1>c, <2>2, ReferencesKept
<1>1. ASSUME NEW a \in Addr, GetConnection(u, a) PROVE HostInv'
  <2>1. PICK r \in {At("connect", a, NoPool, NoStream), At("wait", a, pools[a], NoStream)} :
            Become(u, r)
    BY <1>1 DEF GetConnection
  <2>2. /\ UNCHANGED <<pools, deque, job>> /\ user[u].pc # "push"
        /\ r.ref \in {NoPool, pools[r.addr]}
    BY <1>1, <2>1 DEF GetConnection, At
  <2>3. QED
    BY <1>b, <1>c, <2>1, <2>2
<1>2. CASE PopUnexpired(u)
  <2>1. PICK r : Become(u, r) /\ r.ref = NoPool /\ UNCHANGED <<pools, job>>
    BY <1>2 DEF PopUnexpired, At
  <2>2. Freed'
    BY <1>2, SettleFreed DEF PopUnexpired
  <2>3. QED
    BY <1>b, <2>1, <2>2
<1>3. CASE ConnectOk(u)
  <2>1. PICK s \in StreamId : Become(u, At("hold", NoAddr, NoPool, s))
    BY <1>3 DEF ConnectOk
  <2>2. UNCHANGED <<pools, deque, job>> /\ user[u].pc # "push"
    BY <1>3 DEF ConnectOk
  <2>3. QED
    BY <1>b, <1>c, <2>1, <2>2 DEF At
<1>4. CASE ConnectFail(u) \/ GetCancelled(u) \/ UserDrop(u) \/ ReturnClose(u)
  <2>1. Become(u, Idle) /\ UNCHANGED <<pools, deque, job>> /\ user[u].pc # "push"
    BY <1>4 DEF ConnectFail, GetCancelled, UserDrop, ReturnClose
  <2>2. QED
    BY <1>b, <1>c, <2>1 DEF Idle, At
<1>5. CASE ReturnPush(u) \/ ReturnCancelled(u)
  <2>1. Become(u, Idle) /\ UNCHANGED <<pools, job>>
    BY <1>5 DEF ReturnPush, ReturnCancelled
  <2>2. Freed'
    BY <1>5, SettleFreed DEF ReturnPush, ReturnCancelled
  <2>3. QED
    BY <1>b, <2>1, <2>2 DEF Idle, At
<1>6. ASSUME NEW a \in Addr, ReturnEntry(u, a) PROVE HostInv'
  <2>1. PICK p \in PoolId :
          /\ IF pools[a] = NoPool THEN ~Referenced(p) ELSE p = pools[a]
          /\ pools' = [pools EXCEPT ![a] = p]
          /\ Become(u, At("push", a, p, user[u].conn))
          /\ UNCHANGED <<deque, job>>
    BY <1>6 DEF ReturnEntry
  <2>2. user[u].ref = NoPool /\ NoPool \notin PoolId
    BY <1>6, UserFields DEF ReturnEntry, PoolAssumption
  <2>3. /\ \A v \in User : v # u => user'[v] = user[v]
        /\ user'[u] = At("push", a, p, user[u].conn)
        /\ \A b \in Addr : b # a => pools'[b] = pools[b]
        /\ pools'[a] = p
    BY <2>1, <2>2 DEF Become, TypeOK
  <2>4. \A r \in PoolId, b \in Addr : Refers(r, b)' => Refers(r, b) \/ (r = p /\ b = a)
    BY <2>1, <2>3 DEF Refers, At
  <2>5. ASSUME NEW r \in PoolId, NEW b \in Addr, Refers(r, b)
        PROVE  \E c \in Addr : Refers(r, c)'
    <3>1. CASE pools[b] = r
      BY <2>1, <2>2, <2>3, <3>1 DEF Refers
    <3>2. CASE pools[b] # r
      BY <2>1, <2>2, <2>3, <2>5, <3>2 DEF Refers
    <3>3. QED
      BY <3>1, <3>2
  <2>6. Freed'
    BY <2>1, <2>5, ReferencesKept
  <2>7. CASE pools[a] # NoPool
    <3>1. Refers(p, a)
      BY <2>1, <2>7 DEF Refers
    <3>2. QED
      BY <2>4, <2>6, <3>1, HostKept
  <2>8. CASE pools[a] = NoPool
    <3>1. \A b \in Addr : ~Refers(p, b)
      BY <2>1, <2>8, ReferencedRefers
    <3>2. OneHost'
      BY <2>4, <3>1 DEF OneHost
    <3>3. QED
      BY <2>6, <3>2
  <2>9. QED
    BY <2>7, <2>8
<1>7. QED
    BY <1>1, <1>2, <1>3, <1>4, <1>5, <1>6 DEF UserNext

LEMMA ClearerHosts ==
    ASSUME PoolAssumption, PoolInv, TypeOK', NEW c \in Clearer, ClearNext(c)
    PROVE  HostInv'
<1> USE DEF PoolInv, HostInv
<1>1. UNCHANGED <<user, job>>
    BY DEF ClearNext, ClearCall, ClearScan, ClearDeque, ClearWipe, ClearCancelled
<1>2. \A a \in Addr : pools'[a] \in {NoPool, pools[a]}
    BY DEF ClearNext, ClearCall, ClearScan, ClearDeque, ClearWipe, ClearCancelled
<1>3. \A p \in PoolId, a \in Addr : Refers(p, a)' => Refers(p, a)
    BY <1>1, <1>2 DEF Refers, PoolAssumption
<1>4. Freed'
  <2>1. CASE ClearWipe(c)
    BY <2>1, SettleFreed DEF ClearWipe
  <2>2. CASE pools' = pools /\ \A p \in PoolId : deque'[p] \in {deque[p], <<>>}
    <3>1. \A p \in PoolId, a \in Addr : Refers(p, a) => Refers(p, a)'
      BY <1>1, <2>2 DEF Refers
    <3>2. QED
      BY <2>2, <3>1 DEF Freed
  <2>3. QED
    BY <2>1, <2>2 DEF ClearNext, ClearCall, ClearScan, ClearDeque, ClearCancelled, TypeOK
<1>5. QED
    BY <1>3, <1>4, HostKept

LEMMA SweeperHosts ==
    ASSUME PoolAssumption, PoolInv, TypeOK', NEW w \in Sweeper, SweepNext(w)
    PROVE  HostInv'
<1> USE DEF PoolInv, HostInv
<1>1. UNCHANGED user
    BY DEF SweepNext, SweepCollect, SweepRetain, SweepRemove, SweepAbort
<1>2. \A a \in Addr :
          /\ pools'[a] \in {NoPool, pools[a]}
          /\ \A v \in Sweeper : job'[v][a] \in {NoPool, pools[a], job[v][a]}
  <2> USE DEF TypeOK
  <2>1. CASE SweepCollect(w)
    BY <2>1 DEF SweepCollect
  <2>2. ASSUME NEW b \in Addr, SweepRetain(w, b)
        PROVE  UNCHANGED pools /\ job' \in {job, [job EXCEPT ![w][b] = NoPool]}
    BY <2>2 DEF SweepRetain
  <2>3. CASE SweepRemove(w)
    BY <2>3 DEF SweepRemove
  <2>4. CASE SweepAbort(w)
    BY <2>4 DEF SweepAbort
  <2>5. CASE \E b \in Addr : SweepRetain(w, b)
    <3>1. PICK b \in Addr : UNCHANGED pools /\ job' \in {job, [job EXCEPT ![w][b] = NoPool]}
      BY <2>2, <2>5
    <3>2. \A v \in Sweeper, a \in Addr : [job EXCEPT ![w][b] = NoPool][v][a] \in {NoPool, job[v][a]}
      OBVIOUS
    <3>3. QED
      BY <3>1, <3>2
  <2>6. QED
    BY <2>1, <2>3, <2>4, <2>5 DEF SweepNext
<1>3. \A p \in PoolId, a \in Addr : Refers(p, a)' => Refers(p, a)
    BY <1>1, <1>2 DEF Refers, PoolAssumption
<1>4. Freed'
  <2>1. CASE \E dq : Settle(dq)
    BY <2>1, SettleFreed
  <2>2. CASE SweepCollect(w)
    <3>1. \A p \in PoolId, a \in Addr : Refers(p, a) => Refers(p, a)'
      BY <2>2 DEF SweepCollect, Resting, Refers, TypeOK, PoolAssumption
    <3>2. QED
      BY <2>2, <3>1 DEF SweepCollect, Freed
  <2>3. QED
    BY <2>1, <2>2 DEF SweepNext, SweepRetain, SweepRemove, SweepAbort
<1>5. QED
    BY <1>3, <1>4, HostKept

\* The passing of time keeps the hosts of deques, their streams being the same.
LEMMA TickHosts ==
    ASSUME PoolAssumption, PoolInv, TypeOK', Tick
    PROVE  HostInv'
<1> USE DEF PoolInv, HostInv
<1>1. UNCHANGED <<pools, user, job>>
    BY DEF Tick
<1>2. \A p \in PoolId, a \in Addr : Refers(p, a)' <=> Refers(p, a)
    BY <1>1 DEF Refers
<1>3. Older(<<>>) = <<>>
  <2>1. DOMAIN <<>> = {} /\ <<>> = [i \in {} |-> NoStream]
    OBVIOUS
  <2>2. QED
    BY <2>1 DEF Older
<1>4. Freed'
    BY <1>2, <1>3 DEF Freed, Tick
<1>5. QED
    BY <1>2, <1>4, HostKept

LEMMA HostsSafe == Spec => []HostInv
<1> USE PoolAssumption
<1>1. Init => HostInv
  <2> SUFFICES ASSUME Init PROVE HostInv
    OBVIOUS
  <2>1. \A p \in PoolId, a \in Addr : ~Refers(p, a)
    BY DEF Init, Refers, Idle, At, PoolAssumption
  <2>2. OneHost
    BY <2>1 DEF OneHost
  <2>3. Freed
    BY DEF Init, Freed
  <2>4. QED
    BY <2>2, <2>3 DEF HostInv
<1>2. TypeOK /\ TypeOK' /\ GuardPinsDeque /\ HostInv /\ [Next]_vars => HostInv'
  <2> SUFFICES ASSUME PoolInv, TypeOK', [Next]_vars PROVE HostInv'
    BY DEF PoolInv
  <2>1. CASE UNCHANGED vars
    BY <2>1 DEF vars, PoolInv, HostInv, OneHost, Freed, Refers
  <2>2. QED
    BY <2>1, UserHosts, ClearerHosts, SweeperHosts, TickHosts DEF Next
<1>3. QED
    BY <1>1, <1>2, TypeCorrect, GuardsPin, PTL DEF Spec

\* No connection is in the hands of two users, of a user and of a deque (even one
\* the map has dropped), or twice in the deques.
HeldOnce ==
    \A u, v \in User :
        (u # v /\ user[u].conn # NoStream /\ user[v].conn # NoStream)
            => user[u].conn # user[v].conn

HeldNotIdle ==
    \A u \in User, p \in PoolId : \A i \in 1..Len(deque[p]) :
        user[u].conn # NoStream => user[u].conn # deque[p][i].stream

IdleOnce ==
    \A p, q \in PoolId : \A i \in 1..Len(deque[p]), j \in 1..Len(deque[q]) :
        (p # q \/ i # j) => deque[p][i].stream # deque[q][j].stream

Alone == HeldOnce /\ HeldNotIdle /\ IdleOnce

LEMMA Offsets ==
    ASSUME NEW S \in SUBSET PoolId, \A p \in S : Shifted(p)
    PROVE  \E d \in [S -> Nat] : \A p \in S : ShiftedBy(p, d[p])
<1> DEFINE d == [p \in S |-> CHOOSE n \in Nat : ShiftedBy(p, n)]
<1>1. \A p \in S : d[p] \in Nat /\ ShiftedBy(p, d[p])
    BY DEF Shifted
<1>2. d \in [S -> Nat]
    BY <1>1
<1>3. QED
    BY <1>1, <1>2

\* A step that puts no stream anywhere leaves none in two places.
LEMMA IdleOnceKept ==
    ASSUME IdleOnce, \A p \in PoolId : Shifted(p)
    PROVE  IdleOnce'
<1>1. PICK d \in [PoolId -> Nat] : \A p \in PoolId : ShiftedBy(p, d[p])
    BY Offsets
<1>2. SUFFICES ASSUME NEW p \in PoolId, NEW q \in PoolId,
                      NEW i \in 1..Len(deque'[p]), NEW j \in 1..Len(deque'[q]),
                      p # q \/ i # j
               PROVE  deque'[p][i].stream # deque'[q][j].stream
    BY DEF IdleOnce
<1>3. /\ i + d[p] \in 1..Len(deque[p]) /\ deque'[p][i].stream = deque[p][i + d[p]].stream
      /\ j + d[q] \in 1..Len(deque[q]) /\ deque'[q][j].stream = deque[q][j + d[q]].stream
    BY <1>1 DEF ShiftedBy
<1>4. p # q \/ i + d[p] # j + d[q]
    BY <1>2
<1>5. deque[p][i + d[p]].stream # deque[q][j + d[q]].stream
    BY <1>3, <1>4, Zenon DEF IdleOnce
<1>6. QED
    BY <1>3, <1>5

LEMMA AloneKept ==
    ASSUME Alone, \A p \in PoolId : Shifted(p),
           \A u \in User : user'[u].conn \in {user[u].conn, NoStream}
    PROVE  Alone'
<1>1. HeldOnce'
    BY DEF Alone, HeldOnce
<1>2. HeldNotIdle'
    BY DEF Alone, HeldNotIdle, Shifted, ShiftedBy
<1>3. IdleOnce'
    BY IdleOnceKept DEF Alone
<1>4. QED
    BY <1>1, <1>2, <1>3 DEF Alone

\* Taking a connection pools none.
LEMMA PopShifts ==
    ASSUME PoolAssumption, TypeOK, NEW u \in User, PopUnexpired(u)
    PROVE  \A p \in PoolId : Shifted(p)
<1> DEFINE r == user[u].ref
           q == deque[r]
<1>1. r \in PoolId
    BY UserFields DEF PopUnexpired
<1>2. q \in Seq(Entry) /\ Len(q) \in Nat
    BY <1>1, LenProperties DEF TypeOK
<1>3. PICK k \in 0..Len(q) :
          /\ \/ /\ k < Len(q)
                /\ Become(u, At("hold", NoAddr, NoPool, q[k + 1].stream))
             \/ Become(u, At("connect", user[u].addr, NoPool, NoStream))
          /\ Settle([deque EXCEPT ![r] = SubSeq(q, k + 2, Len(q))])
    BY DEF PopUnexpired, AfterPop
<1>4. [Next]_vars
  BY DEF UserNext, Next
<1>5. \A v \in User : user[v].pc = "push" => v # u
  BY DEF PopUnexpired
<1>6. SUFFICES ASSUME NEW p \in PoolId, NEW v \in User, Pushed(p, v) PROVE FALSE
  BY <1>4, ShiftedOrPushed
<1>7. Len(deque'[p]) = Len(deque[p]) + 1 /\ Len(deque[p]) \in Nat
  BY <1>6, PushedGrows
<1>8. deque'[p] = deque[p] => Len(deque'[p]) = Len(deque[p])
  OBVIOUS
<1>9. Len(SubSeq(q, k + 2, Len(q))) <= Len(q) /\ Len(SubSeq(q, k + 2, Len(q))) \in Nat
  <2>1. k + 2 \in Nat \ {0}
    BY <1>2
  <2>2. QED
    BY <1>2, <2>1, SuffixType
<1>10. deque'[p] \in {deque[p], <<>>} \/ (p = r /\ deque'[p] = SubSeq(q, k + 2, Len(q)))
  BY <1>3 DEF Settle, TypeOK
<1>11. CASE deque'[p] = deque[p]
  BY <1>7, <1>8, <1>11
<1>12. CASE deque'[p] = <<>>
  <2>1. Len(deque'[p]) = 0
    BY <1>12, EmptySeq
  <2>2. QED
    BY <1>7, <2>1
<1>13. CASE p = r /\ deque'[p] = SubSeq(q, k + 2, Len(q))
  <2>1. Len(deque'[p]) <= Len(deque[p]) /\ Len(deque'[p]) \in Nat
    BY <1>9, <1>13
  <2>2. QED
    BY <1>7, <2>1
<1>14. QED
  BY <1>10, <1>11, <1>12, <1>13

\* A connection taken from a deque is its user's alone.
LEMMA PopAlone ==
    ASSUME PoolAssumption, TypeOK, Alone, NEW u \in User, PopUnexpired(u)
    PROVE  Alone'
<1> DEFINE r == user[u].ref
           q == deque[r]
<1>1. r \in PoolId
    BY UserFields DEF PopUnexpired
<1>2. q \in Seq(Entry) /\ Len(q) \in Nat
    BY <1>1, LenProperties DEF TypeOK
<1>3. PICK k \in 0..Len(q) :
          /\ \/ /\ k < Len(q)
                /\ Become(u, At("hold", NoAddr, NoPool, q[k + 1].stream))
             \/ Become(u, At("connect", user[u].addr, NoPool, NoStream))
          /\ Settle([deque EXCEPT ![r] = SubSeq(q, k + 2, Len(q))])
    BY DEF PopUnexpired, AfterPop
<1>4. \A p \in PoolId : Shifted(p)
    BY PopShifts
<1>5. CASE Become(u, At("connect", user[u].addr, NoPool, NoStream))
    BY <1>4, <1>5, AloneKept DEF Become, At, TypeOK
<1>6. CASE /\ k < Len(q)
           /\ Become(u, At("hold", NoAddr, NoPool, q[k + 1].stream))
  <2>1. /\ user'[u].conn = q[k + 1].stream /\ k + 1 \in 1..Len(q)
        /\ \A v \in User : v # u => user'[v] = user[v]
    BY <1>2, <1>6 DEF Become, At, TypeOK
  <2>2. HeldOnce'
    <3>1. \A v \in User : user[v].conn # NoStream => user[v].conn # q[k + 1].stream
      BY <1>1, <2>1 DEF Alone, HeldNotIdle
    <3>2. ASSUME NEW v \in User, NEW w \in User, v # w,
                 user'[v].conn # NoStream, user'[w].conn # NoStream
          PROVE  user'[v].conn # user'[w].conn
      <4>1. CASE v = u \/ w = u
        BY <2>1, <3>1, <3>2, <4>1
      <4>2. CASE v # u /\ w # u
        BY <2>1, <3>2, <4>2 DEF Alone, HeldOnce
      <4>3. QED
        BY <4>1, <4>2
    <3>3. QED
      BY <3>2 DEF HeldOnce
  <2>3. ASSUME NEW p \in PoolId, NEW i \in 1..Len(deque'[p])
        PROVE  q[k + 1].stream # deque'[p][i].stream
    <3>1. CASE p = r /\ deque'[p] = SubSeq(q, k + 2, Len(q))
      <4>1. k + 2 \in Nat \ {0}
        BY <1>2
      <4>2. /\ Len(deque'[p]) = IF k + 2 <= Len(q) THEN Len(q) - (k + 2) + 1 ELSE 0
            /\ \A j \in 1..(Len(q) - (k + 2) + 1) : deque'[p][j] = q[k + 2 + j - 1]
        BY <1>2, <3>1, <4>1, SuffixType
      <4>3. /\ i \in 1..(Len(q) - (k + 2) + 1)
            /\ k + 2 + i - 1 \in 1..Len(q) /\ k + 2 + i - 1 # k + 1
        <5> DEFINE l == Len(q)
                   m == Len(deque'[p])
        <5>1. l \in Nat /\ k \in 0..l /\ i \in 1..m
          BY <1>2
        <5>2. m = IF k + 2 <= l THEN l - (k + 2) + 1 ELSE 0
          BY <4>2
        <5> HIDE DEF l, m
        <5>3. i \in 1..(l - (k + 2) + 1) /\ k + 2 + i - 1 \in 1..l /\ k + 2 + i - 1 # k + 1
          BY ONLY <5>1, <5>2
        <5>4. QED
          BY ONLY <5>3 DEF l
      <4>4. deque'[p][i] = q[k + 2 + i - 1]
        BY <4>2, <4>3
      <4>5. \A j \in 1..Len(q) : j # k + 1 => q[k + 1].stream # q[j].stream
        BY <1>1, <2>1 DEF Alone, IdleOnce
      <4>6. QED
        BY <3>1, <4>3, <4>4, <4>5
    <3>2. CASE p # r /\ deque'[p] = deque[p]
      <4>1. i \in 1..Len(deque[p]) /\ k + 1 \in 1..Len(deque[r])
        BY <2>1, <3>2
      <4>2. deque[r][k + 1].stream # deque[p][i].stream
        BY <1>1, <3>2, <4>1, Zenon DEF Alone, IdleOnce
      <4>3. QED
        BY <3>2, <4>2
    <3>3. deque'[p] # <<>>
      BY EmptySeq
    <3>4. CASE p = r /\ deque'[p] # SubSeq(q, k + 2, Len(q))
      BY <1>3, <3>3, <3>4 DEF Settle, TypeOK
    <3>5. CASE p # r /\ deque'[p] # deque[p]
      BY <1>3, <3>3, <3>5 DEF Settle, TypeOK
    <3>6. QED
      BY <3>1, <3>2, <3>4, <3>5
  <2>4. HeldNotIdle'
    <3>1. ASSUME NEW v \in User, v # u, NEW p \in PoolId, NEW i \in 1..Len(deque'[p]),
                 user'[v].conn # NoStream
          PROVE  user'[v].conn # deque'[p][i].stream
      <4>1. PICK d \in Nat : ShiftedBy(p, d)
        BY <1>4 DEF Shifted
      <4>2. /\ i + d \in 1..Len(deque[p])
            /\ deque'[p][i].stream = deque[p][i + d].stream
        BY <4>1 DEF ShiftedBy
      <4>3. user'[v] = user[v]
        BY <2>1, <3>1
      <4>4. user[v].conn # deque[p][i + d].stream
        BY <3>1, <4>2, <4>3 DEF Alone, HeldNotIdle
      <4>5. QED
        BY <4>2, <4>3, <4>4
    <3>2. ASSUME NEW p \in PoolId, NEW i \in 1..Len(deque'[p])
          PROVE  user'[u].conn # deque'[p][i].stream
      BY <2>1, <2>3
    <3>3. QED
      BY <3>1, <3>2, Zenon DEF HeldNotIdle
  <2>5. IdleOnce'
    BY <1>4, IdleOnceKept DEF Alone
  <2>6. QED
    BY <2>2, <2>4, <2>5 DEF Alone
<1>7. QED
    BY <1>3, <1>5, <1>6

\* A new connection has an identity no living one has.
LEMMA ConnectAlone ==
    ASSUME PoolAssumption, TypeOK, Alone, NEW u \in User, ConnectOk(u)
    PROVE  Alone'
<1>1. PICK s \in StreamId :
          /\ ~InUse(s)
          /\ Become(u, At("hold", NoAddr, NoPool, s))
    BY DEF ConnectOk
<1>2. /\ user'[u].conn = s /\ deque' = deque
      /\ \A v \in User : v # u => user'[v] = user[v]
    BY <1>1 DEF ConnectOk, Become, At, TypeOK
<1>3. /\ \A v \in User : user[v].conn # NoStream => user[v].conn # s
      /\ \A p \in PoolId : \A i \in 1..Len(deque[p]) : deque[p][i].stream # s
  <2>1. \A p \in PoolId : DOMAIN deque[p] = 1..Len(deque[p])
    BY LenProperties DEF TypeOK
  <2>2. QED
    BY <1>1, <2>1 DEF InUse
<1>4. HeldOnce'
  <2>1. ASSUME NEW v \in User, NEW w \in User, v # w,
               user'[v].conn # NoStream, user'[w].conn # NoStream
        PROVE  user'[v].conn # user'[w].conn
    <3>1. CASE v = u \/ w = u
      BY <1>2, <1>3, <2>1, <3>1
    <3>2. CASE v # u /\ w # u
      BY <1>2, <2>1, <3>2 DEF Alone, HeldOnce
    <3>3. QED
      BY <3>1, <3>2
  <2>2. QED
    BY <2>1 DEF HeldOnce
<1>5. HeldNotIdle'
  <2>1. ASSUME NEW v \in User, NEW p \in PoolId, NEW i \in 1..Len(deque[p]),
               user'[v].conn # NoStream
        PROVE  user'[v].conn # deque[p][i].stream
    <3>1. CASE v = u
      BY <1>2, <1>3, <3>1
    <3>2. CASE v # u
      BY <1>2, <2>1, <3>2 DEF Alone, HeldNotIdle
    <3>3. QED
      BY <3>1, <3>2
  <2>2. QED
    BY <1>2, <2>1 DEF HeldNotIdle
<1>6. IdleOnce'
  <2>1. IdleOnce /\ deque' = deque
    BY <1>2 DEF Alone
  <2>2. QED
    BY <2>1, SMTT(30) DEF IdleOnce
<1>7. QED
    BY <1>4, <1>5, <1>6 DEF Alone

\* A returned connection is in one deque, and no longer in the user's hands.
LEMMA PushAlone ==
    ASSUME PoolAssumption, TypeOK, Alone, NEW u \in User, ReturnPush(u)
    PROVE  Alone'
<1> DEFINE r == user[u].ref
           e == [stream |-> user[u].conn, age |-> 0]
           n == Len(deque[r])
<1>1. /\ r \in PoolId /\ user[u].conn \in StreamId /\ user[u].conn # NoStream
      /\ user[u].pc = "push"
    BY UserFields DEF ReturnPush
<1>2. /\ user'[u].conn = NoStream
      /\ \A v \in User : v # u => user'[v] = user[v]
    BY DEF ReturnPush, Become, Idle, At, TypeOK
<1>3. /\ \A p \in PoolId : p # r => deque'[p] \in {deque[p], <<>>}
      /\ deque'[r] \in {deque[r], <<>>, Append(deque[r], e)}
  <2>1. Settle(deque) \/ Settle([deque EXCEPT ![r] = Append(@, e)])
    BY DEF ReturnPush, PushBack
  <2>2. QED
    BY <1>1, <2>1 DEF Settle, TypeOK
<1>4. ASSUME NEW p \in PoolId, deque'[p] \in {deque[p], <<>>}
      PROVE  Shifted(p)
  <2>1. Len(deque[p]) \in Nat
    BY LenProperties DEF TypeOK
  <2>2. ShiftedBy(p, 0)
    BY <1>4, <2>1, EmptySeq DEF ShiftedBy
  <2>3. QED
    BY <2>2 DEF Shifted
<1>5. CASE deque'[r] \in {deque[r], <<>>}
    BY <1>2, <1>3, <1>4, <1>5, AloneKept
<1>6. CASE deque'[r] = Append(deque[r], e)
  <2>1. e \in Entry /\ deque[r] \in Seq(Entry) /\ n \in Nat
    <3>1. 0 \in 0..AgeCap
      BY DEF PoolAssumption
    <3>2. QED
      BY <1>1, <3>1, LenProperties DEF TypeOK, Entry
  <2>2. /\ Len(deque'[r]) = n + 1
        /\ \A i \in 1..n : deque'[r][i] = deque[r][i]
        /\ deque'[r][n + 1].stream = user[u].conn
    BY <1>6, <2>1, AppendProperties
  <2>3. PICK d \in [PoolId \ {r} -> Nat] : \A p \in PoolId \ {r} : ShiftedBy(p, d[p])
    BY <1>3, <1>4, Offsets
\* Where the stream at a position was before.
  <2> DEFINE o(p, i) == IF p = r THEN i ELSE i + d[p]
  <2>4. ASSUME NEW p \in PoolId, NEW i \in 1..Len(deque'[p])
        PROVE  \/ p = r /\ i = n + 1 /\ deque'[p][i].stream = user[u].conn
               \/ /\ o(p, i) \in 1..Len(deque[p])
                  /\ deque'[p][i].stream = deque[p][o(p, i)].stream
    <3>1. CASE p = r
      <4>1. i \in 1..n \/ i = n + 1
        BY <2>1, <2>2, <3>1
      <4>2. QED
        BY <2>2, <3>1, <4>1
    <3>2. CASE p # r
      BY <2>3, <3>2 DEF ShiftedBy
    <3>3. QED
      BY <3>1, <3>2
  <2>5. \A p \in PoolId, i \in Int, j \in Int : i # j => o(p, i) # o(p, j)
    BY <2>3
  <2>6. \A p \in PoolId : \A i \in 1..Len(deque[p]) :
            user[u].conn # deque[p][i].stream
    BY <1>1 DEF Alone, HeldNotIdle
  <2> HIDE DEF o, e, n
  <2>7. ASSUME NEW p \in PoolId, NEW q \in PoolId,
               NEW i \in 1..Len(deque'[p]), NEW j \in 1..Len(deque'[q]),
               p # q \/ i # j
        PROVE  deque'[p][i].stream # deque'[q][j].stream
    <3>1. CASE p = r /\ i = n + 1 /\ deque'[p][i].stream = user[u].conn
      <4>1. /\ o(q, j) \in 1..Len(deque[q])
            /\ deque'[q][j].stream = deque[q][o(q, j)].stream
        BY <2>4, <2>7, <3>1
      <4>2. QED
        BY <2>6, <3>1, <4>1
    <3>2. CASE q = r /\ j = n + 1 /\ deque'[q][j].stream = user[u].conn
      <4>1. /\ o(p, i) \in 1..Len(deque[p])
            /\ deque'[p][i].stream = deque[p][o(p, i)].stream
        BY <2>4, <2>7, <3>2
      <4>2. QED
        BY <2>6, <3>2, <4>1
    <3>3. CASE /\ o(p, i) \in 1..Len(deque[p]) /\ o(q, j) \in 1..Len(deque[q])
               /\ deque'[p][i].stream = deque[p][o(p, i)].stream
               /\ deque'[q][j].stream = deque[q][o(q, j)].stream
      <4>1. p # q \/ o(p, i) # o(q, j)
        BY <2>5, <2>7
      <4>2. QED
        BY <3>3, <4>1, SMTT(30) DEF Alone, IdleOnce
    <3>4. QED
      BY <2>4, <3>1, <3>2, <3>3
  <2>8. ASSUME NEW v \in User, NEW p \in PoolId, NEW i \in 1..Len(deque'[p]),
               user'[v].conn # NoStream
        PROVE  user'[v].conn # deque'[p][i].stream
    <3>1. v # u /\ user'[v] = user[v]
      BY <1>2, <2>8
    <3>2. user[v].conn # user[u].conn
      BY <1>1, <2>8, <3>1 DEF Alone, HeldOnce
    <3>3. \A j \in 1..Len(deque[p]) : user[v].conn # deque[p][j].stream
      BY <2>8, <3>1 DEF Alone, HeldNotIdle
    <3>4. CASE p = r /\ deque'[p][i].stream = user[u].conn
      BY <3>1, <3>2, <3>4
    <3>5. CASE /\ o(p, i) \in 1..Len(deque[p])
               /\ deque'[p][i].stream = deque[p][o(p, i)].stream
      BY <3>1, <3>3, <3>5
    <3>6. QED
      BY <2>4, <2>8, <3>4, <3>5, Zenon
  <2>9. HeldOnce'
    BY <1>2 DEF Alone, HeldOnce
  <2>10. QED
    BY <2>7, <2>8, <2>9 DEF Alone, HeldNotIdle, IdleOnce
<1>7. QED
    BY <1>3, <1>5, <1>6

\* Steps that neither hand a stream out nor pool one.
LEMMA OthersAlone ==
    ASSUME PoolAssumption, TypeOK, Alone, [Next]_vars,
           \A u \in User : user'[u].conn \in {user[u].conn, NoStream},
           \A p \in PoolId, u \in User : ~Pushed(p, u)
    PROVE  Alone'
BY ShiftedOrPushed, AloneKept

LEMMA UserAlone ==
    ASSUME PoolAssumption, TypeOK, Alone, NEW u \in User, UserNext(u)
    PROVE  Alone'
<1>1. CASE deque' = deque \/ Settle(deque)
  <2>1. \A p \in PoolId, v \in User : ~Pushed(p, v)
    <3>1. SUFFICES ASSUME NEW p \in PoolId, NEW v \in User, Pushed(p, v) PROVE FALSE
      OBVIOUS
    <3>2. deque'[p] \in {deque[p], <<>>}
      BY <1>1, SettleEffect
    <3>3. QED
      BY <3>1, <3>2, PushedGrows, EmptySeq
  <2>2. [Next]_vars
    BY DEF Next
  <2>3. CASE \E r : Become(u, r) /\ r.conn \in {user[u].conn, NoStream}
    <3>1. \A v \in User : user'[v].conn \in {user[v].conn, NoStream}
      BY <2>3 DEF Become, TypeOK
    <3>2. QED
      BY <2>1, <2>2, <3>1, OthersAlone
  <2>4. ASSUME NEW a \in Addr, GetConnection(u, a) PROVE Alone'
    <3>1. Become(u, At("connect", a, NoPool, NoStream))
            \/ Become(u, At("wait", a, pools[a], NoStream))
      BY <2>4 DEF GetConnection
    <3>2. QED
      BY <2>3, <3>1 DEF At
  <2>5. ASSUME NEW a \in Addr, ReturnEntry(u, a) PROVE Alone'
    <3>1. PICK p \in PoolId : Become(u, At("push", a, p, user[u].conn))
      BY <2>5 DEF ReturnEntry
    <3>2. QED
      BY <2>3, <3>1 DEF At
  <2>6. CASE ConnectFail(u) \/ GetCancelled(u) \/ UserDrop(u) \/ ReturnClose(u)
                \/ ReturnCancelled(u)
    <3>1. Become(u, Idle)
      BY <2>6 DEF ConnectFail, GetCancelled, UserDrop, ReturnClose, ReturnCancelled
    <3>2. QED
      BY <2>3, <3>1 DEF Idle, At
  <2>7. QED
    BY <2>4, <2>5, <2>6, PopAlone, ConnectAlone, PushAlone DEF UserNext
<1>2. QED
    BY <1>1, PopAlone, ConnectAlone, PushAlone
       DEF UserNext, GetConnection, ConnectFail, GetCancelled, UserDrop, ReturnClose,
           ReturnEntry, ReturnCancelled

\* Clears, sweeps and the passing of time leave the users alone and pool nothing.
LEMMA ClearerStep ==
    ASSUME PoolAssumption, TypeOK, NEW c \in Clearer, ClearNext(c)
    PROVE  /\ user' = user /\ [Next]_vars
           /\ \A a \in Addr : pools'[a] \in {NoPool, pools[a]}
           /\ \A p \in PoolId, u \in User : ~Pushed(p, u)
<1>1. user' = user /\ [Next]_vars
    BY DEF ClearNext, ClearCall, ClearScan, ClearDeque, ClearWipe, ClearCancelled, Next
<1>2. \A a \in Addr : pools'[a] \in {NoPool, pools[a]}
    BY DEF ClearNext, ClearCall, ClearScan, ClearDeque, ClearWipe, ClearCancelled
<1>3. \A p \in PoolId : deque'[p] \in {deque[p], <<>>}
  <2>1. CASE ClearWipe(c)
    BY <2>1, SettleEffect DEF ClearWipe
  <2>2. QED
    BY <2>1 DEF ClearNext, ClearCall, ClearScan, ClearDeque, ClearCancelled, TypeOK
<1>4. \A p \in PoolId, u \in User : ~Pushed(p, u)
    BY <1>3, PushedGrows, EmptySeq
<1>5. QED
    BY <1>1, <1>2, <1>4

LEMMA SweeperStep ==
    ASSUME PoolAssumption, TypeOK, NEW w \in Sweeper, SweepNext(w)
    PROVE  /\ user' = user /\ [Next]_vars
           /\ \A a \in Addr : pools'[a] \in {NoPool, pools[a]}
           /\ \A p \in PoolId, u \in User : ~Pushed(p, u)
<1>1. user' = user /\ [Next]_vars
    BY DEF SweepNext, SweepCollect, SweepRetain, SweepRemove, SweepAbort, Next
<1>2. ASSUME NEW p \in PoolId PROVE Len(deque'[p]) <= Len(deque[p])
  <2>1. Len(deque[p]) \in Nat /\ deque[p] \in Seq(Entry)
    BY LenProperties DEF TypeOK
  <2>2. CASE deque'[p] \in {deque[p], <<>>}
    BY <2>1, <2>2, EmptySeq
  <2>3. ASSUME NEW a \in Addr, SweepRetain(w, a) PROVE Len(deque'[p]) <= Len(deque[p])
    <3> DEFINE r == job[w][a]
    <3>1. PICK k \in 0..Len(deque[r]) :
              Settle([deque EXCEPT ![r] = SubSeq(deque[r], k + 1, Len(deque[r]))])
      BY <2>3 DEF SweepRetain
    <3>2. \/ deque'[p] \in {deque[p], <<>>}
          \/ r = p /\ deque'[p] = SubSeq(deque[p], k + 1, Len(deque[p]))
      BY <3>1 DEF Settle, TypeOK
    <3>3. CASE r = p /\ deque'[p] = SubSeq(deque[p], k + 1, Len(deque[p]))
      <4>1. k + 1 \in Nat \ {0}
        BY <2>1, <3>3
      <4>2. Len(deque'[p]) = IF k + 1 <= Len(deque[p]) THEN Len(deque[p]) - (k + 1) + 1 ELSE 0
        BY <2>1, <3>3, <4>1, SuffixType
      <4>3. QED
        BY <2>1, <4>1, <4>2
    <3>4. QED
      BY <2>2, <3>2, <3>3
  <2>4. CASE SweepCollect(w) \/ SweepRemove(w) \/ SweepAbort(w)
    BY <2>2, <2>4, SettleEffect DEF SweepCollect, SweepRemove, SweepAbort
  <2>5. QED
    BY <2>3, <2>4 DEF SweepNext
<1>3. \A p \in PoolId, u \in User : ~Pushed(p, u)
    BY <1>2, PushedGrows
<1>4. \A a \in Addr : pools'[a] \in {NoPool, pools[a]}
    BY DEF SweepNext, SweepCollect, SweepRetain, SweepRemove, SweepAbort, TypeOK
<1>5. QED
    BY <1>1, <1>3, <1>4

LEMMA TickStep ==
    ASSUME PoolAssumption, TypeOK, Tick
    PROVE  /\ user' = user /\ pools' = pools /\ [Next]_vars
           /\ \A p \in PoolId, u \in User : ~Pushed(p, u)
<1>1. \A p \in PoolId : Len(deque'[p]) = Len(deque[p])
    BY OlderEffect DEF Tick, TypeOK
<1>2. \A p \in PoolId, u \in User : ~Pushed(p, u)
    BY <1>1, PushedGrows
<1>3. [Next]_vars
    BY Zenon DEF Next
<1>4. user' = user /\ pools' = pools
    BY DEF Tick
<1>5. QED
    BY <1>2, <1>3, <1>4

LEMMA AloneSafe == Spec => []Alone
<1> USE PoolAssumption
<1>1. Init => Alone
    BY EmptySeq DEF Init, Alone, HeldOnce, HeldNotIdle, IdleOnce, Idle, At
<1>2. TypeOK /\ Alone /\ [Next]_vars => Alone'
  <2> SUFFICES ASSUME TypeOK, Alone, [Next]_vars PROVE Alone'
    OBVIOUS
  <2>1. CASE UNCHANGED vars
    <3>1. user' = user /\ deque' = deque
      BY <2>1 DEF vars
    <3>2. HeldOnce'
      BY <3>1 DEF Alone, HeldOnce
    <3>3. HeldNotIdle'
      BY <3>1 DEF Alone, HeldNotIdle
    <3>4. IdleOnce'
      BY <3>1, SMTT(30) DEF Alone, IdleOnce
    <3>5. QED
      BY <3>2, <3>3, <3>4 DEF Alone
  <2>2. CASE user' = user /\ \A p \in PoolId, u \in User : ~Pushed(p, u)
    BY <2>2, OthersAlone
  <2>3. QED
    BY <2>1, <2>2, UserAlone, ClearerStep, SweeperStep, TickStep DEF Next
<1>3. QED
    BY <1>1, <1>2, TypeCorrect, PTL DEF Spec

-----------------------------------------------------------------------------
\* What the users see of the pool: IdleIds and Held.
LEMMA IdsOfDeque ==
    ASSUME TypeOK, NEW p \in PoolId
    PROVE  /\ IdsIn(deque[p]) = {deque[p][i].stream : i \in 1..Len(deque[p])}
           /\ IdsIn(deque[p]) \subseteq StreamId
<1>1. deque[p] \in Seq(Entry)
    BY DEF TypeOK
<1>2. DOMAIN deque[p] = 1..Len(deque[p])
    BY <1>1, LenProperties
<1>3. \A i \in 1..Len(deque[p]) : deque[p][i].stream \in StreamId
    BY <1>1, EntryStream
<1>4. QED
    BY <1>2, <1>3 DEF IdsIn

LEMMA IdleType ==
    ASSUME TypeOK
    PROVE  IdleIds \in [Addr -> SUBSET StreamId]
<1>1. \A a \in Addr : pools[a] # NoPool => pools[a] \in PoolId
    BY DEF TypeOK
<1>2. QED
    BY <1>1, IdsOfDeque DEF IdleIds

\* A host has at most as many idle connections as its deque is long.
LEMMA IdsBounded ==
    ASSUME TypeOK, NEW p \in PoolId
    PROVE  /\ Cardinality(IdsIn(deque[p])) \in Nat
           /\ Cardinality(IdsIn(deque[p])) <= Len(deque[p])
<1> DEFINE n == Len(deque[p])
           f == [i \in 1..n |-> deque[p][i].stream]
<1>1. n \in Nat
    BY LenProperties DEF TypeOK
<1>2. IsFiniteSet(1..n) /\ Cardinality(1..n) = n
    BY <1>1, FS_Interval
<1>3. f \in Surjection(1..n, IdsIn(deque[p]))
  <2>1. IdsIn(deque[p]) = {deque[p][i].stream : i \in 1..n}
    BY IdsOfDeque
  <2>2. /\ \A i \in 1..n : f[i] \in IdsIn(deque[p])
        /\ \A s \in IdsIn(deque[p]) : \E i \in 1..n : f[i] = s
    BY <2>1
  <2>3. f \in [1..n -> IdsIn(deque[p])]
    BY <2>2
  <2>4. QED
    BY <2>2, <2>3 DEF Surjection
<1>4. IsFiniteSet(IdsIn(deque[p])) /\ Cardinality(IdsIn(deque[p])) <= Cardinality(1..n)
    BY <1>2, <1>3, FS_Surjection
<1>5. QED
    BY <1>2, <1>4, FS_CardinalityType

\* The map leads to the same deques with the same streams.
LEMMA IdleSame ==
    ASSUME TypeOK, pools' = pools,
           \A a \in Addr : pools[a] # NoPool =>
               IdsIn(deque'[pools[a]]) = IdsIn(deque[pools[a]])
    PROVE  IdleIds' = IdleIds
BY DEF IdleIds

LEMMA SettledSame ==
    ASSUME TypeOK, pools' = pools, Settle(deque)
    PROVE  IdleIds' = IdleIds
<1>1. \A a \in Addr : pools[a] # NoPool => deque'[pools[a]] = deque[pools[a]]
    BY DEF Settle, Referenced, TypeOK
<1>2. QED
    BY <1>1, IdleSame

\* The map loses deques, and deques lose streams, at most.
LEMMA StepCloses ==
    ASSUME PoolAssumption, TypeOK, TypeOK',
           \A a \in Addr : pools'[a] \in {NoPool, pools[a]},
           \A p \in PoolId : Shifted(p)
    PROVE  Promise!Close
<1>1. \A p \in PoolId : IdsIn(deque'[p]) \subseteq IdsIn(deque[p])
  <2>1. SUFFICES ASSUME NEW p \in PoolId, NEW s \in IdsIn(deque'[p])
                 PROVE  s \in IdsIn(deque[p])
    OBVIOUS
  <2>2. DOMAIN deque[p] = 1..Len(deque[p]) /\ DOMAIN deque'[p] = 1..Len(deque'[p])
    BY LenProperties DEF TypeOK
  <2>3. PICK d \in Nat : ShiftedBy(p, d)
    BY DEF Shifted
  <2>4. PICK i \in 1..Len(deque'[p]) : s = deque'[p][i].stream
    BY <2>2 DEF IdsIn
  <2>5. i + d \in 1..Len(deque[p]) /\ s = deque[p][i + d].stream
    BY <2>3, <2>4 DEF ShiftedBy
  <2>6. QED
    BY <2>2, <2>5 DEF IdsIn
<1>2. \A a \in Addr : IdleIds'[a] \subseteq IdleIds[a]
    BY <1>1 DEF IdleIds, TypeOK, PoolAssumption
<1>3. IdleIds' \in [Addr -> SUBSET StreamId]
  <2>1. \A p \in PoolId : IdsIn(deque'[p]) \subseteq StreamId
    BY <1>1, IdsOfDeque
  <2>2. QED
    BY <2>1 DEF IdleIds, TypeOK
<1>4. QED
    BY <1>2, <1>3 DEF Promise!Close

\* One lemma for each kind of step the users can see, and one for the others.
\* What the promise sees of a user's step.
LEMMA UserSeen ==
    ASSUME TypeOK, NEW u \in User, NEW r, Become(u, r)
    PROVE  /\ Held' = [Held EXCEPT ![u] = r.conn]
           /\ Held[u] = user[u].conn
           /\ r.pc \in {"wait", "connect"} => Asks' = [Asks EXCEPT ![u] = r.addr]
           /\ r.pc \notin {"wait", "connect"} => Asks' = [Asks EXCEPT ![u] = NoAddr]
           /\ user[u].pc \in {"wait", "connect"} => Asks[u] = user[u].addr
           /\ user[u].pc \notin {"wait", "connect"} => Asks[u] = NoAddr
           /\ r.conn = user[u].conn => Held' = Held
           /\ r.pc \notin {"wait", "connect"} /\ user[u].pc \notin {"wait", "connect"}
                  => Asks' = Asks
           /\ /\ r.pc \in {"wait", "connect"} /\ user[u].pc \in {"wait", "connect"}
              /\ r.addr = user[u].addr
              => Asks' = Asks
<1>1. user' = [user EXCEPT ![u] = r] /\ user \in [User -> UserState]
    BY DEF Become, TypeOK
<1>2. Held' = [v \in User |-> IF v = u THEN r.conn ELSE Held[v]]
    BY <1>1 DEF Held
<1>3. Asks' = [v \in User |-> IF v = u THEN (IF r.pc \in {"wait", "connect"} THEN r.addr
                                                                            ELSE NoAddr)
                                       ELSE Asks[v]]
    BY <1>1 DEF Asks
<1>4. Held = [v \in User |-> Held[v]] /\ Asks = [v \in User |-> Asks[v]]
    BY DEF Held, Asks
<1>5. Held[u] = user[u].conn
    BY DEF Held
<1>6. /\ user[u].pc \in {"wait", "connect"} => Asks[u] = user[u].addr
      /\ user[u].pc \notin {"wait", "connect"} => Asks[u] = NoAddr
    BY DEF Asks
<1>7. Held' = [Held EXCEPT ![u] = r.conn] /\ (r.conn = user[u].conn => Held' = Held)
    BY <1>2, <1>4, <1>5
<1>8. /\ r.pc \in {"wait", "connect"} => Asks' = [Asks EXCEPT ![u] = r.addr]
      /\ r.pc \notin {"wait", "connect"} => Asks' = [Asks EXCEPT ![u] = NoAddr]
      /\ (r.pc \notin {"wait", "connect"} /\ user[u].pc \notin {"wait", "connect"}) => Asks' = Asks
      /\ (/\ r.pc \in {"wait", "connect"} /\ user[u].pc \in {"wait", "connect"}
          /\ r.addr = user[u].addr) => Asks' = Asks
    BY <1>3, <1>4, <1>6
<1>9. QED
    BY <1>5, <1>6, <1>7, <1>8

\* The user's pop changes only the deque the map has for its address; what the
\* other users see of the pool stays.
LEMMA PopEffect ==
    ASSUME PoolAssumption, PoolInv, NEW u \in User, PopUnexpired(u)
    PROVE  /\ pools[user[u].addr] = user[u].ref /\ user[u].addr \in Addr
           /\ user[u].ref \in PoolId /\ pools' = pools
           /\ \A b \in Addr : b # user[u].addr => IdleIds'[b] = IdleIds[b]
<1> USE DEF PoolInv, HostInv
<1> DEFINE a == user[u].addr
           r == user[u].ref
<1>1. /\ a \in Addr /\ r \in PoolId /\ pools[a] = r /\ pools' = pools
    BY UserFields DEF PopUnexpired, GuardPinsDeque
<1>2. ASSUME NEW b \in Addr, b # a PROVE IdleIds'[b] = IdleIds[b]
  <2>1. CASE pools[b] = NoPool
    BY <1>1, <2>1 DEF IdleIds
  <2>2. CASE pools[b] # NoPool
    <3>1. PICK p \in PoolId : p = pools[b] /\ p = pools'[b] /\ p # r
      BY <1>1, <1>2, <2>2 DEF OneHost, Refers, TypeOK
    <3>2. PICK q : Settle([deque EXCEPT ![r] = q])
      BY DEF PopUnexpired
    <3>3. Referenced(p)'
      BY <3>1 DEF Referenced
    <3>4. [deque EXCEPT ![r] = q][p] = deque[p]
      BY <3>1 DEF TypeOK
    <3>5. deque'[p] = deque[p]
      BY <3>1, <3>2, <3>3, <3>4 DEF Settle
    <3>6. QED
      BY <1>1, <3>1, <3>5 DEF IdleIds
  <2>3. QED
    BY <2>1, <2>2
<1>3. QED
    BY <1>1, <1>2

LEMMA PopKeeps ==
    ASSUME PoolAssumption, PoolInv, Alone, TypeOK', Alone', NEW u \in User, PopUnexpired(u)
    PROVE  Promise!Next
<1> USE DEF PoolInv, HostInv
<1> DEFINE a == user[u].addr
           r == user[u].ref
           q == deque[r]
<1>1. /\ a \in Addr /\ a # NoAddr /\ r \in PoolId /\ user[u].conn = NoStream
      /\ user[u].pc = "wait" /\ pools[a] = r /\ r # NoPool
    BY UserFields DEF PopUnexpired, GuardPinsDeque, PoolAssumption
<1>2. q \in Seq(Entry) /\ Len(q) \in Nat
    BY <1>1, LenProperties DEF TypeOK
<1>3. PICK k \in 0..Len(q) :
          /\ \/ /\ k < Len(q)
                /\ Become(u, At("hold", NoAddr, NoPool, q[k + 1].stream))
             \/ Become(u, At("connect", a, NoPool, NoStream))
          /\ pools' = pools
    BY DEF PopUnexpired
<1>4. Promise!Close
  <2>1. \A p \in PoolId : Shifted(p)
    BY PopShifts
  <2>2. QED
    BY <1>3, <2>1, StepCloses
<1>5. CASE Become(u, At("connect", a, NoPool, NoStream))
  <2>1. Held' = Held /\ Asks' = Asks
    BY <1>1, <1>5, UserSeen DEF At
  <2>2. QED
    BY <1>4, <2>1 DEF Promise!Next
<1>6. CASE k < Len(q) /\ Become(u, At("hold", NoAddr, NoPool, q[k + 1].stream))
  <2> DEFINE s == q[k + 1].stream
  <2>1. k + 1 \in 1..Len(q)
    BY <1>2, <1>6
  <2>2. s \in StreamId /\ s # NoStream
    BY <1>2, <2>1, EntryStream DEF PoolAssumption
  <2>3. s \in IdleIds[a]
    <3>1. s \in {q[i].stream : i \in 1..Len(q)}
      BY <2>1
    <3>2. IdleIds[a] = IdsIn(q)
      BY <1>1 DEF IdleIds
    <3>3. QED
      BY <1>1, <3>1, <3>2, IdsOfDeque
  <2>4. /\ Held' = [Held EXCEPT ![u] = s] /\ Asks' = [Asks EXCEPT ![u] = NoAddr]
        /\ Asks[u] = a
    BY <1>1, <1>6, UserSeen DEF At
  <2>5. user'[u].conn = s
    BY <1>6 DEF Become, At, TypeOK
  <2>6. ASSUME NEW b \in Addr PROVE s \notin IdleIds'[b]
    <3>1. CASE pools[b] = NoPool
      BY <1>3, <3>1 DEF IdleIds
    <3>2. CASE pools[b] # NoPool
      <4> DEFINE p == pools[b]
      <4>1. p \in PoolId
        BY <3>2 DEF TypeOK
      <4>2. DOMAIN deque'[p] = 1..Len(deque'[p])
        BY <4>1, LenProperties DEF TypeOK
      <4>3. \A i \in 1..Len(deque'[p]) : deque'[p][i].stream # s
        BY <2>2, <2>5, <4>1 DEF Alone, HeldNotIdle
      <4>4. IdleIds'[b] = IdsIn(deque'[p])
        BY <1>3, <3>2 DEF IdleIds
      <4>5. QED
        BY <4>2, <4>3, <4>4 DEF IdsIn
    <3>3. QED
      BY <3>1, <3>2
  <2>7. Promise!Reuse(u)
    <3> HIDE DEF s
    <3>1. Promise!Hand(u, s)
      BY <2>4 DEF Promise!Hand
    <3>2. QED
      BY <1>1, <1>4, <2>3, <2>4, <2>6, <3>1, Zenon DEF Promise!Reuse
  <2>8. QED
    BY <2>7 DEF Promise!Next
<1>7. QED
    BY <1>3, <1>5, <1>6

LEMMA ConnectKeeps ==
    ASSUME PoolAssumption, PoolInv, NEW u \in User, ConnectOk(u)
    PROVE  Promise!Next
<1> USE DEF PoolInv
<1>1. user[u].addr \in Addr /\ user[u].addr # NoAddr /\ user[u].pc = "connect"
    BY UserFields DEF ConnectOk, PoolAssumption
<1>2. PICK s \in StreamId : ~InUse(s) /\ Become(u, At("hold", NoAddr, NoPool, s))
    BY DEF ConnectOk
<1>3. Promise!Unused(s)
  <2>1. \A b \in Addr : s \notin IdleIds[b]
    BY <1>2 DEF InUse, IdleIds, IdsIn, TypeOK
  <2>2. \A v \in User : Held[v] # s
    BY <1>2 DEF InUse, Held
  <2>3. QED
    BY <2>1, <2>2 DEF Promise!Unused
<1>4. Promise!Hand(u, s) /\ Asks[u] # NoAddr
    BY <1>1, <1>2, UserSeen DEF Promise!Hand, At
<1>5. IdleIds' = IdleIds
    BY IdleSame DEF ConnectOk
<1>6. Promise!Connect(u)
    BY <1>3, <1>4, <1>5 DEF Promise!Connect
<1>7. QED
    BY <1>6 DEF Promise!Next

\* The user's connection is closed and the idle ones stay.
LEMMA DropKeeps ==
    ASSUME PoolAssumption, TypeOK, NEW u \in User,
           user[u].pc \in {"hold", "push"}, Become(u, Idle), IdleIds' = IdleIds
    PROVE  Promise!Next
<1>1. user[u].conn # NoStream
    BY UserFields
<1>2. Held' = [Held EXCEPT ![u] = NoStream] /\ Held[u] # NoStream /\ Asks' = Asks
    BY <1>1, UserSeen DEF Idle, At
<1>3. Promise!Drop(u)
    BY <1>2 DEF Promise!Drop, Promise!Release
<1>4. QED
    BY <1>3 DEF Promise!Next

\* A push adds the user's connection to those idle at its address, if the map
\* still leads to the deque, and changes nothing else the users see.
LEMMA PushEffect ==
    ASSUME PoolAssumption, PoolInv, NEW u \in User, ReturnPush(u)
    PROVE  \/ IdleIds' = IdleIds
           \/ /\ IdleIds' = [IdleIds EXCEPT ![user[u].addr] = @ \cup {user[u].conn}]
              /\ Cardinality(IdleIds[user[u].addr]) < MaxConnectionsPerHost
<1> USE DEF PoolInv, HostInv
<1> DEFINE a == user[u].addr
           r == user[u].ref
           e == [stream |-> user[u].conn, age |-> 0]
<1>1. /\ a \in Addr /\ r \in PoolId /\ r # NoPool
      /\ user[u].conn \in StreamId /\ user[u].conn # NoStream
    BY UserFields DEF ReturnPush, PoolAssumption
<1>2. /\ Become(u, Idle) /\ pools' = pools
    BY DEF ReturnPush
<1>3. CASE Settle(deque)
    BY <1>2, <1>3, SettledSame
<1>4. CASE ~Full(deque[r]) /\ Settle([deque EXCEPT ![r] = PushBack(@, e)])
\* The map leads to no other deque that has changed.
  <2>1. \A b \in Addr : pools[b] # NoPool /\ pools[b] # r =>
            deque'[pools[b]] = deque[pools[b]]
    BY <1>2, <1>4 DEF Settle, Referenced, TypeOK
  <2>2. \A b \in Addr : pools[b] = r => b = a
    BY <1>1 DEF OneHost, Refers
  <2>3. CASE pools[a] # r
    <3>1. \A b \in Addr : pools[b] # r
      BY <2>2, <2>3
    <3>2. QED
      BY <1>2, <2>1, <3>1, IdleSame
  <2>4. CASE pools[a] = r
    <3>1. deque'[r] = Append(deque[r], e)
      BY <1>1, <1>2, <1>4, <2>4 DEF Settle, Referenced, PushBack, TypeOK
    <3>2. IdsIn(deque'[r]) = IdsIn(deque[r]) \cup {user[u].conn}
      <4>1. deque[r] \in Seq(Entry) /\ e \in Entry /\ e.stream = user[u].conn
        <5>1. 0 \in 0..AgeCap
          BY DEF PoolAssumption
        <5>2. QED
          BY <1>1, <5>1 DEF TypeOK, Entry
      <4>2. /\ DOMAIN deque[r] = 1..Len(deque[r]) /\ Len(deque[r]) \in Nat
            /\ DOMAIN deque'[r] = 1..(Len(deque[r]) + 1)
            /\ \A i \in 1..Len(deque[r]) : deque'[r][i] = deque[r][i]
            /\ deque'[r][Len(deque[r]) + 1] = e
        BY <3>1, <4>1, LenProperties, AppendProperties
      <4>3. DOMAIN deque'[r] = DOMAIN deque[r] \cup {Len(deque[r]) + 1}
        BY <4>2
      <4>4. \A i \in DOMAIN deque[r] : deque'[r][i] = deque[r][i]
        BY <4>2
      <4>5. IdsIn(deque'[r]) = {deque'[r][i].stream : i \in DOMAIN deque[r]}
                                   \cup {deque'[r][Len(deque[r]) + 1].stream}
        BY <4>3 DEF IdsIn
      <4>6. {deque'[r][i].stream : i \in DOMAIN deque[r]} = IdsIn(deque[r])
        BY <4>4 DEF IdsIn
      <4>7. QED
        BY <4>1, <4>2, <4>5, <4>6
    <3>3. IdleIds[a] = IdsIn(deque[r]) /\ IdleIds'[a] = IdsIn(deque'[r])
      BY <1>1, <1>2, <2>4 DEF IdleIds
    <3>4. \A b \in Addr : b # a => IdleIds'[b] = IdleIds[b]
      BY <1>2, <2>1, <2>2 DEF IdleIds
    <3>5. IdleIds' = [IdleIds EXCEPT ![a] = @ \cup {user[u].conn}]
      <4>1. /\ DOMAIN IdleIds = Addr /\ DOMAIN IdleIds' = Addr
            /\ IdleIds' = [b \in Addr |-> IdleIds'[b]]
        BY DEF IdleIds
      <4>2. IdleIds'[a] = IdleIds[a] \cup {user[u].conn}
        BY <3>2, <3>3
      <4>3. QED
        BY <1>1, <3>4, <4>1, <4>2
    <3>6. Cardinality(IdleIds[a]) < MaxConnectionsPerHost
      <4>1. Len(deque[r]) < MaxConnectionsPerHost /\ Len(deque[r]) \in Nat
        <5>1. Len(deque[r]) \in Nat /\ MaxConnectionsPerHost \in Nat
          BY <1>1, LenProperties DEF TypeOK, PoolAssumption
        <5>2. QED
          BY <1>4, <5>1 DEF Full
      <4>2. Cardinality(IdsIn(deque[r])) <= Len(deque[r])
        BY <1>1, IdsBounded
      <4>3. Cardinality(IdsIn(deque[r])) \in Nat
        BY <1>1, IdsBounded
      <4>4. MaxConnectionsPerHost \in Nat
        BY DEF PoolAssumption
      <4>5. QED
        BY <3>3, <4>1, <4>2, <4>3, <4>4
    <3>7. QED
      BY <3>5, <3>6
  <2>5. QED
    BY <2>3, <2>4
<1>5. QED
    BY <1>3, <1>4 DEF ReturnPush

LEMMA PushKeeps ==
    ASSUME PoolAssumption, PoolInv, NEW u \in User, ReturnPush(u)
    PROVE  Promise!Next
<1> USE DEF PoolInv
<1>1. /\ user[u].pc \in {"hold", "push"} /\ Become(u, Idle) /\ user[u].addr \in Addr
      /\ user[u].conn # NoStream
    BY UserFields DEF ReturnPush
<1>2. CASE IdleIds' = IdleIds
    BY <1>1, <1>2, DropKeeps
<1>3. CASE /\ IdleIds' = [IdleIds EXCEPT ![user[u].addr] = @ \cup {user[u].conn}]
           /\ Cardinality(IdleIds[user[u].addr]) < MaxConnectionsPerHost
  <2>1. Promise!Release(u) /\ Held[u] = user[u].conn
    BY <1>1, UserSeen DEF Promise!Release, Idle, At
  <2>2. \A S : Promise!Cardinality(S) = Cardinality(S)
    BY DEF Promise!Cardinality, Cardinality
  <2>3. Promise!Pool(u, user[u].addr)
    BY <1>3, <2>1, <2>2 DEF Promise!Pool
  <2>4. QED
    BY <1>1, <2>3 DEF Promise!Next
<1>4. QED
    BY <1>2, <1>3, PushEffect

\* A deque that is inserted is empty.
LEMMA EntrySame ==
    ASSUME PoolAssumption, PoolInv, NEW u \in User, NEW a \in Addr, ReturnEntry(u, a)
    PROVE  IdleIds' = IdleIds
<1> USE DEF PoolInv, HostInv
<1>1. PICK p \in PoolId :
          /\ IF pools[a] = NoPool THEN ~Referenced(p) ELSE p = pools[a]
          /\ pools' = [pools EXCEPT ![a] = p]
          /\ UNCHANGED deque
    BY DEF ReturnEntry
<1>2. CASE pools[a] = NoPool
  <2>1. \A b \in Addr : ~Refers(p, b)
    BY <1>1, <1>2, ReferencedRefers
  <2>2. IdsIn(deque[p]) = {}
    BY <2>1 DEF Freed, IdsIn
  <2>3. QED
    BY <1>1, <1>2, <2>2 DEF IdleIds, TypeOK
<1>3. CASE pools[a] # NoPool
  <2>1. pools' = pools
    BY <1>1, <1>3 DEF TypeOK
  <2>2. QED
    BY <1>1, <2>1, IdleSame
<1>4. QED
    BY <1>2, <1>3

LEMMA UserKeeps ==
    ASSUME PoolAssumption, PoolInv, Alone, TypeOK', Alone', NEW u \in User, UserNext(u)
    PROVE  Promise!Next \/ UNCHANGED <<IdleIds, Asks, Held>>
<1> USE DEF PoolInv, HostInv
<1>1. ASSUME NEW a \in Addr, GetConnection(u, a) PROVE Promise!Next
  <2>1. user[u].conn = NoStream /\ user[u].pc = "idle"
    BY <1>1, UserFields DEF GetConnection
  <2>2. IdleIds' = IdleIds
    BY <1>1, IdleSame DEF GetConnection
  <2>3. Become(u, At("connect", a, NoPool, NoStream)) \/ Become(u, At("wait", a, pools[a], NoStream))
    BY <1>1 DEF GetConnection
  <2>4. Promise!Ask(u, a)
    BY <2>1, <2>2, <2>3, UserSeen DEF Promise!Ask, At
  <2>5. QED
    BY <2>4 DEF Promise!Next
<1>2. CASE ConnectFail(u) \/ GetCancelled(u)
  <2>1. /\ user[u].conn = NoStream /\ Become(u, Idle)
        /\ user[u].pc \in {"wait", "connect"} /\ user[u].addr # NoAddr
    BY <1>2, UserFields DEF ConnectFail, GetCancelled, PoolAssumption
  <2>2. IdleIds' = IdleIds
    BY <1>2, IdleSame DEF ConnectFail, GetCancelled
  <2>3. Promise!GiveUp(u)
    BY <2>1, <2>2, UserSeen DEF Promise!GiveUp, Idle, At
  <2>4. QED
    BY <2>3 DEF Promise!Next
<1>3. CASE UserDrop(u) \/ ReturnClose(u)
    BY <1>3, IdleSame, DropKeeps DEF UserDrop, ReturnClose
<1>4. CASE ReturnCancelled(u)
    BY <1>4, SettledSame, DropKeeps DEF ReturnCancelled
<1>5. ASSUME NEW a \in Addr, ReturnEntry(u, a) PROVE UNCHANGED <<IdleIds, Asks, Held>>
  <2>1. PICK p : Become(u, At("push", a, p, user[u].conn))
    BY <1>5 DEF ReturnEntry
  <2>2. user[u].pc = "hold"
    BY <1>5 DEF ReturnEntry
  <2>3. Held' = Held /\ Asks' = Asks
    BY <2>1, <2>2, UserSeen DEF At
  <2>4. QED
    BY <1>5, <2>3, EntrySame
<1>6. QED
    BY <1>1, <1>2, <1>3, <1>4, <1>5, PopKeeps, ConnectKeeps, PushKeeps DEF UserNext

\* Steps of clearers and sweepers close idle connections, at most.
LEMMA OthersKeep ==
    ASSUME PoolAssumption, PoolInv, TypeOK', UNCHANGED user, [Next]_vars,
           \A a \in Addr : pools'[a] \in {NoPool, pools[a]},
           \A p \in PoolId, u \in User : ~Pushed(p, u)
    PROVE  Promise!Next
<1>1. Promise!Close
    BY ShiftedOrPushed, StepCloses DEF PoolInv
<1>2. Held' = Held /\ Asks' = Asks
    BY DEF Held, Asks
<1>3. QED
    BY <1>1, <1>2 DEF Promise!Next

\* Every step of the pool is one of the promise's, or hidden from the users.
LEMMA StepKeeps ==
    ASSUME PoolAssumption, PoolInv, Alone, TypeOK', Alone', [Next]_vars
    PROVE  Promise!Next \/ UNCHANGED <<IdleIds, Asks, Held>>
<1>1. TypeOK
    BY DEF PoolInv
<1>2. CASE UNCHANGED vars
    BY <1>2 DEF vars, IdleIds, Asks, Held
<1>3. CASE \E u \in User : UserNext(u)
    BY <1>3, UserKeeps
<1>4. CASE \/ \E c \in Clearer : ClearNext(c)
           \/ \E w \in Sweeper : SweepNext(w)
           \/ Tick
  <2>1. /\ user' = user
        /\ \A a \in Addr : pools'[a] \in {NoPool, pools[a]}
        /\ \A p \in PoolId, u \in User : ~Pushed(p, u)
    BY <1>1, <1>4, ClearerStep, SweeperStep, TickStep
  <2>2. QED
    BY <2>1, OthersKeep
<1>5. QED
    BY <1>2, <1>3, <1>4 DEF Next

\* The pool implements what it promises: a user is handed a connection that was
\* idle at the address it asked for, alone, or a new one; what it returns becomes
\* idle where it says, while there is room, or is closed.
THEOREM PromiseKept == Spec => KeepsPromise
<1> USE PoolAssumption
<1>1. Init => Promise!Init
  <2> SUFFICES ASSUME Init PROVE Promise!Init
    OBVIOUS
  <2>1. IdleIds = [a \in Addr |-> {}]
    BY DEF Init, IdleIds
  <2>2. Held = [u \in User |-> NoStream] /\ Asks = [u \in User |-> NoAddr]
    BY DEF Init, Held, Asks, Idle, At
  <2>3. QED
    BY <2>1, <2>2 DEF Promise!Init
<1>2. /\ TypeOK /\ GuardPinsDeque /\ HostInv /\ Alone
      /\ TypeOK' /\ Alone' /\ [Next]_vars
      => [Promise!Next]_Promise!vars
  <2> SUFFICES ASSUME PoolInv, Alone, TypeOK', Alone', [Next]_vars
               PROVE  [Promise!Next]_Promise!vars
    BY DEF PoolInv
  <2>1. Promise!Next \/ UNCHANGED <<IdleIds, Asks, Held>>
    BY StepKeeps
  <2>2. QED
    BY <2>1 DEF Promise!vars
<1>3. QED
    BY <1>1, <1>2, TypeCorrect, GuardsPin, HostsSafe, AloneSafe, PTL
       DEF Spec, KeepsPromise, Promise!Spec

\* A pop or a retain that drops the first k entries, which have expired, and
\* maybe one more, removes nothing else.
DroppedBefore(q, k, t) ==
    \A s \in IdsIn(q) \ IdsIn(t) : \E i \in 1..Len(q) : i < k /\ q[i].stream = s

LEMMA SuffixIds ==
    ASSUME NEW q \in Seq(Entry), NEW k \in Nat \ {0}
    PROVE  DroppedBefore(q, k, SubSeq(q, k, Len(q)))
<1> DEFINE t == SubSeq(q, k, Len(q))
<1>1. Len(q) \in Nat /\ DOMAIN q = 1..Len(q)
    BY LenProperties
<1>2. /\ t \in Seq(Entry)
      /\ Len(t) = IF k <= Len(q) THEN Len(q) - k + 1 ELSE 0
      /\ \A i \in 1..(Len(q) - k + 1) : t[i] = q[k + i - 1]
    BY <1>1, SuffixType
<1>3. DOMAIN t = 1..Len(t)
    BY <1>2, LenProperties
<1> HIDE DEF t
<1>4. SUFFICES ASSUME NEW i \in 1..Len(q), q[i].stream \notin IdsIn(t)
               PROVE  i < k
    BY <1>1 DEF IdsIn, t, DroppedBefore
<1>5. SUFFICES ASSUME i >= k PROVE FALSE
    BY <1>1
<1>6. PICK j \in 1..(Len(q) - k + 1) : k + j - 1 = i
  <2>1. i - k + 1 \in 1..(Len(q) - k + 1) /\ k + (i - k + 1) - 1 = i
    BY <1>1, <1>5
  <2>2. QED
    BY <2>1
<1>7. j \in DOMAIN t /\ t[j] = q[i]
    BY <1>1, <1>2, <1>3, <1>6
<1>8. QED
    BY <1>4, <1>7 DEF IdsIn

\* A connection at address a that has expired.
Outdated(s, a) ==
    \E i \in DOMAIN deque[pools[a]] :
        deque[pools[a]][i].stream = s /\ Expired(deque[pools[a]][i])

LEMMA PopForCause ==
    ASSUME PoolAssumption, PoolInv, NEW u \in User, PopUnexpired(u),
           NEW a \in Addr, NEW s \in IdleIds[a] \ IdleIds'[a]
    PROVE  (user[u].addr = a /\ user'[u].conn = s) \/ Outdated(s, a)
<1> USE DEF PoolInv
<1> DEFINE p == user[u].ref
           q == deque[p]
<1>1. /\ a = user[u].addr /\ pools[a] = p /\ p \in PoolId /\ p # NoPool /\ pools' = pools
    BY PopEffect DEF PoolAssumption
<1>2. PICK k \in 0..Len(q) :
          /\ Skips(q, k)
          /\ \/ /\ k < Len(q)
                /\ Become(u, At("hold", NoAddr, NoPool, q[k + 1].stream))
             \/ k = Len(q)
          /\ Settle([deque EXCEPT ![p] = SubSeq(q, k + 2, Len(q))])
    BY DEF PopUnexpired, AfterPop
<1>3. q \in Seq(Entry) /\ Len(q) \in Nat /\ DOMAIN q = 1..Len(q)
    BY <1>1, LenProperties DEF TypeOK
<1>4. deque'[p] = SubSeq(q, k + 2, Len(q))
    BY <1>1, <1>2 DEF Settle, Referenced, TypeOK
<1>5. s \in IdsIn(q) \ IdsIn(deque'[p])
    BY <1>1 DEF IdleIds
<1>6. PICK i \in 1..Len(q) : i < k + 2 /\ q[i].stream = s
  <2>1. DroppedBefore(q, k + 2, deque'[p])
    <3>1. k + 2 \in Nat \ {0}
      BY <1>3
    <3>2. QED
      BY <1>3, <1>4, <3>1, SuffixIds
  <2>2. QED
    BY <1>5, <2>1 DEF DroppedBefore
<1>7. CASE i \in 1..k
    BY <1>1, <1>2, <1>3, <1>6, <1>7 DEF Skips, Outdated
<1>8. CASE i = k + 1
  <2>1. user'[u].conn = q[k + 1].stream
    BY <1>2, <1>3, <1>6, <1>8 DEF Become, At, TypeOK
  <2>2. QED
    BY <1>1, <1>6, <1>8, <2>1
<1>9. QED
    BY <1>3, <1>6, <1>7, <1>8

LEMMA RetainForCause ==
    ASSUME PoolAssumption, PoolInv, NEW w \in Sweeper, NEW b \in Addr, SweepRetain(w, b),
           NEW a \in Addr, NEW s \in IdleIds[a] \ IdleIds'[a]
    PROVE  Outdated(s, a)
<1> USE DEF PoolInv
<1> DEFINE p == job[w][b]
           q == deque[p]
           r == pools[a]
<1>1. p \in PoolId /\ pools' = pools
    BY DEF SweepRetain, TypeOK
<1>2. PICK k \in 0..Len(q) :
          Skips(q, k) /\ Settle([deque EXCEPT ![p] = SubSeq(q, k + 1, Len(q))])
    BY DEF SweepRetain
<1>3. q \in Seq(Entry) /\ Len(q) \in Nat /\ DOMAIN q = 1..Len(q)
    BY <1>1, LenProperties DEF TypeOK
<1>4. r # NoPool /\ r \in PoolId /\ s \in IdsIn(deque[r]) \ IdsIn(deque'[r])
    BY <1>1 DEF IdleIds, TypeOK
<1>5. Referenced(r)'
    BY <1>1 DEF Referenced
<1>6. r = p /\ deque'[p] = SubSeq(q, k + 1, Len(q))
    BY <1>1, <1>2, <1>4, <1>5 DEF Settle, TypeOK
<1>7. PICK i \in 1..Len(q) : i < k + 1 /\ q[i].stream = s
  <2>1. DroppedBefore(q, k + 1, deque'[p])
    <3>1. k + 1 \in Nat \ {0}
      BY <1>3
    <3>2. QED
      BY <1>3, <1>6, <3>1, SuffixIds
  <2>2. QED
    BY <1>4, <1>6, <2>1 DEF DroppedBefore
<1>8. i \in 1..k /\ i \in DOMAIN q
    BY <1>3, <1>7
<1>9. QED
    BY <1>2, <1>6, <1>7, <1>8 DEF Skips, Outdated

\* The idle connections a clear takes are those of the deque it visits, or of the
\* shard it wipes.
LEMMA ClearForCause ==
    ASSUME PoolAssumption, PoolInv, NEW c \in Clearer, ClearNext(c),
           NEW a \in Addr, IdleIds'[a] # IdleIds[a]
    PROVE  \/ ClearDeque(c) /\ clearer[c].addr = a
           \/ ClearWipe(c) /\ clearer[c].shard = ShardOf[a]
<1> USE DEF PoolInv, HostInv
<1>1. CASE ClearDeque(c)
  <2> DEFINE b == clearer[c].addr
  <2>1. b \in Addr /\ pools[b] # NoPool /\ pools' = pools
    <3>1. clearer[c] \in ClearerState
      BY DEF TypeOK
    <3>2. QED
      BY <1>1, <3>1 DEF ClearDeque, ClearerState, GuardPinsDeque
  <2>2. deque' = [deque EXCEPT ![pools[b]] = <<>>]
    BY <1>1 DEF ClearDeque
  <2>3. pools[a] = pools[b]
    BY <2>1, <2>2 DEF IdleIds, TypeOK
  <2>4. a = b
    BY <2>1, <2>3 DEF OneHost, Refers, TypeOK
  <2>5. QED
    BY <1>1, <2>4
<1>2. CASE ClearWipe(c)
  <2>1. SUFFICES ASSUME clearer[c].shard # ShardOf[a] PROVE IdleIds'[a] = IdleIds[a]
    BY <1>2
  <2>2. pools'[a] = pools[a] /\ Settle(deque)
    BY <1>2, <2>1 DEF ClearWipe
  <2>3. pools[a] # NoPool => deque'[pools[a]] = deque[pools[a]]
    BY <2>2 DEF Settle, Referenced, TypeOK
  <2>4. QED
    BY <2>2, <2>3 DEF IdleIds
<1>3. CASE UNCHANGED <<pools, deque>>
    BY <1>3 DEF IdleIds
<1>4. QED
    BY <1>1, <1>2, <1>3 DEF ClearNext, ClearCall, ClearScan, ClearCancelled

\* Of the other steps only the remove of a sweep takes idle connections.
LEMMA OthersTakeNone ==
    ASSUME PoolAssumption, PoolInv, NEW a \in Addr,
           \/ \E u \in User : UserNext(u) /\ ~PopUnexpired(u)
           \/ \E w \in Sweeper : SweepCollect(w) \/ SweepAbort(w)
           \/ \E w \in Sweeper : SweepRemove(w) /\ doomed[w] # a
           \/ Tick
           \/ UNCHANGED vars
    PROVE  IdleIds[a] \subseteq IdleIds'[a]
<1> USE DEF PoolInv
<1>1. CASE UNCHANGED <<pools, deque>>
    BY <1>1 DEF IdleIds
<1>2. CASE pools'[a] = pools[a] /\ Settle(deque)
  <2>1. pools[a] # NoPool => deque'[pools[a]] = deque[pools[a]]
    BY <1>2 DEF Settle, Referenced, TypeOK
  <2>2. QED
    BY <1>2, <2>1 DEF IdleIds
<1>3. ASSUME NEW u \in User, UserNext(u), ~PopUnexpired(u)
      PROVE  IdleIds[a] \subseteq IdleIds'[a]
  <2>1. ASSUME NEW b \in Addr, ReturnEntry(u, b) PROVE IdleIds[a] \subseteq IdleIds'[a]
    BY <2>1, EntrySame
  <2>2. CASE ReturnPush(u)
    <3>1. DOMAIN IdleIds = Addr
      BY DEF IdleIds
    <3>2. QED
      BY <2>2, <3>1, PushEffect
  <2>3. CASE ReturnCancelled(u)
    BY <1>2, <2>3 DEF ReturnCancelled
  <2>4. QED
    BY <1>1, <1>3, <2>1, <2>2, <2>3
       DEF UserNext, GetConnection, ConnectOk, ConnectFail, GetCancelled, UserDrop,
           ReturnClose
<1>4. CASE \E w \in Sweeper : SweepCollect(w) \/ SweepAbort(w)
    BY <1>1, <1>2, <1>4 DEF SweepCollect, SweepAbort
<1>5. CASE \E w \in Sweeper : SweepRemove(w) /\ doomed[w] # a
    BY <1>2, <1>5 DEF SweepRemove, TypeOK
<1>6. CASE Tick
  <2>1. pools' = pools /\ \A p \in PoolId : deque'[p] = Older(deque[p])
    BY <1>6 DEF Tick
  <2>2. ASSUME NEW p \in PoolId PROVE IdsIn(deque'[p]) = IdsIn(deque[p])
    <3>1. deque[p] \in Seq(Entry) /\ deque'[p] \in Seq(Entry)
      BY <2>1, OlderEffect DEF TypeOK
    <3>2. DOMAIN deque[p] = 1..Len(deque[p]) /\ DOMAIN deque'[p] = 1..Len(deque'[p])
      BY <3>1, LenProperties
    <3>3. /\ Len(deque'[p]) = Len(deque[p])
          /\ \A i \in 1..Len(deque[p]) : deque'[p][i].stream = deque[p][i].stream
      BY <2>1, <3>1, OlderEffect
    <3>4. QED
      BY <3>2, <3>3 DEF IdsIn
  <2>3. QED
    BY <2>1, <2>2, IdleSame DEF TypeOK
<1>7. QED
    BY <1>1, <1>3, <1>4, <1>5, <1>6 DEF vars

\* Idle connections are lost to a clear, a cleanup, their age or the user that asked
\* for them, whatever else goes on in the pool.
THEOREM LostForCause == Spec => LeavesForCause
<1> USE PoolAssumption
<1>1. TypeOK /\ GuardPinsDeque /\ HostInv /\ [Next]_vars =>
          \A a \in Addr : \A s \in IdleIds[a] \ IdleIds'[a] :
              \/ \E u \in User :
                    user[u].pc = "wait" /\ user[u].addr = a /\ user'[u].conn = s
              \/ \E i \in DOMAIN deque[pools[a]] :
                    deque[pools[a]][i].stream = s /\ Expired(deque[pools[a]][i])
              \/ \E c \in Clearer :
                    \/ ClearDeque(c) /\ clearer[c].addr = a
                    \/ ClearWipe(c) /\ clearer[c].shard = ShardOf[a]
              \/ \E w \in Sweeper : SweepRemove(w) /\ doomed[w] = a
  <2> SUFFICES ASSUME PoolInv, [Next]_vars, NEW a \in Addr, NEW s \in IdleIds[a] \ IdleIds'[a]
               PROVE  \/ \E u \in User :
                            user[u].pc = "wait" /\ user[u].addr = a /\ user'[u].conn = s
                      \/ Outdated(s, a)
                      \/ \E c \in Clearer :
                            \/ ClearDeque(c) /\ clearer[c].addr = a
                            \/ ClearWipe(c) /\ clearer[c].shard = ShardOf[a]
                      \/ \E w \in Sweeper : SweepRemove(w) /\ doomed[w] = a
    BY DEF PoolInv, Outdated
  <2>1. ASSUME NEW u \in User, PopUnexpired(u)
        PROVE  (user[u].pc = "wait" /\ user[u].addr = a /\ user'[u].conn = s) \/ Outdated(s, a)
    BY <2>1, PopForCause DEF PopUnexpired
  <2>2. ASSUME NEW w \in Sweeper, NEW b \in Addr, SweepRetain(w, b) PROVE Outdated(s, a)
    BY <2>2, RetainForCause
  <2>3. IdleIds'[a] # IdleIds[a] /\ ~(IdleIds[a] \subseteq IdleIds'[a])
    OBVIOUS
  <2>4. CASE \E c \in Clearer : ClearNext(c)
    BY <2>3, <2>4, ClearForCause
  <2>5. CASE \E w \in Sweeper : SweepNext(w)
    BY <2>2, <2>3, <2>5, OthersTakeNone DEF SweepNext
  <2>6. CASE \E u \in User : UserNext(u)
    BY <2>1, <2>3, <2>6, OthersTakeNone
  <2>7. CASE Tick \/ UNCHANGED vars
    BY <2>3, <2>7, OthersTakeNone
  <2>8. QED
    BY <2>4, <2>5, <2>6, <2>7 DEF Next
<1>2. QED
    BY <1>1, TypeCorrect, GuardsPin, HostsSafe, PTL DEF Spec, LeavesForCause
-----------------------------------------------------------------------------
\* Arithmetic modulo the width of the counters.
Same(x, y) == \E k \in Int : x = y + k * CounterMod

LEMMA SameMeans ==
    ASSUME PoolAssumption, NEW x \in Int, NEW y \in Int
    PROVE  x % CounterMod = y % CounterMod <=> Same(x, y)
<1> DEFINE M == CounterMod
<1>1. M \in Nat /\ M > 0
    BY DEF PoolAssumption
<1> HIDE DEF M
<1>2. /\ x = M * (x \div M) + (x % M) /\ x % M \in 0..(M - 1) /\ x \div M \in Int
      /\ y = M * (y \div M) + (y % M) /\ y % M \in 0..(M - 1) /\ y \div M \in Int
    BY <1>1
<1>3. ASSUME x % M = y % M PROVE \E k \in Int : x = y + k * M
  <2>1. (x \div M) - (y \div M) \in Int
    BY <1>2
  <2>2. x = y + ((x \div M) - (y \div M)) * M
    BY <1>1, <1>2, <1>3
  <2>3. QED
    BY <2>1, <2>2
<1>4. ASSUME NEW k \in Int, x = y + k * M PROVE x % M = y % M
  <2> DEFINE j == (x \div M) - (y \div M) - k
             d == (y % M) - (x % M)
  <2>1. j \in Int /\ d \in Int /\ d < M /\ -M < d
    BY <1>1, <1>2
  <2>2. M * j = d
    BY <1>1, <1>2, <1>4
  <2> HIDE DEF j, d
  <2>3. j = 0
    <3>1. CASE j >= 1
      <4>1. M * j >= M
        BY <1>1, <2>1, <3>1
      <4>2. QED
        BY <1>1, <2>1, <2>2, <4>1
    <3>2. CASE j <= -1
      <4>1. M * j <= -M
        BY <1>1, <2>1, <3>2
      <4>2. QED
        BY <1>1, <2>1, <2>2, <4>1
    <3>3. QED
      BY <2>1, <3>1, <3>2
  <2>4. d = 0
    BY <1>1, <2>2, <2>3
  <2>5. QED
    BY <1>2, <2>4 DEF d
<1>5. QED
    BY <1>3, <1>4 DEF Same, M

LEMMA PlusSame ==
    ASSUME PoolAssumption, NEW n \in Int, NEW d \in Int, NEW e \in Int,
           d = e \/ d = e + CounterMod
    PROVE  Same(Plus(n, d), n + e) /\ Plus(n, d) \in Int
<1> DEFINE m == Plus(n, d)
<1>0. CounterMod \in Nat /\ CounterMod > 0
    BY DEF PoolAssumption
<1>1. m \in 0..(CounterMod - 1) /\ m \in Int /\ n + d \in Int
  <2>1. Plus(n, d) \in 0..(CounterMod - 1)
    BY PlusType
  <2>2. QED
    BY <1>0, <2>1
<1>2. m % CounterMod = m
    BY <1>0, <1>1
<1>3. m % CounterMod = (n + d) % CounterMod
    BY <1>2 DEF Plus
<1>4. PICK k \in Int : m = n + d + k * CounterMod
  <2>1. Same(m, n + d)
    BY <1>1, <1>3, SameMeans
  <2>2. QED
    BY <2>1 DEF Same
<1> HIDE DEF m
<1>5. CASE d = e
    BY <1>0, <1>1, <1>4, <1>5 DEF Same, m
<1>6. CASE d = e + CounterMod
  <2>1. m = (n + e) + (k + 1) * CounterMod
    BY <1>0, <1>1, <1>4, <1>6
  <2>2. QED
    BY <1>1, <2>1 DEF Same, m
<1>7. QED
    BY <1>5, <1>6

\* Two sums stay the same when their parts change by as much.
LEMMA SumsSame ==
    ASSUME PoolAssumption,
           NEW a \in Int, NEW h \in Int, NEW c \in Int, NEW l \in Int,
           NEW da \in Int, NEW dh \in Int, NEW dc \in Int, NEW dl \in Int,
           NEW a1 \in Int, NEW h1 \in Int, NEW l1 \in Int,
           Same(a1, a + da), Same(h1, h + dh), Same(l1, l + dl),
           Same(a + h, c + l), da + dh = dc + dl
    PROVE  Same(a1 + h1, (c + dc) + l1)
<1> DEFINE M == CounterMod
<1>1. PICK i \in Int, j \in Int, k \in Int, n \in Int :
          /\ a1 = a + da + i * M /\ h1 = h + dh + j * M
          /\ l1 = l + dl + k * M /\ a + h = c + l + n * M
    BY DEF Same
<1>2. M \in Int
    BY DEF PoolAssumption
<1>3. a1 + h1 = (c + dc) + l1 + (i + j + n - k) * M
  <2> DEFINE iM == i * M
             jM == j * M
             kM == k * M
             nM == n * M
  <2>1. (i + j + n - k) * M = iM + jM + nM - kM
    BY <1>2
  <2>2. iM \in Int /\ jM \in Int /\ kM \in Int /\ nM \in Int
    BY <1>2
  <2>3. /\ a1 = a + da + iM /\ h1 = h + dh + jM
        /\ l1 = l + dl + kM /\ a + h = c + l + nM
    BY <1>1
  <2> HIDE DEF iM, jM, kM, nM
  <2>4. a1 + h1 = (c + dc) + l1 + (iM + jM + nM - kM)
    BY <2>2, <2>3
  <2>5. QED
    BY <2>1, <2>4
<1>4. i + j + n - k \in Int
    OBVIOUS
<1>5. QED
    BY <1>3, <1>4 DEF Same

\* What a step does to the counters of connections, up to their width.
Counts(da, dh, dc, dl) ==
    /\ Same(stats["active"]', stats["active"] + da)
    /\ Same(stats["hits"]', stats["hits"] + dh)
    /\ Same(lost', lost + dl)
    /\ Cardinality(CheckedOut)' = Cardinality(CheckedOut) + dc

LEMMA CountersType ==
    ASSUME PoolAssumption, TypeOK
    PROVE  /\ "active" \in Counter /\ "hits" \in Counter
           /\ stats["active"] \in Int /\ stats["hits"] \in Int /\ lost \in Int
           /\ IsFiniteSet(CheckedOut) /\ Cardinality(CheckedOut) \in Nat
<1>1. IsFiniteSet(CheckedOut)
    BY UsersFinite, FS_Subset DEF CheckedOut
<1>2. QED
    BY <1>1, FS_CardinalityType DEF TypeOK, Counter, PoolAssumption

LEMMA DriftKept ==
    ASSUME PoolAssumption, TypeOK, TypeOK', ActiveDrift,
           NEW da \in Int, NEW dh \in Int, NEW dc \in Int, NEW dl \in Int,
           da + dh = dc + dl, Counts(da, dh, dc, dl)
    PROVE  ActiveDrift'
<1>1. /\ stats["active"] \in Int /\ stats["hits"] \in Int /\ lost \in Int
      /\ Cardinality(CheckedOut) \in Int
    BY CountersType
<1>2. /\ stats'["active"] \in Int /\ stats'["hits"] \in Int /\ lost' \in Int
      /\ "active" \in Counter /\ "hits" \in Counter
    BY DEF TypeOK, Counter, PoolAssumption
<1> DEFINE x == stats["active"] + stats["hits"]
           y == Cardinality(CheckedOut) + lost
           x1 == stats'["active"] + stats'["hits"]
           y1 == (Cardinality(CheckedOut) + dc) + lost'
<1>3. x \in Int /\ y \in Int /\ x1 \in Int /\ y1 \in Int
    BY <1>1, <1>2
<1>4. x % CounterMod = y % CounterMod
    BY DEF ActiveDrift, Plus
<1>5. Same(x, y)
  <2> HIDE DEF x, y
  <2>1. QED
    BY <1>3, <1>4, SameMeans
<1>6. Same(x1, y1)
  <2> DEFINE a  == stats["active"]
             h  == stats["hits"]
             c  == Cardinality(CheckedOut)
             a1 == stats'["active"]
             h1 == stats'["hits"]
  <2>1. /\ a \in Int /\ h \in Int /\ c \in Int /\ lost \in Int
        /\ a1 \in Int /\ h1 \in Int /\ lost' \in Int
    BY <1>1, <1>2
  <2>2. /\ Same(a1, a + da) /\ Same(h1, h + dh) /\ Same(lost', lost + dl)
        /\ Same(a + h, c + lost)
    BY <1>5 DEF Counts
  <2>3. Same(a1 + h1, (c + dc) + lost')
    <3> HIDE DEF a, h, c, a1, h1
    <3>1. QED
      BY <2>1, <2>2, SumsSame
  <2>4. QED
    BY <2>3
<1>7. x1 % CounterMod = y1 % CounterMod
  <2> HIDE DEF x1, y1
  <2>1. QED
    BY <1>3, <1>6, SameMeans
<1>8. QED
    BY <1>7 DEF ActiveDrift, Plus, Counts

LEMMA SameSelf ==
    ASSUME PoolAssumption, NEW n \in Int
    PROVE  Same(n, n + 0)
<1>1. n = n + 0 + 0 * CounterMod
    BY DEF PoolAssumption
<1>2. QED
    BY <1>1 DEF Same

\* A user's step moves it in or out of the users with a connection, or neither.
Outside == {"connect", "hold", "push"}

LEMMA CheckedOutMoves ==
    ASSUME PoolAssumption, TypeOK, NEW u \in User, NEW r, Become(u, r)
    PROVE  /\ (user[u].pc \notin Outside /\ r.pc \in Outside) =>
                  Cardinality(CheckedOut)' = Cardinality(CheckedOut) + 1
           /\ (user[u].pc \in Outside /\ r.pc \notin Outside) =>
                  Cardinality(CheckedOut)' = Cardinality(CheckedOut) + (-1)
           /\ (user[u].pc \in Outside <=> r.pc \in Outside) =>
                  Cardinality(CheckedOut)' = Cardinality(CheckedOut) + 0
<1>1. IsFiniteSet(CheckedOut) /\ Cardinality(CheckedOut) \in Nat
    BY CountersType
<1>2. /\ user'[u] = r /\ \A v \in User : v # u => user'[v] = user[v]
    BY DEF Become, TypeOK
<1>3. CheckedOut = {v \in User : user[v].pc \in Outside}
    BY DEF CheckedOut, Outside
<1>4. CheckedOut' = {v \in User : user'[v].pc \in Outside}
    BY DEF CheckedOut, Outside
<1>5. CASE user[u].pc \notin Outside /\ r.pc \in Outside
  <2>1. CheckedOut' = CheckedOut \cup {u} /\ u \notin CheckedOut
    BY <1>2, <1>3, <1>4, <1>5
  <2>2. QED
    BY <1>1, <1>5, <2>1, FS_AddElement
<1>6. CASE user[u].pc \in Outside /\ r.pc \notin Outside
  <2>1. CheckedOut' = CheckedOut \ {u} /\ u \in CheckedOut
    BY <1>2, <1>3, <1>4, <1>6
  <2>2. Cardinality(CheckedOut \ {u}) = Cardinality(CheckedOut) - 1
    BY <1>1, <2>1, FS_RemoveElement
  <2>3. QED
    BY <1>1, <1>6, <2>1, <2>2
<1>7. CASE user[u].pc \in Outside <=> r.pc \in Outside
  <2>1. CheckedOut' = CheckedOut
    BY <1>2, <1>3, <1>4, <1>7
  <2>2. QED
    BY <1>1, <1>7, <2>1
<1>8. QED
    BY <1>5, <1>6, <1>7

\* The updates of the counters.
LEMMA CounterSteps ==
    ASSUME PoolAssumption, TypeOK
    PROVE  /\ CountMiss => /\ Same(stats["active"]', stats["active"] + 1)
                           /\ Same(stats["hits"]', stats["hits"] + 0)
           /\ CountHit => /\ Same(stats["active"]', stats["active"] + 0)
                          /\ Same(stats["hits"]', stats["hits"] + 1)
           /\ SubActive => /\ Same(stats["active"]', stats["active"] + (-1))
                           /\ Same(stats["hits"]', stats["hits"] + 0)
           /\ stats' = stats => /\ Same(stats["active"]', stats["active"] + 0)
                                /\ Same(stats["hits"]', stats["hits"] + 0)
           /\ Lose => Same(lost', lost + 1)
           /\ lost' = lost => Same(lost', lost + 0)
<1>1. /\ "active" \in Counter /\ "hits" \in Counter
      /\ stats["active"] \in Int /\ stats["hits"] \in Int /\ lost \in Int
    BY CountersType
<1>2. \A n \in Int : /\ Same(Plus(n, 1), n + 1)
                     /\ Same(Plus(n, CounterMod - 1), n + (-1))
                     /\ Same(n, n + 0)
  <2>1. CounterMod - 1 \in Int /\ CounterMod - 1 = -1 + CounterMod
    BY DEF PoolAssumption
  <2>2. QED
    BY <2>1, PlusSame, SameSelf
<1>3. stats \in [Counter -> 0..(CounterMod - 1)]
    BY DEF TypeOK
<1>4. CountMiss => stats'["active"] = Plus(stats["active"], 1) /\ stats'["hits"] = stats["hits"]
    BY <1>1 DEF CountMiss, Bump
<1>5. CountHit => stats'["hits"] = Plus(stats["hits"], 1) /\ stats'["active"] = stats["active"]
    BY <1>1 DEF CountHit, Bump
<1>6. SubActive => /\ stats'["active"] = Plus(stats["active"], CounterMod - 1)
                   /\ stats'["hits"] = stats["hits"]
    BY <1>1, <1>3 DEF SubActive
<1>7. QED
    BY <1>1, <1>2, <1>4, <1>5, <1>6 DEF Lose

LEMMA UserCounts ==
    ASSUME PoolAssumption, TypeOK, NEW u \in User, UserNext(u)
    PROVE  \/ Counts(1, 0, 1, 0) \/ Counts(0, 1, 1, 0) \/ Counts(-1, 0, -1, 0)
           \/ Counts(0, 0, -1, 1) \/ Counts(0, 0, 0, 0)
<1>1. ASSUME NEW a \in Addr, GetConnection(u, a)
      PROVE  Counts(1, 0, 1, 0) \/ Counts(0, 0, 0, 0)
    BY <1>1, CheckedOutMoves, CounterSteps DEF GetConnection, Counts, At, Outside
<1>2. CASE PopUnexpired(u)
    BY <1>2, CheckedOutMoves, CounterSteps, SMTT(30) DEF PopUnexpired, Counts, At, Outside
<1>3. CASE ConnectOk(u)
    BY <1>3, CheckedOutMoves, CounterSteps DEF ConnectOk, Counts, At, Outside
<1>4. CASE GetCancelled(u)
    BY <1>4, CheckedOutMoves, CounterSteps DEF GetCancelled, Counts, Idle, At, Outside
<1>5. CASE ConnectFail(u) \/ UserDrop(u) \/ ReturnCancelled(u)
    BY <1>5, CheckedOutMoves, CounterSteps
       DEF ConnectFail, UserDrop, ReturnCancelled, Counts, Idle, At, Outside
<1>6. CASE ReturnClose(u) \/ ReturnPush(u)
    BY <1>6, CheckedOutMoves, CounterSteps
       DEF ReturnClose, ReturnPush, Counts, Idle, At, Outside
<1>7. ASSUME NEW a \in Addr, ReturnEntry(u, a) PROVE Counts(0, 0, 0, 0)
  <2>1. PICK p \in PoolId : Become(u, At("push", a, p, user[u].conn))
    BY <1>7 DEF ReturnEntry
  <2>2. QED
    BY <1>7, <2>1, CheckedOutMoves, CounterSteps DEF ReturnEntry, Counts, At, Outside
<1>8. QED
    BY <1>1, <1>2, <1>3, <1>4, <1>5, <1>6, <1>7 DEF UserNext

\* For any number of users and steps, and through the wrapping of the counters:
\* what active_connections is wrong by is the hits and the connections lost.
THEOREM DriftExact == Spec => []ActiveDrift
<1> USE PoolAssumption
<1>1. Init => ActiveDrift
  <2> SUFFICES ASSUME Init PROVE ActiveDrift
    OBVIOUS
  <2>1. CheckedOut = {}
    BY DEF Init, CheckedOut, Idle, At
  <2>2. stats["active"] = 0 /\ stats["hits"] = 0 /\ lost = 0
    BY DEF Init, Counter
  <2>3. QED
    BY <2>1, <2>2, FS_EmptySet DEF ActiveDrift
<1>2. TypeOK /\ TypeOK' /\ ActiveDrift /\ [Next]_vars => ActiveDrift'
  <2> SUFFICES ASSUME TypeOK, TypeOK', ActiveDrift, [Next]_vars PROVE ActiveDrift'
    OBVIOUS
  <2>1. CASE \E u \in User : UserNext(u)
    <3>1. \/ Counts(1, 0, 1, 0) \/ Counts(0, 1, 1, 0) \/ Counts(-1, 0, -1, 0)
          \/ Counts(0, 0, -1, 1) \/ Counts(0, 0, 0, 0)
      BY <2>1, UserCounts
    <3>2. ASSUME NEW da \in {-1, 0, 1}, NEW dh \in {-1, 0, 1},
                 NEW dc \in {-1, 0, 1}, NEW dl \in {-1, 0, 1},
                 da + dh = dc + dl, Counts(da, dh, dc, dl)
          PROVE  ActiveDrift'
      <4>1. da \in Int /\ dh \in Int /\ dc \in Int /\ dl \in Int
        OBVIOUS
      <4>2. QED
        BY <3>2, <4>1, DriftKept, Zenon
    <3>3. QED
      BY <3>1, <3>2
  <2>2. CASE UNCHANGED <<user, stats, lost>>
    BY <2>2 DEF ActiveDrift, CheckedOut
  <2>3. UNCHANGED <<user, stats, lost>> \/ \E u \in User : UserNext(u)
    BY DEF Next, vars, Tick, ClearNext, ClearCall, ClearScan, ClearDeque, ClearWipe, ClearCancelled,
           SweepNext, SweepCollect, SweepRetain, SweepRemove, SweepAbort
  <2>4. QED
    BY <2>1, <2>2, <2>3
<1>3. QED
    BY <1>1, <1>2, TypeCorrect, PTL DEF Spec

-----------------------------------------------------------------------------
(* The pool on a runtime. *)

EnteringType == entering \in [User -> Addr \cup {NoAddr}]

LEMMA EntersAddress == RuntimeSpec => []EnteringType
<1>1. RuntimeInit => EnteringType
    BY DEF RuntimeInit, EnteringType
<1>2. EnteringType /\ [RuntimeNext]_<<vars, runtimeVars>> => EnteringType'
    BY DEF EnteringType, RuntimeNext, Schedule, Suspend, Enter, UserStep, ClearStep,
           SweepStep, runtimeVars
<1>3. QED
    BY <1>1, <1>2, PTL DEF RuntimeSpec

\* Where the workers are changes no step of the pool: a runtime only chooses which of
\* them come next.
THEOREM RuntimeIsPool == RuntimeSpec => Spec
<1>1. RuntimeInit => Init
    BY DEF RuntimeInit
<1>2. EnteringType /\ [RuntimeNext]_<<vars, runtimeVars>> => [Next]_vars
  <2> SUFFICES ASSUME EnteringType, [RuntimeNext]_<<vars, runtimeVars>> PROVE [Next]_vars
    OBVIOUS
  <2>1. CASE \E x \in Task : Schedule(x) \/ Suspend(x)
    BY <2>1, Zenon DEF Schedule, Suspend
  <2>2. CASE \E u \in User, a \in Addr : Enter(u, a)
    BY <2>2, Zenon DEF Enter
  <2>3. ASSUME NEW u \in User, UserStep(u) PROVE [Next]_vars
    <3>1. entering[u] # NoAddr => entering[u] \in Addr
      BY DEF EnteringType
    <3>2. UserNext(u)
      BY <2>3, <3>1, Zenon DEF UserStep, UserNext
    <3>3. QED
      BY <3>2, Zenon DEF Next
  <2>4. CASE \E c \in Clearer : ClearStep(c)
    BY <2>4, Zenon DEF ClearStep, Next
  <2>5. CASE \E w \in Sweeper : SweepStep(w)
    BY <2>5, Zenon DEF SweepStep, Next
  <2>6. CASE Tick
    BY <2>6, Zenon DEF Next
  <2>7. CASE UNCHANGED <<vars, runtimeVars>>
    BY <2>7, Zenon
  <2>8. QED
    BY <2>1, <2>2, <2>3, <2>4, <2>5, <2>6, <2>7, Zenon DEF RuntimeNext
<1>3. QED
    BY <1>1, <1>2, EntersAddress, PTL DEF RuntimeSpec, Spec

\* So the limit of a host and the drift of the counter are those of the pool.
THEOREM RuntimeCapacity == RuntimeSpec => []CapacityRespected
BY RuntimeIsPool, CapacitySafe, PTL

THEOREM RuntimeDrift == RuntimeSpec => []ActiveDrift
BY RuntimeIsPool, DriftExact, PTL

\* A user is in entry() only with the connection it returns.
WorkerInv ==
    /\ running \subseteq Task
    /\ entering \in [User -> Addr \cup {NoAddr}]
    /\ \A u \in User : entering[u] # NoAddr => user[u].pc = "hold"

LEMMA OthersWait ==
    ASSUME TypeOK, NEW u \in User, UserNext(u), NEW v \in User, v # u
    PROVE  user'[v] = user[v]
<1>1. user \in [User -> UserState]
    BY DEF TypeOK
<1>2. ASSUME NEW r, Become(u, r) PROVE user'[v] = user[v]
    BY <1>1, <1>2 DEF Become
<1>3. \E r : Become(u, r)
    BY Zenon DEF UserNext, GetConnection, PopUnexpired, ConnectOk, ConnectFail, GetCancelled,
       UserDrop, ReturnClose, ReturnEntry, ReturnPush, ReturnCancelled
<1>4. QED
    BY <1>2, <1>3

LEMMA WorkersSafe == RuntimeSpec => []WorkerInv
<1>1. RuntimeInit => WorkerInv
    BY DEF RuntimeInit, WorkerInv
<1>2. TypeOK /\ WorkerInv /\ [RuntimeNext]_<<vars, runtimeVars>> => WorkerInv'
  <2> SUFFICES ASSUME TypeOK, WorkerInv, [RuntimeNext]_<<vars, runtimeVars>>
               PROVE  WorkerInv'
    OBVIOUS
  <2> USE DEF WorkerInv
  <2>1. CASE \E x \in Task : Schedule(x) \/ Suspend(x)
    BY <2>1 DEF Schedule, Suspend, vars
  <2>2. CASE \E u \in User, a \in Addr : Enter(u, a)
    BY <2>2 DEF Enter, vars
  <2>3. ASSUME NEW u \in User, UserStep(u) PROVE WorkerInv'
    <3>1. /\ UserNext(u) /\ running' = running
          /\ entering' = [entering EXCEPT ![u] = NoAddr]
      BY <2>3, Zenon DEF UserStep, UserNext
    <3>2. \A v \in User : entering'[v] # NoAddr => v # u /\ entering'[v] = entering[v]
      BY <3>1
    <3>3. \A v \in User : v # u => user'[v] = user[v]
      BY <3>1, OthersWait
    <3>4. QED
      BY <3>1, <3>2, <3>3
  <2>4. UNCHANGED <<user, runtimeVars>> => WorkerInv'
    BY DEF runtimeVars
  <2>5. CASE \E c \in Clearer : ClearStep(c)
    BY <2>4, <2>5 DEF ClearStep, ClearNext, ClearCall, ClearScan, ClearDeque, ClearWipe,
       ClearCancelled
  <2>6. CASE \E w \in Sweeper : SweepStep(w)
    BY <2>4, <2>6 DEF SweepStep, SweepNext, SweepCollect, SweepRetain, SweepRemove, SweepAbort
  <2>7. CASE Tick /\ UNCHANGED runtimeVars
    BY <2>4, <2>7 DEF Tick
  <2>8. CASE UNCHANGED <<vars, runtimeVars>>
    BY <2>4, <2>8 DEF vars
  <2>9. QED
    BY <2>1, <2>2, <2>3, <2>5, <2>6, <2>7, <2>8 DEF RuntimeNext
<1>3. RuntimeSpec => []TypeOK
    BY RuntimeIsPool, TypeCorrect, PTL
<1>4. QED
    BY <1>1, <1>2, <1>3, PTL DEF RuntimeSpec

\* Task y is at an await with a read guard of shard k.
KeepsGuard(y, k) ==
    \/ y \in User /\ user[y].pc = "wait" /\ ShardOf[user[y].addr] = k
    \/ y \in Clearer /\ clearer[y].pc = "lock" /\ clearer[y].shard = k

\* The running task x waits for the write lock of shard k.
WaitsFor(x, k) ==
    \/ x \in User /\ entering[x] # NoAddr /\ ShardOf[entering[x]] = k
    \/ x \in Clearer /\ clearer[x].pc = "wipe" /\ clearer[x].shard = k
    \/ x \in Sweeper /\ doomed[x] # NoAddr /\ ShardOf[doomed[x]] = k

\* When none of the running tasks can go on, each waits for a guard that a task
\* has taken with it off its worker.
BlockedByAwaits ==
    (\A x \in running : Stuck(x)) =>
        \A x \in running : \E y \in Task \ running, k \in 1..NShards :
            WaitsFor(x, k) /\ KeepsGuard(y, k)

\* The workers of a runtime, however many, are never blocked on one another: a
\* deadlock on the shards' locks needs a task that keeps its guard across an await
\* and has lost its worker there.
THEOREM OnlyAwaitsBlock == RuntimeSpec => []BlockedByAwaits
<1>1. TypeOK /\ WorkerInv => BlockedByAwaits
  <2> SUFFICES ASSUME TypeOK, WorkerInv, \A x \in running : Stuck(x), NEW x \in running
               PROVE  \E y \in Task \ running, k \in 1..NShards :
                          WaitsFor(x, k) /\ KeepsGuard(y, k)
    BY DEF BlockedByAwaits
  <2>1. PICK k : WaitsFor(x, k) /\ ShardRead(k)
    BY DEF Stuck, WaitsFor
  <2>2. PICK y \in Task : KeepsGuard(y, k)
    BY <2>1 DEF ShardRead, KeepsGuard, Task
  <2>3. k \in 1..NShards
    <3>1. \A a \in Addr : ShardOf[a] \in 1..NShards
      BY PoolAssumption DEF PoolAssumption
    <3>2. CASE y \in User /\ user[y].pc = "wait" /\ ShardOf[user[y].addr] = k
      BY <3>1, <3>2, UserFields, PoolAssumption
    <3>3. CASE y \in Clearer /\ clearer[y].pc = "lock" /\ clearer[y].shard = k
      <4>1. clearer[y] \in ClearerState
        BY <3>3 DEF TypeOK
      <4>2. QED
        BY <3>3, <4>1 DEF ClearerState
    <3>4. QED
      BY <2>2, <3>2, <3>3 DEF KeepsGuard
  <2>4. y \notin running
    <3>1. SUFFICES ASSUME Stuck(y) PROVE FALSE
      OBVIOUS
    <3>2. User \cap Clearer = {} /\ User \cap Sweeper = {} /\ Clearer \cap Sweeper = {}
      BY TasksAssumption DEF TasksAssumption
    <3>3. CASE y \in User /\ user[y].pc = "wait"
      BY <3>1, <3>2, <3>3 DEF Stuck, WorkerInv
    <3>4. CASE y \in Clearer /\ clearer[y].pc = "lock"
      BY <3>1, <3>2, <3>4 DEF Stuck
    <3>5. QED
      BY <2>2, <3>3, <3>4 DEF KeepsGuard
  <2>5. QED
    BY <2>1, <2>2, <2>3, <2>4
<1>2. RuntimeSpec => []TypeOK
    BY RuntimeIsPool, TypeCorrect, PTL
<1>3. QED
    BY <1>1, <1>2, WorkersSafe, PTL
=============================================================================
