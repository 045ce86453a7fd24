------------------------ MODULE ConnectionPoolProofs ------------------------
(***************************************************************************)
(* Theorems about ConnectionPool, for every set of tasks, addresses and    *)
(* connections and every configuration.                                    *)
(***************************************************************************)
EXTENDS ConnectionPool, SequenceTheorems, TLAPS

\* A suffix of a sequence of entries is a sequence of entries.
LEMMA SuffixType ==
    ASSUME NEW S, NEW q \in Seq(S), NEW k \in Nat \ {0}
    PROVE  /\ SubSeq(q, k, Len(q)) \in Seq(S)
           /\ Len(SubSeq(q, k, Len(q))) = IF k <= Len(q) THEN Len(q) - k + 1 ELSE 0
           /\ \A i \in 1..(Len(q) - k + 1) : SubSeq(q, k, Len(q))[i] = q[k + i - 1]
<1>1. Len(q) \in Nat /\ \A i \in 1..Len(q) : q[i] \in S
    BY LenProperties, ElementOfSeq
<1>2. \A i \in k..Len(q) : q[i] \in S
    BY <1>1
<1>3. QED
    BY <1>1, <1>2, SubSeqProperties

\* Counters stay within their width.
LEMMA PlusType ==
    ASSUME PoolAssumption, NEW n \in Int, NEW d \in Int
    PROVE  Plus(n, d) \in 0..(CounterMod - 1)
BY DEF PoolAssumption, Plus

\* A deque of the step is what the step leaves of it, or empty when freed.
LEMMA SettleEffect ==
    ASSUME NEW dq, Settle(dq)
    PROVE  /\ DOMAIN deque' = PoolId
           /\ \A p \in PoolId : deque'[p] = dq[p] \/ deque'[p] = <<>>
BY DEF Settle

LEMMA SettleType ==
    ASSUME NEW dq \in [PoolId -> Seq(Entry)], Settle(dq)
    PROVE  deque' \in [PoolId -> Seq(Entry)]
BY EmptySeq DEF Settle
-----------------------------------------------------------------------------
LEMMA StatsType ==
    ASSUME PoolAssumption, stats \in [Counter -> 0..(CounterMod - 1)],
           lost \in 0..(CounterMod - 1)
    PROVE  /\ \A ns : Bump(ns) \in [Counter -> 0..(CounterMod - 1)]
           /\ SubActive => stats' \in [Counter -> 0..(CounterMod - 1)]
           /\ Lose => lost' \in 0..(CounterMod - 1)
<1>1. /\ \A n \in Counter : Plus(stats[n], 1) \in 0..(CounterMod - 1)
      /\ Plus(stats["active"], CounterMod - 1) \in 0..(CounterMod - 1)
      /\ Plus(lost, 1) \in 0..(CounterMod - 1)
  <2>1. /\ CounterMod - 1 \in Int /\ 1 \in Int /\ lost \in Int
        /\ \A n \in Counter : stats[n] \in Int
        /\ "active" \in Counter
      BY DEF PoolAssumption, Counter
  <2>2. QED
      BY <2>1, PlusType
<1>2. QED
    BY <1>1 DEF Bump, SubActive, Lose, Counter

\* The suffix a pop loop or a retain leaves in deque p.
LEMMA DropFrontType ==
    ASSUME deque \in [PoolId -> Seq(Entry)], NEW p \in PoolId, NEW k \in Nat \ {0}
    PROVE  [deque EXCEPT ![p] = SubSeq(deque[p], k, Len(deque[p]))]
               \in [PoolId -> Seq(Entry)]
BY SuffixType

LEMMA EntryStream ==
    ASSUME NEW q \in Seq(Entry), NEW i \in 1..Len(q)
    PROVE  q[i] \in Entry /\ q[i].stream \in StreamId /\ q[i].age \in 0..AgeCap
<1>1. q[i] \in Entry
    BY ElementOfSeq
<1>2. QED
    BY <1>1 DEF Entry

LEMMA BecomeType ==
    ASSUME user \in [User -> UserState], NEW u \in User
    PROVE  /\ user[u] \in UserState
           /\ \A r \in UserState : Become(u, r) => user' \in [User -> UserState]
<1>1. user[u] \in UserState
    OBVIOUS
<1>2. ASSUME NEW r \in UserState, Become(u, r)
      PROVE  user' \in [User -> UserState]
    <2>1. user' = [user EXCEPT ![u] = r]
        BY <1>2 DEF Become
    <2>2. QED
        BY <2>1
<1>3. QED
    BY <1>1, <1>2

LEMMA UserStepType ==
    ASSUME PoolAssumption, TypeOK, NEW u \in User, UserNext(u)
    PROVE  TypeOK'
<1>0. /\ user[u] \in UserState
      /\ \A r \in UserState : Become(u, r) => user' \in [User -> UserState]
  <2>1. user \in [User -> UserState]
      BY DEF TypeOK
  <2>2. QED
      BY <2>1, BecomeType
<1> USE DEF TypeOK, UserState, Idle, At
<1>1. ASSUME NEW a \in Addr, GetConnection(u, a) PROVE TypeOK'
  <2>1. user' \in [User -> UserState]
      BY <1>0, <1>1, PoolAssumption DEF GetConnection, PoolAssumption
  <2>2. QED
      BY <1>1, <2>1, StatsType DEF GetConnection, CountMiss
<1>2. CASE PopUnexpired(u)
  <2> DEFINE p == user[u].ref
             q == deque[p]
  <2>1. user[u].addr \in Addr /\ p \in PoolId /\ user[u].conn = NoStream
      BY <1>0, <1>2 DEF PopUnexpired
  <2>2. PICK k \in 0..Len(q) :
          /\ \/ /\ k < Len(q)
                /\ Become(u, At("hold", NoAddr, NoPool, q[k + 1].stream))
                /\ CountHit
             \/ /\ k = Len(q)
                /\ Become(u, At("connect", user[u].addr, NoPool, NoStream))
                /\ CountMiss
          /\ UNCHANGED <<pools, clearer, job, doomed, lost>>
          /\ Settle([deque EXCEPT ![p] = SubSeq(q, k + 2, Len(q))])
      BY <1>2 DEF PopUnexpired, AfterPop
  <2>3. q \in Seq(Entry) /\ Len(q) \in Nat
      BY <2>1, LenProperties
  <2>4. deque' \in [PoolId -> Seq(Entry)]
    <3>1. k + 2 \in Nat \ {0}
        BY <2>3
    <3>2. [deque EXCEPT ![p] = SubSeq(q, k + 2, Len(q))] \in [PoolId -> Seq(Entry)]
        BY <2>1, <3>1, DropFrontType
    <3>3. QED
        BY <2>2, <3>2, SettleType
  <2>5. k < Len(q) => q[k + 1].stream \in StreamId
      BY <2>3, EntryStream
  <2>6. user' \in [User -> UserState]
      BY <1>0, <2>1, <2>2, <2>5
  <2>7. stats' \in [Counter -> 0..(CounterMod - 1)]
      BY <2>2, StatsType DEF CountHit, CountMiss
  <2>8. QED
      BY <2>2, <2>4, <2>6, <2>7
<1>3. CASE ConnectOk(u)
  <2>1. user' \in [User -> UserState]
      BY <1>0, <1>3 DEF ConnectOk
  <2>2. QED
      BY <1>3, <2>1 DEF ConnectOk
<1>4. CASE ConnectFail(u) \/ GetCancelled(u) \/ UserDrop(u) \/ ReturnClose(u)
    BY <1>0, <1>4, StatsType DEF ConnectFail, GetCancelled, UserDrop, ReturnClose
<1>5. ASSUME NEW a \in Addr, ReturnEntry(u, a) PROVE TypeOK'
  <2>1. user[u].conn \in StreamId
      BY <1>0, <1>5 DEF ReturnEntry
  <2>2. QED
      BY <1>0, <1>5, <2>1 DEF ReturnEntry
<1>6. CASE ReturnPush(u)
  <2> DEFINE p == user[u].ref
             e == [stream |-> user[u].conn, age |-> 0]
  <2>1. p \in PoolId /\ e \in Entry
      BY <1>0, <1>6, PoolAssumption DEF ReturnPush, Entry, PoolAssumption
  <2>2. [deque EXCEPT ![p] = Append(@, e)] \in [PoolId -> Seq(Entry)]
      BY <2>1, AppendProperties
  <2>3. deque' \in [PoolId -> Seq(Entry)]
      BY <1>6, <2>2, SettleType DEF ReturnPush, PushBack
  <2>4. QED
      BY <1>0, <1>6, <2>3, StatsType DEF ReturnPush
<1>7. CASE ReturnCancelled(u)
    BY <1>0, <1>7, StatsType, SettleType DEF ReturnCancelled
<1>8. QED
    BY <1>1, <1>2, <1>3, <1>4, <1>5, <1>6, <1>7 DEF UserNext

LEMMA ClearStepType ==
    ASSUME PoolAssumption, TypeOK, NEW c \in Clearer, ClearNext(c)
    PROVE  TypeOK'
<1>1. \A r \in ClearerState : Clears(c, r) => clearer' \in [Clearer -> ClearerState]
    BY DEF TypeOK, Clears
<1>2. /\ Off \in ClearerState
      /\ \A pc \in {"scan", "wipe"}, k \in 1..(NShards + 1) :
            Visit(pc, k, NoAddr, {}) \in ClearerState
      /\ \A k \in 1..NShards, a \in Addr, as \in SUBSET Addr :
            Visit("lock", k, a, as) \in ClearerState
      /\ 1 \in 1..(NShards + 1)
      /\ \A k \in 1..(NShards + 1) : k <= NShards => k + 1 \in 1..(NShards + 1)
    BY PoolAssumption DEF ClearerState, Off, Visit, PoolAssumption
<1>3. /\ clearer[c].shard \in 1..(NShards + 1)
      /\ clearer[c].pc = "lock" => /\ clearer[c].shard \in 1..NShards
                                   /\ clearer[c].shard <= NShards
                                   /\ clearer[c].todo \subseteq Addr
  <2>1. clearer[c] \in ClearerState /\ NShards \in Nat
      BY PoolAssumption DEF TypeOK, PoolAssumption
  <2>2. CASE clearer[c].pc = "lock"
    <3>1. /\ clearer[c].shard \in 1..NShards
          /\ clearer[c].todo \in SUBSET Addr
        BY <2>1, <2>2 DEF ClearerState
    <3>2. QED
        BY <2>1, <3>1
  <2>3. CASE clearer[c].pc # "lock"
      BY <2>1, <2>3 DEF ClearerState
  <2>4. QED
      BY <2>2, <2>3
<1> USE DEF TypeOK
<1>4. CASE ClearCall(c)
    BY <1>1, <1>2, <1>4 DEF ClearCall
<1>5. CASE ClearScan(c)
  <2>1. \A k : EntriesOf(k) \subseteq Addr /\ (EntriesOf(k) # {} => k \in 1..NShards)
      BY PoolAssumption DEF EntriesOf, PoolAssumption
  <2>2. clearer' \in [Clearer -> ClearerState]
      BY <1>1, <1>2, <1>3, <1>5, <2>1 DEF ClearScan
  <2>3. QED
      BY <1>5, <2>2 DEF ClearScan
<1>6. CASE ClearDeque(c)
  <2>1. clearer' \in [Clearer -> ClearerState]
      BY <1>1, <1>2, <1>3, <1>6 DEF ClearDeque
  <2>2. deque' \in [PoolId -> Seq(Entry)]
      BY <1>6, EmptySeq DEF ClearDeque
  <2>3. QED
      BY <1>6, <2>1, <2>2 DEF ClearDeque
<1>7. CASE ClearWipe(c)
  <2>1. clearer' \in [Clearer -> ClearerState]
      BY <1>1, <1>2, <1>3, <1>7 DEF ClearWipe
  <2>2. deque' \in [PoolId -> Seq(Entry)]
      BY <1>7, SettleType DEF ClearWipe
  <2>3. QED
      BY <1>7, <2>1, <2>2 DEF ClearWipe
<1>8. CASE ClearCancelled(c)
    BY <1>1, <1>2, <1>8 DEF ClearCancelled
<1>9. QED
    BY <1>4, <1>5, <1>6, <1>7, <1>8 DEF ClearNext

LEMMA SweepStepType ==
    ASSUME PoolAssumption, TypeOK, NEW w \in Sweeper, SweepNext(w)
    PROVE  TypeOK'
<1> USE DEF TypeOK
<1>1. CASE SweepCollect(w)
    BY <1>1 DEF SweepCollect
<1>2. ASSUME NEW a \in Addr, SweepRetain(w, a) PROVE TypeOK'
  <2> DEFINE p == job[w][a]
             q == deque[p]
  <2>1. p \in PoolId
      BY <1>2 DEF SweepRetain
  <2>2. PICK k \in 0..Len(q) :
          /\ doomed' \in {doomed, [doomed EXCEPT ![w] = a]}
          /\ job' \in {job, [job EXCEPT ![w][a] = NoPool]}
          /\ UNCHANGED <<pools, user, clearer, stats, lost>>
          /\ Settle([deque EXCEPT ![p] = SubSeq(q, k + 1, Len(q))])
      BY <1>2 DEF SweepRetain
  <2>3. k + 1 \in Nat \ {0}
      BY <2>1, LenProperties
  <2>4. [deque EXCEPT ![p] = SubSeq(q, k + 1, Len(q))] \in [PoolId -> Seq(Entry)]
      BY <2>1, <2>3, DropFrontType
  <2>5. deque' \in [PoolId -> Seq(Entry)]
      BY <2>2, <2>4, SettleType
  <2>6. [job EXCEPT ![w][a] = NoPool] \in [Sweeper -> [Addr -> PoolId \cup {NoPool}]]
      OBVIOUS
  <2>7. QED
      BY <2>2, <2>5, <2>6
<1>3. CASE SweepRemove(w)
  <2>1. deque' \in [PoolId -> Seq(Entry)]
      BY <1>3, SettleType DEF SweepRemove
  <2>2. QED
      BY <1>3, <2>1 DEF SweepRemove
<1>4. CASE SweepAbort(w)
  <2>1. deque' \in [PoolId -> Seq(Entry)]
      BY <1>4, SettleType DEF SweepAbort
  <2>2. QED
      BY <1>4, <2>1 DEF SweepAbort
<1>5. QED
    BY <1>1, <1>2, <1>3, <1>4 DEF SweepNext

\* Aging changes neither the number of the entries nor their streams.
LEMMA OlderEffect ==
    ASSUME PoolAssumption, NEW q \in Seq(Entry)
    PROVE  /\ Older(q) \in Seq(Entry)
           /\ Len(Older(q)) = Len(q)
           /\ \A i \in 1..Len(q) :
                 /\ Older(q)[i].stream = q[i].stream
                 /\ Older(q)[i].age = IF q[i].age < AgeCap THEN q[i].age + 1 ELSE q[i].age
<1>1. Len(q) \in Nat /\ DOMAIN q = 1..Len(q) /\ \A i \in 1..Len(q) : q[i] \in Entry
    BY LenProperties, ElementOfSeq
<1>2. ASSUME NEW i \in 1..Len(q) PROVE Older(q)[i] \in Entry
  <2>1. q[i] \in Entry /\ q[i].age \in 0..AgeCap /\ AgeCap \in Nat
      BY <1>1, EntryStream, PoolAssumption DEF PoolAssumption
  <2>2. (IF q[i].age < AgeCap THEN q[i].age + 1 ELSE q[i].age) \in 0..AgeCap
      BY <2>1
  <2>3. Older(q)[i] = [q[i] EXCEPT !.age = IF @ < AgeCap THEN @ + 1 ELSE @]
      BY <1>1 DEF Older
  <2>4. QED
      BY <2>1, <2>2, <2>3 DEF Entry
<1>3. Older(q) \in [1..Len(q) -> Entry]
    BY <1>1, <1>2 DEF Older
<1>4. Older(q) \in Seq(Entry) /\ Len(Older(q)) = Len(q)
    BY <1>1, <1>3
<1>5. QED
    BY <1>1, <1>4 DEF Older, Entry

\* Every step of every task keeps the types, for any number of tasks, hosts and
\* connections and every configuration the assumption allows.
THEOREM TypeCorrect == Spec => []TypeOK
<1> USE PoolAssumption
<1>1. Init => TypeOK
  <2> SUFFICES ASSUME Init PROVE TypeOK
      OBVIOUS
  <2>1. deque \in [PoolId -> Seq(Entry)]
      BY EmptySeq DEF Init
  <2>2. 1 \in 1..(NShards + 1) /\ 0 \in 0..(CounterMod - 1)
      BY DEF PoolAssumption
  <2>3. QED
      BY <2>1, <2>2 DEF Init, TypeOK, UserState, ClearerState, Off, Visit
<1>2. TypeOK /\ [Next]_vars => TypeOK'
  <2> SUFFICES ASSUME TypeOK, [Next]_vars PROVE TypeOK'
      OBVIOUS
  <2>1. CASE Tick
    <3>1. deque' \in [PoolId -> Seq(Entry)]
        BY <2>1, OlderEffect DEF Tick, TypeOK
    <3>2. QED
        BY <2>1, <3>1 DEF Tick, TypeOK
  <2>2. CASE UNCHANGED vars
      BY <2>2 DEF vars, TypeOK
  <2>3. QED
      BY <2>1, <2>2, UserStepType, ClearStepType, SweepStepType DEF Next
<1>3. QED
    BY <1>1, <1>2, PTL DEF Spec
-----------------------------------------------------------------------------
\* All that a step can do to a deque: nothing, age it, drop entries from its
\* front (or all, when it is cleared or freed), or pool one stream while there
\* is room.
Pushed(p, u) ==
    /\ user[u].pc = "push" /\ user[u].ref = p
    /\ Len(deque[p]) < MaxConnectionsPerHost
    /\ deque'[p] = Append(deque[p], [stream |-> user[u].conn, age |-> 0])

DequeEffect(p) ==
    \/ deque'[p] \in {deque[p], <<>>, Older(deque[p])}
    \/ \E k \in Nat \ {0} : deque'[p] = SubSeq(deque[p], k, Len(deque[p]))
    \/ \E u \in User : Pushed(p, u)

LEMMA UserDequeEffect ==
    ASSUME PoolAssumption, TypeOK, NEW u \in User, UserNext(u), NEW p \in PoolId
    PROVE  DequeEffect(p)
<1>0. user[u] \in UserState
    BY DEF TypeOK
<1>1. CASE deque' = deque
    BY <1>1 DEF DequeEffect
<1>2. CASE PopUnexpired(u)
  <2> DEFINE r == user[u].ref
             q == deque[r]
  <2>1. r \in PoolId
      BY <1>0, <1>2 DEF PopUnexpired, UserState, Idle, At
  <2>2. PICK k \in 0..Len(q) :
             Settle([deque EXCEPT ![r] = SubSeq(q, k + 2, Len(q))])
      BY <1>2 DEF PopUnexpired, AfterPop
  <2>3. k + 2 \in Nat \ {0}
      BY <2>1, LenProperties DEF TypeOK
  <2>4. \/ deque'[p] \in {deque[p], <<>>}
        \/ r = p /\ deque'[p] = SubSeq(deque[p], k + 2, Len(deque[p]))
      BY <2>2 DEF Settle, TypeOK
  <2>5. QED
      BY <2>3, <2>4 DEF DequeEffect
<1>3. CASE ReturnPush(u)
  <2> DEFINE r == user[u].ref
             e == [stream |-> user[u].conn, age |-> 0]
  <2>0. r \in PoolId
      BY <1>0, <1>3 DEF ReturnPush, UserState, Idle, At
  <2>1. user[u].pc = "push"
      BY <1>3 DEF ReturnPush
  <2>2. \/ Settle(deque)
        \/ /\ Len(deque[r]) < MaxConnectionsPerHost
           /\ Settle([deque EXCEPT ![r] = Append(deque[r], e)])
    <3>1. Len(deque[r]) \in Nat
        BY <2>0, LenProperties DEF TypeOK
    <3>2. QED
        BY <1>3, <3>1, PoolAssumption DEF ReturnPush, Full, PushBack, PoolAssumption
  <2>3. \/ deque'[p] \in {deque[p], <<>>}
        \/ r = p /\ Len(deque[r]) < MaxConnectionsPerHost /\ deque'[p] = Append(deque[p], e)
      BY <2>2 DEF Settle, TypeOK
  <2>4. QED
      BY <2>1, <2>3 DEF DequeEffect, Pushed
<1>4. CASE ReturnCancelled(u)
    BY <1>4, SettleEffect DEF ReturnCancelled, DequeEffect
<1>5. QED
    BY <1>1, <1>2, <1>3, <1>4
       DEF UserNext, GetConnection, ConnectOk, ConnectFail, GetCancelled,
           UserDrop, ReturnClose, ReturnEntry

LEMMA ClearDequeEffect ==
    ASSUME TypeOK, NEW c \in Clearer, ClearNext(c), NEW p \in PoolId
    PROVE  DequeEffect(p)
<1>1. CASE deque' = deque
    BY <1>1 DEF DequeEffect
<1>2. CASE ClearDeque(c)
    BY <1>2 DEF ClearDeque, DequeEffect, TypeOK
<1>3. CASE ClearWipe(c)
    BY <1>3, SettleEffect DEF ClearWipe, DequeEffect
<1>4. QED
    BY <1>1, <1>2, <1>3 DEF ClearNext, ClearCall, ClearScan, ClearCancelled

LEMMA SweepDequeEffect ==
    ASSUME TypeOK, NEW w \in Sweeper, SweepNext(w), NEW p \in PoolId
    PROVE  DequeEffect(p)
<1>1. CASE SweepCollect(w)
    BY <1>1 DEF SweepCollect, DequeEffect
<1>2. ASSUME NEW a \in Addr, SweepRetain(w, a) PROVE DequeEffect(p)
  <2> DEFINE r == job[w][a]
             q == deque[r]
  <2>1. r \in PoolId
      BY <1>2 DEF SweepRetain, TypeOK
  <2>2. PICK k \in 0..Len(q) :
             Settle([deque EXCEPT ![r] = SubSeq(q, k + 1, Len(q))])
      BY <1>2 DEF SweepRetain
  <2>3. k + 1 \in Nat \ {0}
      BY <2>1, LenProperties DEF TypeOK
  <2>4. \/ deque'[p] \in {deque[p], <<>>}
        \/ r = p /\ deque'[p] = SubSeq(deque[p], k + 1, Len(deque[p]))
      BY <2>2 DEF Settle, TypeOK
  <2>5. QED
      BY <2>3, <2>4 DEF DequeEffect
<1>3. CASE SweepRemove(w) \/ SweepAbort(w)
    BY <1>3, SettleEffect DEF SweepRemove, SweepAbort, DequeEffect
<1>4. QED
    BY <1>1, <1>2, <1>3 DEF SweepNext

LEMMA StepDequeEffect ==
    ASSUME PoolAssumption, TypeOK, [Next]_vars
    PROVE  \A p \in PoolId : DequeEffect(p)
<1>1. CASE Tick
    BY <1>1 DEF Tick, DequeEffect
<1>2. CASE UNCHANGED vars
    BY <1>2 DEF vars, DequeEffect
<1>3. QED
    BY <1>1, <1>2, UserDequeEffect, ClearDequeEffect, SweepDequeEffect DEF Next

\* No schedule of returns, however many tasks there are, fills a deque beyond
\* max_connections_per_host.
THEOREM CapacitySafe == Spec => []CapacityRespected
<1> USE PoolAssumption
<1>1. Init => CapacityRespected
    BY EmptySeq DEF Init, CapacityRespected, PoolAssumption
<1>2. TypeOK /\ CapacityRespected /\ [Next]_vars => CapacityRespected'
  <2> SUFFICES ASSUME TypeOK, CapacityRespected, [Next]_vars, NEW p \in PoolId
               PROVE  Len(deque'[p]) <= MaxConnectionsPerHost
      BY DEF CapacityRespected
  <2> DEFINE q == deque[p]
  <2>1. /\ q \in Seq(Entry) /\ Len(q) \in Nat
        /\ Len(q) <= MaxConnectionsPerHost /\ MaxConnectionsPerHost \in Nat
      BY LenProperties DEF TypeOK, CapacityRespected, PoolAssumption
  <2>2. CASE deque'[p] \in {q, <<>>, Older(q)}
      BY <2>1, <2>2, EmptySeq, OlderEffect
  <2>3. CASE \E k \in Nat \ {0} : deque'[p] = SubSeq(q, k, Len(q))
    <3>1. PICK k \in Nat \ {0} : deque'[p] = SubSeq(q, k, Len(q))
        BY <2>3
    <3>2. Len(SubSeq(q, k, Len(q))) <= Len(q)
        BY <2>1, SuffixType
    <3>3. QED
        BY <2>1, <3>1, <3>2, SuffixType
  <2>4. CASE \E u \in User : Pushed(p, u)
    <3>1. PICK u \in User : Pushed(p, u)
        BY <2>4
    <3>2. user[u].conn \in StreamId
      <4>1. user[u] \in UserState /\ user[u].pc = "push"
          BY <3>1 DEF Pushed, TypeOK
      <4>2. QED
          BY <4>1 DEF UserState, Idle, At
    <3>3. [stream |-> user[u].conn, age |-> 0] \in Entry
        BY <3>2 DEF Entry, PoolAssumption
    <3>4. QED
        BY <2>1, <3>1, <3>3, AppendProperties DEF Pushed
  <2>5. QED
      BY <2>2, <2>3, <2>4, StepDequeEffect DEF DequeEffect
<1>3. QED
    BY <1>1, <1>2, TypeCorrect, PTL DEF Spec
-----------------------------------------------------------------------------
\* Ages never increase from the front of a deque to its back: the inductive
\* form of ExpiredInFront, which alone is not preserved by the passing of time.
Descends(q) == \A i, j \in 1..Len(q) : i < j => q[j].age <= q[i].age

AgesDescend == \A p \in PoolId : Descends(deque[p])

LEMMA OlderDescends ==
    ASSUME PoolAssumption, NEW q \in Seq(Entry), Descends(q)
    PROVE  Descends(Older(q))
<1>1. Len(q) \in Nat /\ AgeCap \in Int /\ \A i \in 1..Len(q) : q[i].age \in 0..AgeCap
    BY EntryStream, LenProperties DEF PoolAssumption
<1>2. QED
  <2> SUFFICES ASSUME NEW i \in 1..Len(q), NEW j \in 1..Len(q), i < j
               PROVE  Older(q)[j].age <= Older(q)[i].age
    BY <1>1, OlderEffect DEF Descends
  <2>1. q[j].age <= q[i].age
    BY <1>1 DEF Descends
  <2>2. QED
    BY <1>1, <2>1, OlderEffect

LEMMA SuffixDescends ==
    ASSUME NEW q \in Seq(Entry), Descends(q), NEW k \in Nat \ {0}
    PROVE  Descends(SubSeq(q, k, Len(q)))
<1> DEFINE r == SubSeq(q, k, Len(q))
<1>1. Len(q) \in Nat
    BY LenProperties
<1>2. Len(r) = (IF k <= Len(q) THEN Len(q) - k + 1 ELSE 0)
    BY SuffixType
<1>3. \A i \in 1..(Len(q) - k + 1) : r[i] = q[k + i - 1]
    BY SuffixType
<1> HIDE DEF r
<1>4. SUFFICES ASSUME NEW i \in 1..Len(r), NEW j \in 1..Len(r), i < j
               PROVE  r[j].age <= r[i].age
    BY DEF Descends, r
<1>5. /\ i \in 1..(Len(q) - k + 1) /\ j \in 1..(Len(q) - k + 1)
      /\ k + i - 1 \in 1..Len(q) /\ k + j - 1 \in 1..Len(q) /\ k + i - 1 < k + j - 1
    BY <1>1, <1>2, <1>4
<1>6. q[k + j - 1].age <= q[k + i - 1].age
    BY <1>5 DEF Descends
<1>7. QED
    BY <1>3, <1>5, <1>6

LEMMA AppendDescends ==
    ASSUME PoolAssumption, NEW q \in Seq(Entry), Descends(q), NEW s \in StreamId
    PROVE  Descends(Append(q, [stream |-> s, age |-> 0]))
<1> DEFINE e == [stream |-> s, age |-> 0]
           r == Append(q, e)
<1>1. e \in Entry /\ e.age = 0
    BY DEF Entry, PoolAssumption
<1>2. Len(q) \in Nat /\ \A i \in 1..Len(q) : q[i].age \in 0..AgeCap
    BY EntryStream, LenProperties DEF Entry
<1>3. /\ Len(r) = Len(q) + 1
      /\ \A i \in 1..Len(q) : r[i] = q[i]
      /\ r[Len(q) + 1] = e
    BY <1>1, AppendProperties
<1> HIDE DEF e, r
<1>4. SUFFICES ASSUME NEW i \in 1..Len(r), NEW j \in 1..Len(r), i < j
               PROVE  r[j].age <= r[i].age
    BY DEF Descends, r, e
<1>5. i \in 1..Len(q)
    BY <1>2, <1>3, <1>4
<1>6. CASE j = Len(q) + 1
    BY <1>1, <1>2, <1>3, <1>5, <1>6
<1>7. CASE j \in 1..Len(q)
    BY <1>3, <1>4, <1>5, <1>7 DEF Descends
<1>8. QED
    BY <1>2, <1>3, <1>6, <1>7

\* In every deque the expired entries come before the others, so that the loop
\* of get_connection never leaves an expired entry behind one it hands out.
THEOREM ExpirySafe == Spec => []ExpiredInFront
<1> USE PoolAssumption
<1>1. Init => AgesDescend
    BY EmptySeq DEF Init, AgesDescend, Descends
<1>2. TypeOK /\ AgesDescend /\ [Next]_vars => AgesDescend'
  <2> SUFFICES ASSUME TypeOK, AgesDescend, [Next]_vars, NEW p \in PoolId
               PROVE  Descends(deque'[p])
      BY DEF AgesDescend, Descends
  <2> DEFINE q == deque[p]
  <2>1. q \in Seq(Entry) /\ Descends(q)
      BY DEF TypeOK, AgesDescend
  <2>2. Descends(<<>>)
      BY EmptySeq DEF Descends
  <2>3. CASE \E u \in User : Pushed(p, u)
    <3>1. PICK u \in User : Pushed(p, u)
        BY <2>3
    <3>2. user[u] \in UserState /\ user[u].pc = "push"
        BY <3>1 DEF Pushed, TypeOK
    <3>3. user[u].conn \in StreamId
        BY <3>2 DEF UserState, Idle, At
    <3>4. QED
        BY <2>1, <3>1, <3>3, AppendDescends DEF Pushed
  <2>4. CASE \E k \in Nat \ {0} : deque'[p] = SubSeq(q, k, Len(q))
      BY <2>1, <2>4, SuffixDescends
  <2>5. CASE deque'[p] \in {q, <<>>, Older(q)}
      BY <2>1, <2>2, <2>5, OlderDescends
  <2>6. QED
      BY <2>3, <2>4, <2>5, StepDequeEffect DEF DequeEffect
<1>3. TypeOK /\ AgesDescend => ExpiredInFront
  <2> SUFFICES ASSUME TypeOK, AgesDescend, NEW p \in PoolId,
                      NEW i \in DOMAIN deque[p], NEW j \in DOMAIN deque[p],
                      i < j, Expired(deque[p][j])
               PROVE  Expired(deque[p][i])
      BY DEF ExpiredInFront
  <2>1. i \in 1..Len(deque[p]) /\ j \in 1..Len(deque[p])
      BY LenProperties DEF TypeOK
  <2>2. deque[p][i].age \in Nat /\ deque[p][j].age \in Nat
    <3>1. deque[p] \in Seq(Entry)
        BY DEF TypeOK
    <3>2. QED
        BY <2>1, <3>1, EntryStream
  <2>3. deque[p][j].age <= deque[p][i].age
      BY <2>1 DEF AgesDescend, Descends
  <2>4. QED
      BY <2>2, <2>3 DEF Expired, PoolAssumption
<1>4. QED
    BY <1>1, <1>2, <1>3, TypeCorrect, PTL DEF Spec
-----------------------------------------------------------------------------
\* The entries a clearer visits are those of the shard whose guard it holds.
ClearersInShard ==
    \A c \in Clearer : clearer[c].pc = "lock" =>
        \A a \in clearer[c].todo \cup {clearer[c].addr} : ShardOf[a] = clearer[c].shard

PinInv == TypeOK /\ GuardPinsDeque /\ ClearersInShard

\* A step that leaves alone what the held guards protect keeps them protected.
LEMMA PinKept ==
    ASSUME PinInv,
           \A a \in Addr : pools[a] # NoPool /\ ShardRead(ShardOf[a]) => pools'[a] = pools[a],
           \A u \in User : user'[u].pc = "wait" => user'[u] = user[u],
           \A c \in Clearer : clearer'[c].pc = "lock" => clearer'[c] = clearer[c]
    PROVE  GuardPinsDeque' /\ ClearersInShard'
<1>1. ASSUME NEW u \in User, user'[u].pc = "wait"
      PROVE  pools'[user'[u].addr] # NoPool /\ user'[u].ref = pools'[user'[u].addr]
  <2>1. user'[u] = user[u] /\ user[u].pc = "wait" /\ user[u] \in UserState
      BY <1>1 DEF PinInv, TypeOK
  <2>2. user[u].addr \in Addr
      BY <2>1 DEF UserState, Idle, At
  <2>3. QED
      BY <2>1, <2>2 DEF PinInv, GuardPinsDeque, ShardRead
<1>2. ASSUME NEW c \in Clearer, clearer'[c].pc = "lock",
             NEW a \in clearer'[c].todo \cup {clearer'[c].addr}
      PROVE  pools'[a] # NoPool /\ ShardOf[a] = clearer'[c].shard
  <2>1. clearer'[c] = clearer[c] /\ clearer[c].pc = "lock" /\ clearer[c] \in ClearerState
      BY <1>2 DEF PinInv, TypeOK
  <2>2. a \in Addr
      BY <1>2, <2>1 DEF ClearerState
  <2>3. QED
      BY <1>2, <2>1, <2>2 DEF PinInv, GuardPinsDeque, ClearersInShard, ShardRead
<1>3. QED
    BY <1>1, <1>2 DEF GuardPinsDeque, ClearersInShard

LEMMA UserPins ==
    ASSUME PinInv, NEW u \in User, UserNext(u)
    PROVE  GuardPinsDeque' /\ ClearersInShard'
<1> USE DEF PinInv
<1>0. user \in [User -> UserState]
    BY DEF TypeOK
<1>1. ASSUME NEW a \in Addr, GetConnection(u, a)
      PROVE  GuardPinsDeque' /\ ClearersInShard'
  <2>1. pools' = pools /\ clearer' = clearer
      BY <1>1 DEF GetConnection
  <2>2. \/ user' = [user EXCEPT ![u] = At("connect", a, NoPool, NoStream)]
        \/ /\ pools[a] # NoPool
           /\ user' = [user EXCEPT ![u] = At("wait", a, pools[a], NoStream)]
      BY <1>1 DEF GetConnection, Become
  <2>3. \A v \in User : user'[v].pc = "wait" =>
           pools[user'[v].addr] # NoPool /\ user'[v].ref = pools[user'[v].addr]
      BY <1>0, <2>2 DEF GuardPinsDeque, At
  <2>4. QED
      BY <2>1, <2>3 DEF GuardPinsDeque, ClearersInShard
<1>2. ASSUME user' = [user EXCEPT ![u] = user'[u]], user'[u].pc # "wait",
             pools' = pools, clearer' = clearer
      PROVE  GuardPinsDeque' /\ ClearersInShard'
    BY <1>0, <1>2, PinKept
<1>3. CASE PopUnexpired(u)
    BY <1>0, <1>2, <1>3 DEF PopUnexpired, Become, At
<1>4. CASE ConnectOk(u)
    BY <1>0, <1>2, <1>4 DEF ConnectOk, Become, At
<1>5. CASE ConnectFail(u) \/ GetCancelled(u) \/ UserDrop(u) \/ ReturnClose(u)
              \/ ReturnPush(u) \/ ReturnCancelled(u)
    BY <1>0, <1>2, <1>5
       DEF ConnectFail, GetCancelled, UserDrop, ReturnClose, ReturnPush,
           ReturnCancelled, Become, Idle, At
<1>6. ASSUME NEW a \in Addr, ReturnEntry(u, a)
      PROVE  GuardPinsDeque' /\ ClearersInShard'
  <2>1. PICK p \in PoolId :
          /\ pools[a] # NoPool => p = pools[a]
          /\ pools' = [pools EXCEPT ![a] = p]
          /\ user' = [user EXCEPT ![u] = At("push", a, p, user[u].conn)]
          /\ clearer' = clearer
      BY <1>6 DEF ReturnEntry, Become
  <2>2. \A b \in Addr : pools[b] # NoPool => pools'[b] = pools[b]
      BY <2>1 DEF TypeOK
  <2>3. \A v \in User : user'[v].pc = "wait" => user'[v] = user[v]
      BY <1>0, <2>1 DEF At
  <2>4. QED
      BY <2>1, <2>2, <2>3, PinKept
<1>7. QED
    BY <1>1, <1>3, <1>4, <1>5, <1>6 DEF UserNext

LEMMA ClearerPins ==
    ASSUME PoolAssumption, PinInv, NEW c \in Clearer, ClearNext(c)
    PROVE  GuardPinsDeque' /\ ClearersInShard'
<1> USE DEF PinInv
<1>0. clearer \in [Clearer -> ClearerState]
    BY DEF TypeOK
<1>1. ASSUME NEW r, clearer' = [clearer EXCEPT ![c] = r], pools' = pools, user' = user,
             r.pc = "lock" => \A a \in r.todo \cup {r.addr} :
                                 pools[a] # NoPool /\ ShardOf[a] = r.shard
      PROVE  GuardPinsDeque' /\ ClearersInShard'
    BY <1>0, <1>1 DEF GuardPinsDeque, ClearersInShard
<1>2. CASE ClearCall(c)
    BY <1>1, <1>2 DEF ClearCall, Clears, Visit
<1>3. CASE ClearScan(c)
  <2> DEFINE k == clearer[c].shard
  <2>1. CASE \E a \in EntriesOf(k) : Clears(c, Visit("lock", k, a, EntriesOf(k) \ {a}))
      BY <1>1, <1>3, <2>1 DEF ClearScan, Clears, Visit, EntriesOf
  <2>2. CASE \E pc \in {"scan", "wipe"}, i \in {1, k + 1} : Clears(c, Visit(pc, i, NoAddr, {}))
      BY <1>1, <1>3, <2>2 DEF ClearScan, Clears, Visit
  <2>3. QED
      BY <1>3, <2>1, <2>2 DEF ClearScan
<1>4. CASE ClearDeque(c)
  <2> DEFINE r == clearer[c]
  <2>1. r.pc = "lock"
      BY <1>4 DEF ClearDeque
  <2>2. CASE Clears(c, Visit("scan", r.shard + 1, NoAddr, {}))
      BY <1>1, <1>4, <2>2 DEF ClearDeque, Clears, Visit
  <2>3. CASE \E a \in r.todo : Clears(c, Visit("lock", r.shard, a, r.todo \ {a}))
    <3>1. PICK a \in r.todo : Clears(c, Visit("lock", r.shard, a, r.todo \ {a}))
        BY <2>3
    <3>2. \A b \in r.todo : pools[b] # NoPool /\ ShardOf[b] = r.shard
        BY <2>1 DEF GuardPinsDeque, ClearersInShard
    <3>3. QED
        BY <1>1, <1>4, <3>1, <3>2 DEF ClearDeque, Clears, Visit
  <2>4. QED
      BY <1>4, <2>2, <2>3 DEF ClearDeque
<1>5. CASE ClearWipe(c)
  <2> DEFINE k == clearer[c].shard
  <2>1. \A a \in Addr : ShardRead(ShardOf[a]) => pools'[a] = pools[a]
      BY <1>5 DEF ClearWipe, TypeOK
  <2>2. /\ user' = user
        /\ \A d \in Clearer : clearer'[d].pc = "lock" => clearer'[d] = clearer[d]
      BY <1>0, <1>5 DEF ClearWipe, Clears, Visit, Off
  <2>3. QED
      BY <2>1, <2>2, PinKept
<1>6. CASE ClearCancelled(c)
    BY <1>1, <1>6 DEF ClearCancelled, Clears, Off, Visit
<1>7. QED
    BY <1>2, <1>3, <1>4, <1>5, <1>6 DEF ClearNext

LEMMA SweeperPins ==
    ASSUME PinInv, NEW w \in Sweeper, SweepNext(w)
    PROVE  GuardPinsDeque' /\ ClearersInShard'
<1>1. user' = user /\ clearer' = clearer
    BY DEF SweepNext, SweepCollect, SweepRetain, SweepRemove, SweepAbort
<1>2. \A a \in Addr : ShardRead(ShardOf[a]) => pools'[a] = pools[a]
    BY DEF SweepNext, SweepCollect, SweepRetain, SweepRemove, SweepAbort, PinInv, TypeOK
<1>3. QED
    BY <1>1, <1>2, PinKept

\* While a get_connection or a clear awaits a deque's mutex, no concurrent
\* return, clear or cleanup takes that deque out of the map.
THEOREM GuardsPin == Spec => []GuardPinsDeque
<1> USE PoolAssumption
<1>1. Init => GuardPinsDeque /\ ClearersInShard
    BY DEF Init, GuardPinsDeque, ClearersInShard, Idle, At, Off, Visit
<1>2. PinInv /\ [Next]_vars => GuardPinsDeque' /\ ClearersInShard'
  <2>1. CASE Tick \/ UNCHANGED vars
      BY <2>1 DEF Tick, vars, PinInv, GuardPinsDeque, ClearersInShard
  <2>2. QED
      BY <2>1, UserPins, ClearerPins, SweeperPins DEF Next
<1>3. QED
    BY <1>1, <1>2, TypeCorrect, PTL DEF Spec, PinInv
=============================================================================
