----------------------------- MODULE PoolRuntime -----------------------------
(***************************************************************************)
(* ConnectionPool on a tokio runtime with a fixed number of worker         *)
(* threads.  A task runs on a worker from one suspension to the next.  At  *)
(* an await it may leave its worker: lock().await does when the mutex is   *)
(* contended, and also when the task has used up its cooperative budget.   *)
(* Waiting for a shard's write lock is not an await: the thread blocks,    *)
(* with the task on it.                                                    *)
(***************************************************************************)
EXTENDS ConnectionPool

CONSTANTS
    Workers,    \* worker threads of the runtime
    CoopYield   \* whether a task may run out of its cooperative budget

ASSUME RuntimeAssumption == Workers \in Nat \ {0} /\ CoopYield \in BOOLEAN

\* The tasks that are alive are finitely many, and each is one of these.
ASSUME TasksAssumption ==
    /\ IsFiniteSet(Clearer) /\ IsFiniteSet(Sweeper)
    /\ User \cap Clearer = {} /\ User \cap Sweeper = {} /\ Clearer \cap Sweeper = {}

VARIABLES
    running,    \* tasks that are on a worker
    entering    \* user -> address whose entry() it is in, committed to the write lock

runtimeVars == <<running, entering>>

Task == User \cup Clearer \cup Sweeper

\* The task is blocked, with its thread, in entry(), clear() or remove().
Stuck(x) ==
    \/ x \in User /\ entering[x] # NoAddr /\ ShardRead(ShardOf[entering[x]])
    \/ x \in Clearer /\ clearer[x].pc = "wipe" /\ ShardRead(clearer[x].shard)
    \/ x \in Sweeper /\ doomed[x] # NoAddr /\ ShardRead(ShardOf[doomed[x]])

\* The deques whose mutexes the task is about to acquire.
Awaited(x) ==
    IF x \in User THEN {user[x].ref} \ {NoPool}
    ELSE IF x \in Clearer THEN {pools[a] : a \in {clearer[x].addr} \ {NoAddr}}
    ELSE {job[x][a] : a \in Addr} \ {NoPool}

\* A task can leave its worker at an await other than a mutex's, and at a mutex
\* that another running task has, or without need if its budget is used up.
AtAwait(x) ==
    /\ \/ x \in User /\ entering[x] = NoAddr
       \/ x \in Clearer /\ clearer[x].pc \in {"off", "lock"}
       \/ x \in Sweeper /\ doomed[x] = NoAddr
    /\ \/ CoopYield
       \/ Awaited(x) = {}
       \/ \E y \in running \ {x} : Awaited(x) \cap Awaited(y) # {}

\* A free worker polls the task.
Schedule(x) ==
    /\ x \notin running /\ Cardinality(running) < Workers
    /\ running' = running \cup {x}
    /\ UNCHANGED <<vars, entering>>

\* The task is suspended at an await and frees its worker.
Suspend(x) ==
    /\ x \in running /\ AtAwait(x)
    /\ running' = running \ {x}
    /\ UNCHANGED <<vars, entering>>

\* return_connection calls entry().
Enter(u, a) ==
    /\ u \in running /\ entering[u] = NoAddr
    /\ user[u].pc = "hold" /\ EnableKeepAlive
    /\ entering' = [entering EXCEPT ![u] = a]
    /\ UNCHANGED <<vars, running>>

\* The running task takes a step of ConnectionPool.
UserStep(u) ==
    /\ u \in running
    /\ \/ entering[u] # NoAddr /\ ReturnEntry(u, entering[u])
       \/ entering[u] = NoAddr /\ UserNext(u) /\ user'[u].pc # "push"
    /\ entering' = [entering EXCEPT ![u] = NoAddr]
    /\ UNCHANGED running

ClearStep(c)  == c \in running /\ ClearNext(c) /\ UNCHANGED runtimeVars
SweepStep(w)  == w \in running /\ SweepNext(w) /\ UNCHANGED runtimeVars

RuntimeInit == Init /\ running = {} /\ entering = [u \in User |-> NoAddr]

RuntimeNext ==
    \/ \E x \in Task : Schedule(x) \/ Suspend(x)
    \/ \E u \in User, a \in Addr : Enter(u, a)
    \/ \E u \in User : UserStep(u)
    \/ \E c \in Clearer : ClearStep(c)
    \/ \E w \in Sweeper : SweepStep(w)
    \/ Tick /\ UNCHANGED runtimeVars

RuntimeSpec == RuntimeInit /\ [][RuntimeNext]_<<vars, runtimeVars>>

\* An await of a mutex ends with the mutex, not by being dropped.
Pops(u)    == UserStep(u) /\ user[u].pc = "wait" /\ user'[u].pc # "idle"
Empties(c) == ClearStep(c) /\ clearer[c].pc = "lock" /\ clearer'[c].pc # "off"

\* The scheduler polls every task that can run, and a task that holds a guard
\* gets the mutex it awaits: tokio's mutex is handed to its waiters in order
\* and no critical section awaits anything.
RuntimeFairness ==
    /\ \A x \in Task : WF_<<vars, runtimeVars>>(Schedule(x))
    /\ \A u \in User : SF_<<vars, runtimeVars>>(Pops(u))
    /\ \A c \in Clearer : SF_<<vars, runtimeVars>>(Empties(c))

RuntimeFairSpec == RuntimeSpec /\ RuntimeFairness
-----------------------------------------------------------------------------
\* The pool can be used and shut down concurrently without a deadlock: it never
\* happens that every worker is blocked on a write lock while the tasks whose
\* guards they wait for have no worker to run on.
NoThreadDeadlock ==
    ~(Cardinality(running) = Workers /\ \A x \in running : Stuck(x))

\* A shard's read guard does not outlive the wait for a mutex: what a blocked
\* return, sweep or clear waits for does end.
GuardsAreReleased ==
    /\ \A u \in User : (user[u].pc = "wait") ~> (user[u].pc # "wait")
    /\ \A c \in Clearer : (clearer[c].pc = "lock") ~> (clearer[c].pc # "lock")
=============================================================================
