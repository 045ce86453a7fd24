----------------------------- MODULE PoolPromise -----------------------------
(***************************************************************************)
(* What the connection pool promises its users: each address has a bounded *)
(* set of idle connections; a user that asks for an address is handed one  *)
(* of its idle connections, alone, or a new one; a connection given back   *)
(* under an address becomes idle there, or is closed; the pool may close   *)
(* idle connections, but pools none of its own accord.                     *)
(***************************************************************************)
EXTENDS Naturals, FiniteSets

CONSTANTS User, Addr, StreamId, NoAddr, NoStream, MaxConnectionsPerHost

VARIABLES
    idle,   \* address -> its idle connections
    asks,   \* user -> the address it has asked for, or NoAddr
    held    \* user -> the connection in its hands, or NoStream

vars == <<idle, asks, held>>

Init ==
    /\ idle = [a \in Addr |-> {}]
    /\ asks = [u \in User |-> NoAddr]
    /\ held = [u \in User |-> NoStream]

Unused(s) ==
    /\ \A a \in Addr : s \notin idle[a]
    /\ \A u \in User : held[u] # s

\* The pool closes any of its idle connections.
Close == /\ idle' \in [Addr -> SUBSET StreamId]
         /\ \A a \in Addr : idle'[a] \subseteq idle[a]

Ask(u, a) ==
    /\ asks[u] = NoAddr /\ held[u] = NoStream
    /\ asks' = [asks EXCEPT ![u] = a]
    /\ UNCHANGED <<idle, held>>

\* The user stops waiting, without a connection.
GiveUp(u) ==
    /\ asks[u] # NoAddr
    /\ asks' = [asks EXCEPT ![u] = NoAddr]
    /\ UNCHANGED <<idle, held>>

Hand(u, s) ==
    /\ asks' = [asks EXCEPT ![u] = NoAddr]
    /\ held' = [held EXCEPT ![u] = s]

\* One of the idle connections of the address is handed out, and is nobody
\* else's; others may be closed.
Reuse(u) ==
    /\ asks[u] # NoAddr
    /\ \E s \in idle[asks[u]] : Hand(u, s) /\ Close /\ \A a \in Addr : s \notin idle'[a]

Connect(u) ==
    /\ asks[u] # NoAddr
    /\ \E s \in StreamId : Unused(s) /\ Hand(u, s) /\ UNCHANGED idle

Release(u) ==
    /\ held[u] # NoStream
    /\ held' = [held EXCEPT ![u] = NoStream]
    /\ UNCHANGED asks

\* A connection given back becomes idle if its host has fewer than the maximum.
Pool(u, a) ==
    /\ Release(u)
    /\ Cardinality(idle[a]) < MaxConnectionsPerHost
    /\ idle' = [idle EXCEPT ![a] = @ \cup {held[u]}]

\* The connection is closed, by the user or on its return.
Drop(u) == Release(u) /\ UNCHANGED idle

Next ==
    \/ Close /\ UNCHANGED <<asks, held>>
    \/ \E u \in User : GiveUp(u) \/ Reuse(u) \/ Connect(u) \/ Drop(u)
    \/ \E u \in User, a \in Addr : Ask(u, a) \/ Pool(u, a)

Spec == Init /\ [][Next]_vars
=============================================================================
