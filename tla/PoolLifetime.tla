---------------------------- MODULE PoolLifetime ----------------------------
(***************************************************************************)
(* ConnectionPool with the time since each connection was established,     *)
(* which the code does not keep: ConnectionMetadata is made anew, with     *)
(* created_at = now, each time a connection is returned.                   *)
(***************************************************************************)
EXTENDS ConnectionPool

VARIABLE life   \* history: connection -> ticks since it was established

Elapsed ==
    life' = [s \in StreamId |->
        IF ~InUse(s)' THEN 0
        ELSE IF Tick /\ life[s] < AgeCap THEN life[s] + 1 ELSE life[s]]

LifeSpec ==
    /\ Init /\ life = [s \in StreamId |-> 0]
    /\ [][Next /\ Elapsed]_<<vars, life>>

\* max_lifetime limits the lifetime of a connection: none is handed out again
\* when it was established longer ago than that.
LifetimeLimited ==
    [][\A u \in User :
          (PopUnexpired(u) /\ user'[u].pc = "hold")
             => life[user'[u].conn] <= MaxLifetime]_<<vars, life>>
=============================================================================
