------------------------------- MODULE Server -------------------------------
(***************************************************************************)
(* A Server's own state and what it shares: the Options, which accepted    *)
(* connections hold by Arc and options_mut copies on write, and the        *)
(* ConnectionPool, which the tasks of the application may clone by Arc,    *)
(* with the cleanup tasks that are started, replaced and aborted on it.    *)
(* What the pool's deques do meanwhile is ConnectionPool's matter.         *)
(***************************************************************************)
EXTENDS Naturals, FiniteSets

CONSTANTS
    Handler,            \* tasks of the application, one per accepted connection
    Owner, Static,      \* the Server, and GLOBAL_CONNECTION_POOL
    Cell, Pool, Task,   \* allocations: Arc<Options>, Arc<ConnectionPool>, JoinHandle
    None

Options == [no_delay: BOOLEAN, keep_alive: BOOLEAN]
Holder  == Handler \cup {Owner, Static}

ASSUME ServerAssumption ==
    /\ Owner \notin Handler /\ Static \notin Handler \cup {Owner}
    /\ None \notin Options \cup Cell \cup Pool \cup Task

VARIABLES
    value,      \* cell -> the Options in it; None when it is free
    options,    \* who -> the cell its Arc<Options> points to
    held,       \* who -> the pool its Arc<ConnectionPool> points to
    slot,       \* pool -> the task in cleanup_handle
    sweeps,     \* task -> the pool it sweeps; None when ended or aborted
    hand,       \* handler -> the task it has spawned and not yet stored
    doing       \* who -> the call it is in the middle of

vars == <<value, options, held, slot, sweeps, hand, doing>>

\* An environment variable, and a flag that it may override: what does not
\* parse leaves the default, which for both of the flags is true.
Setting == {"unset", "malformed", "true", "false"}
Env     == [no_delay: Setting, keep_alive: Setting]
OptionsNew(env) == [flag \in {"no_delay", "keep_alive"} |-> env[flag] # "false"]

Init ==
    /\ value = [c \in Cell |-> None]
    /\ options = [h \in Holder |-> None]
    /\ held = [h \in Holder |-> None]
    /\ slot = [p \in Pool |-> None]
    /\ sweeps = [t \in Task |-> None]
    /\ hand = [h \in Handler |-> None]
    /\ doing = [h \in Holder |-> "nothing"]

Sharers(c) == {h \in Holder : options[h] = c}
Holders(p) == {h \in Holder : held[h] = p}
FreeCells  == {c \in Cell : value[c] = None}
Unborn     == {p \in Pool : Holders(p) = {}}
Spawnable  == {t \in Task : sweeps[t] = None}

Open       == options[Owner] # None /\ doing[Owner] = "nothing"
Idle(h)    == doing[h] = "nothing"

\* Mutants: options are edited in place; a task outlives its pool's Drop; a
\* second cleanup task leaves the first running, or is aborted along with it.
InPlace      == {options[Owner]}
NoDrop(h)    == {}
Both(h)      == {slot[held[h]], hand[h]}

\* Arc::make_mut: the cell to edit is the one at hand if nobody shares it.
Editable == IF Sharers(options[Owner]) = {Owner} THEN {options[Owner]} ELSE FreeCells

\* The pools whose Drop runs when h drops its Arc.
Dropped(h)  == {p \in Pool : Holders(p) = {h}}

\* The tasks that are aborted when the slot of p is emptied.
InSlot(p)   == {slot[p]}

\* The task that start_cleanup_task aborts when it stores its own.
Replaced(h) == InSlot(held[h])

Abort(S)    == [t \in Task |-> IF t \in S THEN None ELSE sweeps[t]]
Empty(P)    == [p \in Pool |-> IF p \in P THEN None ELSE slot[p]]
Drop(P)     == UNION {InSlot(p) : p \in P}

(***************************************************************************)
(* The Server.                                                             *)
(***************************************************************************)

\* ConnectionPool::new and start_cleanup_task, before anyone shares the pool; the
\* one that h held until then is dropped.
Replace(h) ==
    \E p \in Unborn, t \in Spawnable :
        /\ held' = [held EXCEPT ![h] = p]
        /\ slot' = [Empty(Dropped(h)) EXCEPT ![p] = t]
        /\ sweeps' = [Abort(Drop(Dropped(h))) EXCEPT ![t] = p]

\* Server::with_options, where new and with_connection_pool end up too.
WithOptions(o) ==
    /\ options[Owner] = None
    /\ \E c \in FreeCells :
        /\ value' = [value EXCEPT ![c] = o]
        /\ options' = [options EXCEPT ![Owner] = c]
    /\ IF o.keep_alive THEN Replace(Owner) ELSE UNCHANGED <<held, slot, sweeps>>
    /\ UNCHANGED <<hand, doing>>

New == \E env \in Env : WithOptions(OptionsNew(env))

\* The options of the environment, with the keep_alive of the configuration given,
\* or without a pool when there is none.
WithConnectionPool ==
    \E env \in Env, enabled \in BOOLEAN :
        WithOptions([OptionsNew(env) EXCEPT !.keep_alive = enabled])

\* options_mut, and what the application writes through it.
OptionsMut ==
    /\ Open
    /\ \E o \in Options, c \in Editable :
        /\ value' = [value EXCEPT ![c] = o]
        /\ options' = [options EXCEPT ![Owner] = c]
    /\ UNCHANGED <<held, slot, sweeps, hand, doing>>

EnableConnectionPool ==
    /\ Open /\ value[options[Owner]].keep_alive
    /\ Replace(Owner)
    /\ UNCHANGED <<value, options, hand, doing>>

\* Up to the first await of clear: the pool is taken and its task aborted.
DisableConnectionPool ==
    /\ Open /\ held[Owner] # None
    /\ slot' = Empty({held[Owner]})
    /\ sweeps' = Abort(InSlot(held[Owner]))
    /\ doing' = [doing EXCEPT ![Owner] = "clearing"]
    /\ UNCHANGED <<value, options, held, hand>>

DropHeld(h) ==
    /\ held' = [held EXCEPT ![h] = None]
    /\ slot' = Empty(Dropped(h))
    /\ sweeps' = Abort(Drop(Dropped(h)))

\* clear has returned, or the future was dropped: the Arc that was taken goes.
Disabled ==
    /\ doing[Owner] = "clearing"
    /\ DropHeld(Owner)
    /\ doing' = [doing EXCEPT ![Owner] = "nothing"]
    /\ UNCHANGED <<value, options, hand>>

\* Dropping the last Arc<Options> of a cell frees it.
Freed(h) == [c \in Cell |-> IF Sharers(c) = {h} THEN None ELSE value[c]]

DropServer ==
    /\ Open
    /\ value' = Freed(Owner)
    /\ options' = [options EXCEPT ![Owner] = None]
    /\ DropHeld(Owner)
    /\ UNCHANGED <<hand, doing>>

(***************************************************************************)
(* The tasks of the application.                                           *)
(***************************************************************************)

\* A connection is accepted, and h serves it with the options of the moment.
Accept(h) ==
    /\ Open /\ options[h] = None
    /\ options' = [options EXCEPT ![h] = options[Owner]]
    /\ UNCHANGED <<value, held, slot, sweeps, hand, doing>>

Served(h) ==
    /\ options[h] # None
    /\ value' = Freed(h)
    /\ options' = [options EXCEPT ![h] = None]
    /\ UNCHANGED <<held, slot, sweeps, hand, doing>>

\* h clones the Arc in the server's public field.
ClonePool(h) ==
    /\ Open /\ held[h] = None /\ held[Owner] # None
    /\ held' = [held EXCEPT ![h] = held[Owner]]
    /\ UNCHANGED <<value, options, slot, sweeps, hand, doing>>

DropPool(h) ==
    /\ held[h] # None /\ Idle(h)
    /\ DropHeld(h)
    /\ UNCHANGED <<value, options, hand, doing>>

\* start_cleanup_task: the task is spawned before the slot is locked.
Spawn(h) ==
    /\ held[h] # None /\ Idle(h)
    /\ \E t \in Spawnable :
        /\ sweeps' = [sweeps EXCEPT ![t] = held[h]]
        /\ hand' = [hand EXCEPT ![h] = t]
    /\ doing' = [doing EXCEPT ![h] = "starting"]
    /\ UNCHANGED <<value, options, held, slot>>

\* With the slot locked: the task there is aborted and replaced.
Store(h) ==
    /\ doing[h] = "starting"
    /\ sweeps' = Abort(Replaced(h))
    /\ slot' = [slot EXCEPT ![held[h]] = hand[h]]
    /\ hand' = [hand EXCEPT ![h] = None]
    /\ doing' = [doing EXCEPT ![h] = "nothing"]
    /\ UNCHANGED <<value, options, held>>

\* shutdown, up to the clear it ends in, which touches neither handle nor Arc.
Shutdown(h) ==
    /\ held[h] # None /\ Idle(h)
    /\ slot' = Empty({held[h]})
    /\ sweeps' = Abort(InSlot(held[h]))
    /\ UNCHANGED <<value, options, held, hand, doing>>

\* init_global makes a pool and starts its task ...
InitGlobal(h) ==
    /\ held[h] = None
    /\ Replace(h)
    /\ doing' = [doing EXCEPT ![h] = "initialising"]
    /\ UNCHANGED <<value, options, hand>>

\* ... and is refused by the OnceLock if another came first: the pool is dropped.
SetGlobal(h) ==
    /\ doing[h] = "initialising"
    /\ IF held[Static] = None
       THEN /\ held' = [held EXCEPT ![Static] = held[h], ![h] = None]
            /\ UNCHANGED <<slot, sweeps>>
       ELSE DropHeld(h)
    /\ doing' = [doing EXCEPT ![h] = "nothing"]
    /\ UNCHANGED <<value, options, hand>>

\* global, whose initialiser runs within the OnceLock.
Global(h) ==
    /\ held[h] = None
    /\ IF held[Static] # None
       THEN /\ held' = [held EXCEPT ![h] = held[Static]]
            /\ UNCHANGED <<slot, sweeps>>
       ELSE \E p \in Unborn, t \in Spawnable :
            /\ held' = [held EXCEPT ![Static] = p, ![h] = p]
            /\ slot' = [slot EXCEPT ![p] = t]
            /\ sweeps' = [sweeps EXCEPT ![t] = p]
    /\ UNCHANGED <<value, options, hand, doing>>

HandlerNext(h) ==
    \/ Accept(h) \/ Served(h) \/ ClonePool(h) \/ DropPool(h)
    \/ Spawn(h) \/ Store(h) \/ Shutdown(h)
    \/ InitGlobal(h) \/ SetGlobal(h) \/ Global(h)

OwnerNext ==
    \/ New \/ WithConnectionPool \/ \E o \in Options : WithOptions(o)
    \/ OptionsMut \/ EnableConnectionPool
    \/ DisableConnectionPool \/ Disabled \/ DropServer

Next == OwnerNext \/ \E h \in Handler : HandlerNext(h)

Spec == Init /\ [][Next]_vars

-----------------------------------------------------------------------------

Running == {t \in Task : sweeps[t] # None}

TypeOK ==
    /\ value \in [Cell -> Options \cup {None}]
    /\ options \in [Holder -> {c \in Cell : value[c] # None} \cup {None}]
    /\ held \in [Holder -> Pool \cup {None}]
    /\ slot \in [Pool -> Task \cup {None}] /\ \A p \in Unborn : slot[p] = None
    /\ sweeps \in [Task -> Pool \cup {None}]
    /\ hand \in [Handler -> Task \cup {None}]
    /\ doing \in [Holder -> {"nothing", "clearing", "starting", "initialising"}]

\* A connection is served with the options it was accepted with, whatever the
\* server's are changed to meanwhile, in place or in a copy (options_mut).
AcceptedKeepOptions ==
    [][\A h \in Handler : {options[h], options'[h]} \subseteq Cell
            => value'[options'[h]] = value[options[h]]]_vars

\* No cleanup task runs on for ever: each is in the slot of a pool that somebody
\* holds, whose shutdown or Drop aborts it, or on its way there.
SweepersOwned ==
    \A t \in Running :
        \/ \E p \in Pool : slot[p] = t /\ Holders(p) # {}
        \/ \E h \in Handler : hand[h] = t /\ held[h] = sweeps[t]

\* A handle in a slot is of a task that runs on that very pool, so that a pool is
\* swept unless it was shut down, however starts, shutdowns and drops meet.
HandlesLive ==
    \A p \in Pool : slot[p] # None => slot[p] \in Task /\ sweeps[slot[p]] = p
=============================================================================
