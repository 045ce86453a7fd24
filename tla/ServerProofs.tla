---------------------------- MODULE ServerProofs ----------------------------
(***************************************************************************)
(* The Server's sharing is sound for any number of handlers and            *)
(* allocations: types are kept, a connection keeps the options it was      *)
(* accepted with, and no cleanup task is lost or aborted under a pool that *)
(* counts on it.  The invariant that carries the last two says where each  *)
(* running task is: in the slot of the pool it sweeps, or in one hand.     *)
(***************************************************************************)
EXTENDS Server, TLAPS

\* Between its spawn and its store a task is in the hand of a handler that holds
\* the pool the task sweeps.
HandsFull ==
    \A h \in Handler :
        IF doing[h] = "starting"
        THEN hand[h] \in Task /\ held[h] \in Pool /\ sweeps[hand[h]] = held[h]
        ELSE hand[h] = None

\* A task is not in two hands, nor in a hand and a slot.
HandsApart ==
    \A h \in Handler : hand[h] # None =>
        /\ \A p \in Pool : slot[p] # hand[h]
        /\ \A g \in Handler : hand[g] = hand[h] => g = h

\* A pool whose slot is taken is alive.
SlotsHeld == \A p \in Pool : slot[p] # None => \E h \in Holder : held[h] = p

\* A running task is in the slot of the pool it sweeps, or in a hand.
TasksKept ==
    \A t \in Task : sweeps[t] # None =>
        slot[sweeps[t]] = t \/ \E h \in Handler : hand[h] = t

TaskType ==
    /\ held \in [Holder -> Pool \cup {None}]
    /\ slot \in [Pool -> Task \cup {None}]
    /\ sweeps \in [Task -> Pool \cup {None}]
    /\ hand \in [Handler -> Task \cup {None}]

TaskInv ==
    TaskType /\ HandsFull /\ HandsApart /\ SlotsHeld /\ TasksKept /\ HandlesLive

IInv == TypeOK /\ TaskInv

SameStarts ==
    \A g \in Handler : (doing'[g] = "starting") <=> (doing[g] = "starting")

-----------------------------------------------------------------------------
(***************************************************************************)
(* How the ways in which pools and tasks change keep TaskInv.              *)
(***************************************************************************)

LEMMA IdleStep ==
    ASSUME TaskInv, UNCHANGED <<slot, sweeps, hand>>, SameStarts,
           held' \in [Holder -> Pool \cup {None}],
           \A h \in Handler : doing[h] = "starting" => held'[h] = held[h],
           \A p \in Pool : Holders(p) # {} => Holders(p)' # {}
    PROVE  TaskInv'
<1>1. TaskType'
  BY DEF TaskInv, TaskType
<1>2. HandsFull'
  BY Zenon DEF TaskInv, HandsFull, SameStarts
<1>3. SlotsHeld'
  BY Zenon DEF TaskInv, SlotsHeld, Holders
<1>4. HandsApart' /\ TasksKept' /\ HandlesLive'
  BY Zenon DEF TaskInv, HandsApart, TasksKept, HandlesLive
<1> QED BY <1>1, <1>2, <1>3, <1>4 DEF TaskInv

\* When an Arc goes and its pool with it, the task in the slot is aborted.  A hand
\* that sweeps the pool would hold it, and h has none.
LEMMA DropHeldKeeps ==
    ASSUME NEW h \in Holder, TaskInv, DropHeld(h), hand' = hand, SameStarts,
           h \in Handler => doing[h] # "starting"
    PROVE  TaskInv'
<1> USE ServerAssumption DEF TaskInv
<1>1. /\ \A g \in Holder : g # h => held'[g] = held[g]
      /\ held'[h] = None
      /\ held' \in [Holder -> Pool \cup {None}]
  BY DEF DropHeld, TaskType
<1>2. \A p \in Pool : slot'[p] = IF p \in Dropped(h) THEN None ELSE slot[p]
  BY DEF DropHeld, Empty
<1>3. \A t \in Task : sweeps'[t] =
        IF \E p \in Dropped(h) : slot[p] = t THEN None ELSE sweeps[t]
  BY DEF DropHeld, Abort, Drop, InSlot
<1>4. TaskType'
  BY <1>1, <1>2, <1>3 DEF TaskType, DropHeld, Empty, Abort
<1>5. HandsFull'
  <2> SUFFICES ASSUME NEW g \in Handler, doing[g] = "starting"
               PROVE  /\ hand[g] \in Task /\ held'[g] \in Pool
                      /\ sweeps'[hand[g]] = held'[g]
    BY Zenon DEF HandsFull, SameStarts
  <2>1. hand[g] \in Task /\ held[g] \in Pool /\ sweeps[hand[g]] = held[g] /\ g # h
    BY DEF HandsFull
  <2>2. \A p \in Pool : slot[p] # hand[g]
    BY <2>1 DEF HandsApart
  <2>3. sweeps'[hand[g]] = sweeps[hand[g]]
    BY <1>3, <2>1, <2>2 DEF Dropped
  <2> QED BY <1>1, <2>1, <2>3 DEF Holder
<1>6. HandsApart'
  BY <1>2 DEF HandsApart
<1>7. SlotsHeld'
  <2> SUFFICES ASSUME NEW p \in Pool, slot'[p] # None
               PROVE  \E g \in Holder : held'[g] = p
    BY DEF SlotsHeld
  <2>1. slot[p] # None /\ Holders(p) # {h}
    BY <1>2 DEF Dropped
  <2>2. PICK g \in Holder : held[g] = p /\ g # h
    BY <2>1 DEF SlotsHeld, Holders
  <2> QED BY <1>1, <2>2
<1>8. HandlesLive'
  BY <1>2, <1>3 DEF HandlesLive, Dropped
<1>9. TasksKept'
  BY <1>2, <1>3 DEF TasksKept, TaskType
<1> QED BY <1>4, <1>5, <1>6, <1>7, <1>8, <1>9

\* A new pool with its task; the pools of D are dropped meanwhile.
LEMMA NewPoolKeeps ==
    ASSUME TaskInv, NEW p \in Unborn, NEW t \in Spawnable,
           NEW D \in SUBSET Pool, p \notin D,
           slot' = [Empty(D) EXCEPT ![p] = t],
           sweeps' = [Abort(Drop(D)) EXCEPT ![t] = p],
           held' \in [Holder -> Pool \cup {None}],
           \E h \in Holder : held'[h] = p,
           \A q \in Pool : Holders(q) # {} => q \in D \/ Holders(q)' # {},
           \A g \in Handler : doing[g] = "starting" => held'[g] = held[g],
           hand' = hand, SameStarts
    PROVE  TaskInv'
<1> USE ServerAssumption DEF TaskInv
<1>1. /\ p \in Pool /\ t \in Task /\ sweeps[t] = None
      /\ \A g \in Holder : held[g] # p
  BY DEF Unborn, Spawnable, Holders
<1>2. slot[p] = None /\ \A q \in Pool : slot[q] # t
  BY <1>1 DEF SlotsHeld, HandlesLive
<1>3. \A q \in Pool : slot'[q] =
        IF q = p THEN t ELSE IF q \in D THEN None ELSE slot[q]
  BY <1>1 DEF Empty
<1>4. \A u \in Task : sweeps'[u] =
        IF u = t THEN p
        ELSE IF \E q \in D : slot[q] = u THEN None ELSE sweeps[u]
  BY <1>1 DEF Abort, Drop, InSlot
<1>5. TaskType'
  BY <1>1 DEF TaskType, Empty, Abort
<1>6. \A g \in Handler : hand[g] # t
  BY <1>1 DEF HandsFull
<1>7. HandsFull'
  <2> SUFFICES ASSUME NEW g \in Handler, doing[g] = "starting"
               PROVE  /\ hand[g] \in Task /\ held'[g] \in Pool
                      /\ sweeps'[hand[g]] = held'[g]
    BY Zenon DEF HandsFull, SameStarts
  <2>1. hand[g] \in Task /\ held[g] \in Pool /\ sweeps[hand[g]] = held[g]
    BY DEF HandsFull
  <2>2. \A q \in Pool : slot[q] # hand[g]
    BY <2>1 DEF HandsApart
  <2>3. sweeps'[hand[g]] = sweeps[hand[g]]
    BY <1>4, <1>6, <2>1, <2>2
  <2> QED BY <2>1, <2>3
<1>8. HandsApart'
  BY <1>3, <1>6 DEF HandsApart
<1>9. SlotsHeld'
  BY <1>3 DEF SlotsHeld, Holders
<1>10. HandlesLive'
  BY <1>1, <1>2, <1>3, <1>4 DEF HandlesLive
<1>11. TasksKept'
  BY <1>1, <1>2, <1>3, <1>4 DEF TasksKept, TaskType
<1> QED BY <1>5, <1>7, <1>8, <1>9, <1>10, <1>11

\* The new pool takes the place of the one h held, if any.
LEMMA ReplaceKeeps ==
    ASSUME NEW h \in Holder, TaskInv, Replace(h), hand' = hand, SameStarts,
           h \in Handler => doing[h] # "starting"
    PROVE  TaskInv'
<1> USE ServerAssumption
<1>1. PICK p \in Unborn, t \in Spawnable :
        /\ held' = [held EXCEPT ![h] = p]
        /\ slot' = [Empty(Dropped(h)) EXCEPT ![p] = t]
        /\ sweeps' = [Abort(Drop(Dropped(h))) EXCEPT ![t] = p]
  BY DEF Replace
<1>2. p \in Pool /\ p \notin Dropped(h) /\ Dropped(h) \in SUBSET Pool
  BY DEF Unborn, Dropped
<1>3. /\ held' \in [Holder -> Pool \cup {None}]
      /\ held'[h] = p /\ \A g \in Holder : g # h => held'[g] = held[g]
  BY <1>1, <1>2 DEF TaskInv, TaskType
<1>4. \A q \in Pool : Holders(q) # {} => q \in Dropped(h) \/ Holders(q)' # {}
  BY <1>3 DEF Holders, Dropped
<1>5. \A g \in Handler : doing[g] = "starting" => held'[g] = held[g]
  BY <1>3 DEF Holder
<1> QED BY <1>1, <1>2, <1>3, <1>4, <1>5, NewPoolKeeps

\* A shutdown empties one slot and aborts the task that was in it.
LEMMA ShutdownKeeps ==
    ASSUME NEW q \in Pool, TaskInv, slot' = Empty({q}), sweeps' = Abort(InSlot(q)),
           UNCHANGED <<held, hand>>, SameStarts
    PROVE  TaskInv'
<1> USE ServerAssumption DEF TaskInv
<1>1. \A p \in Pool : slot'[p] = IF p = q THEN None ELSE slot[p]
  BY DEF Empty
<1>2. \A t \in Task : sweeps'[t] = IF slot[q] = t THEN None ELSE sweeps[t]
  BY DEF Abort, InSlot
<1>3. TaskType'
  BY <1>1, <1>2 DEF TaskType, Empty, Abort
<1>4. HandsFull'
  <2> SUFFICES ASSUME NEW g \in Handler, doing[g] = "starting"
               PROVE  /\ hand[g] \in Task /\ held[g] \in Pool
                      /\ sweeps'[hand[g]] = held[g]
    BY Zenon DEF HandsFull, SameStarts
  <2> QED BY <1>2 DEF HandsFull, HandsApart
<1>5. HandsApart' /\ SlotsHeld'
  BY <1>1 DEF HandsApart, SlotsHeld
<1>6. HandlesLive'
  BY <1>1, <1>2 DEF HandlesLive
<1>7. TasksKept'
  <2> SUFFICES ASSUME NEW t \in Task, sweeps'[t] # None
               PROVE  slot'[sweeps'[t]] = t \/ \E h \in Handler : hand[h] = t
    BY DEF TasksKept
  <2>1. sweeps'[t] = sweeps[t] /\ slot[q] # t /\ sweeps[t] \in Pool
    BY <1>2 DEF TaskType
  <2>2. slot[sweeps[t]] = t \/ \E h \in Handler : hand[h] = t
    BY <2>1 DEF TasksKept
  <2>3. slot[sweeps[t]] = t => slot'[sweeps[t]] = t
    BY <1>1, <2>1
  <2> QED BY <2>1, <2>2, <2>3
<1> QED BY <1>3, <1>4, <1>5, <1>6, <1>7

\* A spawned task is in the hand of its handler.
LEMMA SpawnKeeps ==
    ASSUME NEW h \in Handler, TypeOK, TaskInv, Spawn(h)
    PROVE  TaskInv'
<1> USE ServerAssumption DEF TaskInv, Spawn
<1>1. PICK t \in Spawnable :
        /\ sweeps' = [sweeps EXCEPT ![t] = held[h]]
        /\ hand' = [hand EXCEPT ![h] = t]
  OBVIOUS
<1>2. h \in Holder /\ t \in Task /\ sweeps[t] = None /\ held[h] \in Pool
  BY DEF Spawnable, TaskType, Holder
<1>3. /\ hand'[h] = t /\ \A g \in Handler : g # h => hand'[g] = hand[g]
      /\ \A g \in Handler : hand[g] # t
  BY <1>1, <1>2 DEF TaskType, HandsFull
<1>4. sweeps'[t] = held[h] /\ \A u \in Task : u # t => sweeps'[u] = sweeps[u]
  BY <1>1, <1>2 DEF TaskType
<1>5. \A g \in Handler : doing'[g] = IF g = h THEN "starting" ELSE doing[g]
  BY <1>2 DEF TypeOK, Holder
<1>6. \A p \in Pool : slot[p] # t
  BY <1>2 DEF HandlesLive
<1>7. TaskType'
  BY <1>1, <1>2 DEF TaskType
<1>8. HandsFull'
  BY <1>2, <1>3, <1>4, <1>5 DEF HandsFull
<1>9. HandsApart'
  BY <1>3, <1>6 DEF HandsApart
<1>10. SlotsHeld' /\ HandlesLive'
  BY <1>4, <1>6 DEF SlotsHeld, HandlesLive
<1>11. TasksKept'
  <2>1. hand[h] = None
    BY DEF HandsFull, Idle
  <2> QED BY <1>2, <1>3, <1>4, <2>1 DEF TasksKept
<1> QED BY <1>7, <1>8, <1>9, <1>10, <1>11

\* The stored task takes the slot, and the one that was there is aborted.
LEMMA StoreKeeps ==
    ASSUME NEW h \in Handler, TypeOK, TaskInv, Store(h)
    PROVE  TaskInv'
<1> USE ServerAssumption DEF TaskInv, Store
<1> DEFINE t == hand[h]
           q == held[h]
<1>1. h \in Holder /\ t \in Task /\ q \in Pool /\ sweeps[t] = q
  BY DEF HandsFull, Holder
<1>2. (\A p \in Pool : slot[p] # t) /\ \A g \in Handler : hand[g] = t => g = h
  BY <1>1 DEF HandsApart
<1>3. \A p \in Pool : slot'[p] = IF p = q THEN t ELSE slot[p]
  BY <1>1 DEF TaskType
<1>4. \A u \in Task : sweeps'[u] = IF slot[q] = u THEN None ELSE sweeps[u]
  BY DEF Abort, Replaced, InSlot
<1>5. hand'[h] = None /\ \A g \in Handler : g # h => hand'[g] = hand[g]
  BY DEF TaskType
<1>6. \A g \in Handler : doing'[g] = IF g = h THEN "nothing" ELSE doing[g]
  BY <1>1 DEF TypeOK, Holder
<1>7. TaskType'
  BY <1>1, <1>4 DEF TaskType, Abort
<1>8. HandsFull'
  <2> SUFFICES ASSUME NEW g \in Handler
               PROVE  IF doing'[g] = "starting"
                      THEN /\ hand'[g] \in Task /\ held[g] \in Pool
                           /\ sweeps'[hand'[g]] = held[g]
                      ELSE hand'[g] = None
    BY DEF HandsFull
  <2>1. CASE g = h
    BY <1>5, <1>6, <2>1
  <2>2. CASE g # h
    BY <1>1, <1>4, <1>5, <1>6, <2>2 DEF HandsFull, HandsApart
  <2> QED BY <2>1, <2>2
<1>9. HandsApart'
  BY <1>1, <1>2, <1>3, <1>5 DEF HandsApart
<1>10. SlotsHeld'
  BY <1>1, <1>3 DEF SlotsHeld
<1>11. HandlesLive'
  BY <1>1, <1>2, <1>3, <1>4 DEF HandlesLive
<1>12. TasksKept'
  BY <1>1, <1>2, <1>3, <1>4, <1>5 DEF TasksKept, TaskType, HandlesLive
<1> QED BY <1>7, <1>8, <1>9, <1>10, <1>11, <1>12

-----------------------------------------------------------------------------
(***************************************************************************)
(* The options, and the invariant of the whole.                            *)
(***************************************************************************)

OptionsType ==
    /\ value \in [Cell -> Options \cup {None}]
    /\ options \in [Holder -> {c \in Cell : value[c] # None} \cup {None}]

DoingType == doing \in [Holder -> {"nothing", "clearing", "starting", "initialising"}]

\* A cell for a new value is free, or the server's alone.
LEMMA NewValue ==
    ASSUME OptionsType, NEW o \in Options, NEW c \in Cell,
           \A h \in Holder : h # Owner => options[h] # c,
           value' = [value EXCEPT ![c] = o], options' = [options EXCEPT ![Owner] = c]
    PROVE  OptionsType'
<1> USE ServerAssumption
<1>1. value' \in [Cell -> Options \cup {None}]
  BY DEF OptionsType
<1>2. \A d \in Cell : value'[d] = IF d = c THEN o ELSE value[d]
  BY DEF OptionsType
<1>3. \A d \in Cell : value[d] # None => value'[d] # None
  BY <1>2
<1>4. value'[c] # None
  BY <1>2
<1>5. options' \in [Holder -> {d \in Cell : value'[d] # None} \cup {None}]
  BY <1>3, <1>4 DEF OptionsType
<1> QED BY <1>1, <1>5 DEF OptionsType

\* What a holder frees when it goes is nobody else's.
LEMMA FreedValue ==
    ASSUME OptionsType, NEW h \in Holder, options[h] # None,
           value' = Freed(h), options' = [options EXCEPT ![h] = None]
    PROVE  OptionsType'
<1> USE ServerAssumption
<1>1. value' \in [Cell -> Options \cup {None}]
  BY DEF OptionsType, Freed
<1>2. \A g \in Holder : g # h /\ options[g] # None => value'[options[g]] # None
  BY DEF OptionsType, Freed, Sharers
<1>3. options' \in [Holder -> {d \in Cell : value'[d] # None} \cup {None}]
  <2>1. \A g \in Holder : options'[g] = IF g = h THEN None ELSE options[g]
    BY DEF OptionsType
  <2>2. \A g \in Holder : options'[g] \in {d \in Cell : value'[d] # None} \cup {None}
    BY <1>2, <2>1 DEF OptionsType
  <2> QED BY <2>2 DEF OptionsType
<1> QED BY <1>1, <1>3 DEF OptionsType

\* A cell that options_mut may write to is not another's.
LEMMA EditableIsOwn ==
    ASSUME OptionsType, NEW c \in Editable, options[Owner] # None
    PROVE  c \in Cell /\ \A h \in Holder : h # Owner => options[h] # c
BY ServerAssumption DEF OptionsType, Editable, FreeCells, Sharers, Holder

LEMMA FreeIsNobodys ==
    ASSUME OptionsType, NEW c \in FreeCells
    PROVE  c \in Cell /\ \A h \in Holder : options[h] # c
BY ServerAssumption DEF OptionsType, FreeCells

LEMMA EnvGivesOptions ==
    \A env \in Env : OptionsNew(env) \in Options
BY DEF OptionsNew, Options, Env

LEMMA InvInit == Init => IInv
<1> SUFFICES ASSUME Init PROVE IInv
  OBVIOUS
<1>1. TypeOK
  BY DEF Init, TypeOK, Unborn
<1>2. TaskType /\ HandsFull /\ HandsApart
  BY DEF Init, TaskType, HandsFull, HandsApart, Holder
<1>3. SlotsHeld /\ TasksKept /\ HandlesLive
  BY DEF Init, SlotsHeld, TasksKept, HandlesLive
<1> QED BY <1>1, <1>2, <1>3 DEF IInv, TaskInv

\* Every action keeps the invariant.
LEMMA InvStep == IInv /\ [Next]_vars => IInv'
<1> SUFFICES ASSUME IInv, [Next]_vars PROVE IInv'
  OBVIOUS
<1> USE ServerAssumption
<1>1. TypeOK /\ TaskInv /\ OptionsType /\ DoingType
  BY DEF IInv, TypeOK, OptionsType, DoingType
<1>2. OptionsType' /\ DoingType' /\ TaskInv' => IInv'
  <2>1. SlotsHeld' => \A p \in Unborn' : slot'[p] = None
    BY DEF SlotsHeld, Unborn, Holders
  <2> QED
    BY <2>1 DEF IInv, TypeOK, OptionsType, DoingType, TaskInv, TaskType
<1>3. Owner \in Holder /\ Owner \notin Handler /\ Handler \subseteq Holder
  BY DEF Holder
<1>4. ASSUME UNCHANGED <<value, options>> PROVE OptionsType'
  BY <1>1, <1>4 DEF OptionsType
<1>5. ASSUME UNCHANGED doing PROVE DoingType' /\ SameStarts
  BY <1>1, <1>5 DEF DoingType, SameStarts
<1>6. ASSUME UNCHANGED <<held, slot, sweeps, hand, doing>>
      PROVE  DoingType' /\ TaskInv'
  BY <1>1, <1>5, <1>6, IdleStep DEF TaskInv, TaskType, Holders
<1>7. ASSUME NEW o \in Options, WithOptions(o) PROVE IInv'
  <2>1. OptionsType'
    BY <1>1, <1>7, NewValue, FreeIsNobodys DEF WithOptions
  <2>2. DoingType' /\ TaskInv'
    <3>1. CASE o.keep_alive
      BY <1>1, <1>3, <1>5, <1>7, <3>1, ReplaceKeeps DEF WithOptions
    <3>2. CASE ~o.keep_alive
      BY <1>6, <1>7, <3>2 DEF WithOptions
    <3> QED BY <3>1, <3>2
  <2> QED BY <1>2, <2>1, <2>2
<1>8. CASE New
  BY <1>7, <1>8, EnvGivesOptions DEF New
<1>9. CASE WithConnectionPool
  <2>1. PICK env \in Env, enabled \in BOOLEAN :
          WithOptions([OptionsNew(env) EXCEPT !.keep_alive = enabled])
    BY <1>9 DEF WithConnectionPool
  <2>2. [OptionsNew(env) EXCEPT !.keep_alive = enabled] \in Options
    BY EnvGivesOptions DEF Options
  <2> QED BY <1>7, <2>1, <2>2
<1>10. CASE OptionsMut
  BY <1>1, <1>2, <1>6, <1>10, NewValue, EditableIsOwn DEF OptionsMut, Open
<1>11. CASE EnableConnectionPool
  BY <1>1, <1>2, <1>3, <1>4, <1>5, <1>11, ReplaceKeeps DEF EnableConnectionPool
<1>12. CASE DisableConnectionPool
  <2>1. held[Owner] \in Pool
    BY <1>1, <1>3, <1>12 DEF DisableConnectionPool, TaskInv, TaskType
  <2>2. DoingType' /\ SameStarts
    BY <1>1, <1>3, <1>12 DEF DisableConnectionPool, DoingType, SameStarts
  <2> QED BY <1>1, <1>2, <1>4, <1>12, <2>1, <2>2, ShutdownKeeps DEF DisableConnectionPool
<1>13. CASE Disabled
  <2>1. DoingType' /\ SameStarts
    BY <1>1, <1>3, <1>13 DEF Disabled, DoingType, SameStarts
  <2> QED BY <1>1, <1>2, <1>3, <1>4, <1>13, <2>1, DropHeldKeeps DEF Disabled
<1>14. CASE DropServer
  BY <1>1, <1>2, <1>3, <1>5, <1>14, FreedValue, DropHeldKeeps DEF DropServer, Open
<1>15. ASSUME NEW h \in Handler, Accept(h) PROVE IInv'
  <2>1. OptionsType'
    BY <1>1, <1>3, <1>15 DEF Accept, Open, OptionsType
  <2> QED BY <1>2, <1>6, <1>15, <2>1 DEF Accept
<1>16. ASSUME NEW h \in Handler, Served(h) PROVE IInv'
  BY <1>1, <1>2, <1>3, <1>6, <1>16, FreedValue DEF Served
<1>17. ASSUME NEW h \in Handler, ClonePool(h) PROVE IInv'
  <2>1. /\ held' \in [Holder -> Pool \cup {None}]
        /\ held[h] = None /\ \A g \in Holder : g # h => held'[g] = held[g]
    BY <1>1, <1>3, <1>17 DEF ClonePool, TaskInv, TaskType
  <2>2. doing[h] # "starting"
    BY <1>1, <2>1 DEF TaskInv, HandsFull
  <2>3. \A p \in Pool : Holders(p) # {} => Holders(p)' # {}
    BY <2>1 DEF Holders
  <2> QED BY <1>1, <1>2, <1>3, <1>4, <1>5, <1>17, <2>1, <2>2, <2>3, IdleStep DEF ClonePool
<1>18. ASSUME NEW h \in Handler, DropPool(h) PROVE IInv'
  BY <1>1, <1>2, <1>3, <1>4, <1>5, <1>18, DropHeldKeeps DEF DropPool, Idle
<1>19. ASSUME NEW h \in Handler, Spawn(h) PROVE IInv'
  <2>1. DoingType'
    BY <1>1, <1>19 DEF Spawn, DoingType
  <2> QED BY <1>1, <1>2, <1>4, <1>19, <2>1, SpawnKeeps DEF Spawn
<1>20. ASSUME NEW h \in Handler, Store(h) PROVE IInv'
  <2>1. DoingType'
    BY <1>1, <1>20 DEF Store, DoingType
  <2> QED BY <1>1, <1>2, <1>4, <1>20, <2>1, StoreKeeps DEF Store
<1>21. ASSUME NEW h \in Handler, Shutdown(h) PROVE IInv'
  <2>1. held[h] \in Pool
    BY <1>1, <1>3, <1>21 DEF Shutdown, TaskInv, TaskType
  <2> QED BY <1>1, <1>2, <1>4, <1>5, <1>21, <2>1, ShutdownKeeps DEF Shutdown
<1>22. ASSUME NEW h \in Handler, InitGlobal(h) PROVE IInv'
  <2>1. doing[h] # "starting"
    BY <1>1, <1>22 DEF InitGlobal, TaskInv, HandsFull
  <2>2. DoingType' /\ SameStarts
    BY <1>1, <1>3, <1>22, <2>1 DEF InitGlobal, DoingType, SameStarts
  <2> QED BY <1>1, <1>2, <1>3, <1>4, <1>22, <2>1, <2>2, ReplaceKeeps DEF InitGlobal
<1>23. ASSUME NEW h \in Handler, SetGlobal(h) PROVE IInv'
  <2>1. DoingType' /\ SameStarts
    BY <1>1, <1>3, <1>23 DEF SetGlobal, DoingType, SameStarts
  <2>2. CASE held[Static] = None
    <3>1. /\ Static \in Holder /\ Static # h
          /\ held' = [held EXCEPT ![Static] = held[h], ![h] = None]
      BY <1>23, <2>2 DEF SetGlobal, Holder
    <3>2. /\ held' \in [Holder -> Pool \cup {None}]
          /\ \A g \in Holder : held'[g] =
               IF g = h THEN None ELSE IF g = Static THEN held[h] ELSE held[g]
      BY <1>1, <1>3, <3>1 DEF TaskInv, TaskType
    <3>3. \A p \in Pool : Holders(p) # {} => Holders(p)' # {}
      BY <2>2, <3>1, <3>2 DEF Holders
    <3>4. \A g \in Handler : doing[g] = "starting" => held'[g] = held[g]
      BY <1>3, <1>23, <3>2 DEF SetGlobal
    <3> QED
      BY <1>1, <1>2, <1>4, <1>23, <2>1, <2>2, <3>2, <3>3, <3>4, IdleStep DEF SetGlobal
  <2>3. CASE held[Static] # None
    BY <1>1, <1>2, <1>3, <1>4, <1>23, <2>1, <2>3, DropHeldKeeps DEF SetGlobal
  <2> QED BY <2>2, <2>3
<1>24. ASSUME NEW h \in Handler, Global(h) PROVE IInv'
  <2>1. held[h] = None /\ doing[h] # "starting" /\ Static \in Holder
    BY <1>1, <1>24 DEF Global, TaskInv, HandsFull, Holder
  <2>2. CASE held[Static] # None
    <3>1. held' = [held EXCEPT ![h] = held[Static]] /\ UNCHANGED <<slot, sweeps>>
      BY <1>24, <2>2 DEF Global
    <3>2. /\ held' \in [Holder -> Pool \cup {None}]
          /\ \A g \in Holder : g # h => held'[g] = held[g]
      BY <1>1, <1>3, <2>1, <3>1 DEF TaskInv, TaskType
    <3>3. \A p \in Pool : Holders(p) # {} => Holders(p)' # {}
      BY <2>1, <3>2 DEF Holders
    <3>4. \A g \in Handler : doing[g] = "starting" => held'[g] = held[g]
      BY <1>3, <2>1, <3>2
    <3> QED BY <1>1, <1>2, <1>4, <1>5, <1>24, <3>1, <3>2, <3>3, <3>4, IdleStep DEF Global
  <2>3. CASE held[Static] = None
    <3>1. PICK p \in Unborn, t \in Spawnable :
            /\ held' = [held EXCEPT ![Static] = p, ![h] = p]
            /\ slot' = [slot EXCEPT ![p] = t]
            /\ sweeps' = [sweeps EXCEPT ![t] = p]
      BY <1>24, <2>3 DEF Global
    <3>2. Empty({}) = slot /\ Abort(Drop({})) = sweeps
      BY <1>1 DEF Empty, Abort, Drop, TaskInv, TaskType
    <3>3. /\ held' \in [Holder -> Pool \cup {None}] /\ held'[h] = p
          /\ \A g \in Holder : g \notin {h, Static} => held'[g] = held[g]
      BY <1>1, <1>3, <2>1, <3>1 DEF TaskInv, TaskType, Unborn
    <3>4. \A q \in Pool : Holders(q) # {} => Holders(q)' # {}
      BY <2>1, <2>3, <3>3 DEF Holders
    <3>5. \A g \in Handler : doing[g] = "starting" => held'[g] = held[g]
      BY <1>3, <2>1, <3>3
    <3>6. hand' = hand /\ SameStarts /\ OptionsType' /\ DoingType'
      BY <1>4, <1>5, <1>24 DEF Global
    <3>7. slot' = [Empty({}) EXCEPT ![p] = t] /\ sweeps' = [Abort(Drop({})) EXCEPT ![t] = p]
      BY <3>1, <3>2
    <3>8. TaskInv'
      BY <1>1, <1>3, <3>3, <3>4, <3>5, <3>6, <3>7, NewPoolKeeps
    <3> QED BY <1>2, <3>6, <3>8
  <2> QED BY <2>2, <2>3
<1>25. CASE UNCHANGED vars
  BY <1>2, <1>4, <1>6, <1>25 DEF vars
<1> QED
  BY <1>8, <1>9, <1>7, <1>10, <1>11, <1>12, <1>13, <1>14, <1>15, <1>16, <1>17, <1>18,
     <1>19, <1>20, <1>21, <1>22, <1>23, <1>24, <1>25 DEF Next, OwnerNext, HandlerNext

LEMMA Invariant == Spec => []IInv
<1>1. Init => IInv
  BY InvInit
<1>2. IInv /\ [Next]_vars => IInv'
  BY InvStep
<1> QED BY <1>1, <1>2, PTL DEF Spec

\* The Server, its connections and the application's tasks stay well typed: in
\* particular nobody's Arc points to options that were freed, and a pool that
\* nobody holds any more has no task.
THEOREM TypeCorrect == Spec => []TypeOK
<1>1. IInv => TypeOK
  BY DEF IInv
<1> QED BY <1>1, Invariant, PTL

\* A cleanup task that runs is always in the slot of a pool that somebody holds,
\* or in the hand of a start_cleanup_task that is about to store it.
THEOREM NoTaskIsLost == Spec => []SweepersOwned
<1>1. IInv => SweepersOwned
  <2> SUFFICES ASSUME IInv, NEW t \in Task, sweeps[t] # None
               PROVE  \/ \E p \in Pool : slot[p] = t /\ Holders(p) # {}
                      \/ \E h \in Handler : hand[h] = t /\ held[h] = sweeps[t]
    BY DEF SweepersOwned, Running
  <2> USE ServerAssumption DEF IInv, TaskInv
  <2>1. sweeps[t] \in Pool
    BY DEF TaskType
  <2>2. CASE slot[sweeps[t]] = t
    BY <2>1, <2>2 DEF SlotsHeld, Holders
  <2>3. CASE \E h \in Handler : hand[h] = t
    BY <2>3 DEF HandsFull
  <2> QED BY <2>2, <2>3 DEF TasksKept
<1> QED BY <1>1, Invariant, PTL

\* What cleanup_handle holds is a task that still sweeps that very pool.
THEOREM SlotsAreLive == Spec => []HandlesLive
<1>1. IInv => HandlesLive
  BY DEF IInv, TaskInv
<1> QED BY <1>1, Invariant, PTL

\* No step of the server or of another handler changes the options that a
\* connection was accepted with.
THEOREM OptionsAreKept == Spec => AcceptedKeepOptions
<1>1. IInv /\ [Next]_vars =>
        \A h \in Handler : {options[h], options'[h]} \subseteq Cell
            => value'[options'[h]] = value[options[h]]
  <2> SUFFICES ASSUME IInv, [Next]_vars, NEW h \in Handler, options[h] \in Cell
               PROVE  options'[h] \in Cell => value'[options'[h]] = value[options[h]]
    OBVIOUS
  <2> USE ServerAssumption
  <2>1. OptionsType /\ h \in Holder /\ h # Owner /\ options[h] # None
    BY DEF IInv, TypeOK, OptionsType, Holder
  <2>2. CASE UNCHANGED <<value, options>>
    BY <2>2
  <2>3. ASSUME NEW o, NEW c \in Cell, options[h] # c,
               value' = [value EXCEPT ![c] = o], options' = [options EXCEPT ![Owner] = c]
        PROVE  value'[options'[h]] = value[options[h]]
    BY <2>1, <2>3 DEF OptionsType
  <2>4. ASSUME NEW g \in Holder, value' = Freed(g),
               options' = [options EXCEPT ![g] = None]
        PROVE  options'[h] \in Cell => value'[options'[h]] = value[options[h]]
    BY <2>1, <2>4 DEF OptionsType, Freed, Sharers
  <2>5. ASSUME NEW o, WithOptions(o)
        PROVE  value'[options'[h]] = value[options[h]]
    BY <2>1, <2>3, <2>5, FreeIsNobodys DEF WithOptions
  <2>6. CASE New \/ WithConnectionPool
    BY <2>5, <2>6 DEF New, WithConnectionPool
  <2>7. CASE OptionsMut
    BY <2>1, <2>3, <2>7, EditableIsOwn DEF OptionsMut, Open
  <2>8. CASE DropServer
    BY <2>4, <2>8 DEF DropServer, Holder
  <2>9. ASSUME NEW g \in Handler, Accept(g)
        PROVE  value'[options'[h]] = value[options[h]]
    BY <2>1, <2>9 DEF Accept, OptionsType
  <2>10. ASSUME NEW g \in Handler, Served(g)
         PROVE  options'[h] \in Cell => value'[options'[h]] = value[options[h]]
    BY <2>4, <2>10 DEF Served, Holder
  <2>11. CASE EnableConnectionPool \/ DisableConnectionPool \/ Disabled
    BY <2>2, <2>11 DEF EnableConnectionPool, DisableConnectionPool, Disabled
  <2>12. ASSUME NEW g \in Handler,
                \/ ClonePool(g) \/ DropPool(g) \/ Spawn(g) \/ Store(g) \/ Shutdown(g)
                \/ InitGlobal(g) \/ SetGlobal(g) \/ Global(g)
         PROVE  UNCHANGED <<value, options>>
    BY <2>12 DEF ClonePool, DropPool, Spawn, Store, Shutdown, InitGlobal, SetGlobal, Global
  <2> QED
    BY <2>2, <2>5, <2>6, <2>7, <2>8, <2>9, <2>10, <2>11, <2>12
       DEF Next, OwnerNext, HandlerNext, vars
<1> QED BY <1>1, Invariant, PTL DEF Spec, AcceptedKeepOptions
=============================================================================
