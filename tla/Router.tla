------------------------------- MODULE Router -------------------------------
(***************************************************************************)
(* Router and ScopeBuilder: a program registers its routes, in scopes that *)
(* nest, and requests are dispatched by method and path.  A path is a      *)
(* sequence of segments.  The trie of the matchit crate is external: when  *)
(* it refuses a pattern, and which one it finds for a path.                *)
(***************************************************************************)
EXTENDS Naturals, SequencesExt

CONSTANTS
    Method,
    Pattern,            \* what routes are registered with, relative to their scope
    Prefix,             \* of scopes
    Target,             \* paths of requests
    Parameter, CatchAll,  \* the segments {id} and {*path} of a pattern
    MaxRoutes, MaxDepth \* bounds: routes of a program, scopes around one of them

\* "end" is what Segment has behind the last segment of a path.
ASSUME RouterAssumption ==
    /\ Pattern \cup Prefix \subseteq Seq(STRING \ {"end"})
    /\ Target \subseteq Seq(STRING)
    /\ {Parameter, CatchAll} \subseteq STRING \ {"end"} /\ Parameter # CatchAll
    /\ {MaxRoutes, MaxDepth} \subseteq Nat

VARIABLES
    trees,      \* the Router: methods in the order of their first route
    scopes,     \* the ScopeBuilders whose closures are running, innermost last
    panicked,   \* an expect has failed, and the Router is gone
    written     \* the routes as the program's text has them

routerVars == <<trees, scopes, panicked, written>>

NoRoute == 0        \* values are numbers of routes, in the order of the text

(***************************************************************************)
(* matchit.                                                                *)
(***************************************************************************)

Segment(path, i) == IF i \in DOMAIN path THEN path[i] ELSE "end"

\* The first segment in which two patterns differ, or the end of both.
Fork(p, q) ==
    CHOOSE i \in 1..(Len(p) + Len(q) + 1) :
        /\ Segment(p, i) # Segment(q, i) \/ p = q
        /\ \A j \in 1..(i - 1) : Segment(p, j) = Segment(q, j) /\ p # q

Conflict(p, q) == p = q \/ {Segment(p, Fork(p, q)), Segment(q, Fork(p, q))} = {Parameter, CatchAll}

Insertable(routes, p) ==
    /\ \A i \in DOMAIN p : p[i] = CatchAll => i = Len(p)
    /\ \A r \in routes : ~Conflict(r.path, p)

Matches(p, target) ==
    /\ \A i \in DOMAIN p :
        /\ i <= Len(target)
        /\ p[i] \notin {Parameter, CatchAll} => p[i] = target[i]
        /\ p[i] = Parameter => target[i] # ""
        /\ p[i] = CatchAll => SubSeq(target, i, Len(target)) # <<"">>
    /\ Len(p) = Len(target) \/ (p # <<>> /\ Last(p) = CatchAll)

Rank(segment) == IF segment = CatchAll THEN 3 ELSE IF segment = Parameter THEN 2 ELSE 1

\* Static segments come before parameters, and those before a catch-all.
Preferred(p, q) == p = q \/ Rank(Segment(p, Fork(p, q))) < Rank(Segment(q, Fork(p, q)))

Best(routes, target) ==
    LET Found == {r \in routes : Matches(r.path, target)}
    IN  IF Found = {} THEN NoRoute
        ELSE (CHOOSE r \in Found : \A s \in Found : Preferred(r.path, s.path)).value

(***************************************************************************)
(* The Router.                                                             *)
(***************************************************************************)

\* Mutant: the tree found is any method's.
AnyTree(router, m) == DOMAIN router

TreesOf(router, m) == {i \in DOMAIN router : router[i].method = m}

FirstTree(router, m) == CHOOSE i \in TreesOf(router, m) : \A j \in TreesOf(router, m) : i <= j

RoutesOf(router, m) ==
    IF TreesOf(router, m) = {} THEN {} ELSE router[FirstTree(router, m)].routes

Find(router, m, target) == Best(RoutesOf(router, m), target)

\* insert; a tree that is new is kept only if its first pattern is accepted.
Accepts(router, e) == Insertable(RoutesOf(router, e.method), e.path)

Inserted(router, e) ==
    LET route == [path |-> e.path, value |-> e.value]
    IN  IF TreesOf(router, e.method) = {}
        THEN Append(router, [method |-> e.method, routes |-> {route}])
        ELSE [router EXCEPT ![FirstTree(router, e.method)].routes = @ \cup {route}]

\* expect, in the methods that consume the Router.
Panic == [routes |-> <<>>, failed |-> TRUE]
Expected(result, e) ==
    IF result.failed \/ ~Accepts(result.routes, e) THEN Panic
    ELSE [result EXCEPT !.routes = Inserted(@, e)]

(***************************************************************************)
(* The program.                                                            *)
(***************************************************************************)

RouterInit == trees = <<>> /\ scopes = <<>> /\ panicked = FALSE /\ written = <<>>

NextValue == Len(written) + 1
Building == ~panicked /\ Len(written) < MaxRoutes

Entry(m, path) == [method |-> m, path |-> path, value |-> NextValue]
AsWritten(m, p) == Entry(m, FlattenSeq([i \in DOMAIN scopes |-> scopes[i].own]) \o p)

Become(result) == trees' = result.routes /\ panicked' = result.failed

\* Router::insert, whose error the program may handle.
Insert(m, p) ==
    /\ Building /\ scopes = <<>> /\ Accepts(trees, Entry(m, p))
    /\ trees' = Inserted(trees, Entry(m, p))
    /\ written' = Append(written, AsWritten(m, p))
    /\ UNCHANGED <<scopes, panicked>>

\* Router::route, get, post, put, delete, patch, head and options.
Route(m, p) ==
    /\ Building /\ scopes = <<>>
    /\ Become(Expected([routes |-> trees, failed |-> FALSE], Entry(m, p)))
    /\ written' = Append(written, AsWritten(m, p))
    /\ UNCHANGED scopes

\* Mutant: a nested scope starts from its own prefix.
OwnPrefix(prefix) == prefix

Inner(prefix) == (IF scopes = <<>> THEN <<>> ELSE Last(scopes).prefix) \o prefix

\* scope, of the Router or of a ScopeBuilder, up to its closure ...
OpenScope(prefix) ==
    /\ Building /\ Len(scopes) < MaxDepth
    /\ scopes' = Append(scopes, [own |-> prefix, prefix |-> Inner(prefix), entries |-> <<>>])
    /\ UNCHANGED <<trees, panicked, written>>

\* ... in which routes are only noted down ...
Push(m, p) ==
    /\ Building /\ scopes # <<>>
    /\ scopes' = [scopes EXCEPT ![Len(scopes)].entries =
                    Append(@, Entry(m, Last(scopes).prefix \o p))]
    /\ written' = Append(written, AsWritten(m, p))
    /\ UNCHANGED <<trees, panicked>>

\* ... and from its end: the entries go to the scope around it, or to the Router.
CloseNested ==
    /\ ~panicked /\ Len(scopes) > 1
    /\ scopes' = [Front(scopes) EXCEPT ![Len(scopes) - 1].entries = @ \o Last(scopes).entries]
    /\ UNCHANGED <<trees, panicked, written>>

CloseScope ==
    /\ ~panicked /\ Len(scopes) = 1
    /\ Become(FoldLeft(Expected, [routes |-> trees, failed |-> FALSE], scopes[1].entries))
    /\ scopes' = <<>>
    /\ UNCHANGED written

RouterNext ==
    \/ \E m \in Method, p \in Pattern : Insert(m, p) \/ Route(m, p) \/ Push(m, p)
    \/ \E prefix \in Prefix : OpenScope(prefix)
    \/ CloseNested \/ CloseScope

-----------------------------------------------------------------------------

Built == scopes = <<>>

WrittenFor(m) == {w \in ToSet(written) : w.method = m}

\* Two routes of a method exclude each other, or one is no pattern.
Excluded ==
    \E m \in Method : \E w \in WrittenFor(m) :
        ~Insertable({v \in WrittenFor(m) : v.value < w.value}, w.path)

\* A request goes to the route that the program's text has for its method and path,
\* with the prefixes of all scopes around it, and the program panics just when two
\* of the text's routes for a method exclude each other, or one is no pattern.
DispatchesAsWritten ==
    Built => /\ panicked <=> Excluded
             /\ ~panicked => \A m \in Method, target \in Target :
                                Find(trees, m, target) = Best(WrittenFor(m), target)
=============================================================================
