------------------------------ MODULE Handling ------------------------------
(***************************************************************************)
(* What a handler relies on, composed: the program registers its routes,   *)
(* and once its Router is built a client sends a form.                     *)
(***************************************************************************)
EXTENDS Router, Forms

CONSTANT MaxServed      \* bound: the routes of a program that is sent a form

vars == <<trees, scopes, panicked, written, boundary, parts>>

Init == RouterInit /\ FormInit

Register == boundary = <<>> /\ RouterNext /\ UNCHANGED formVars

Send ==
    /\ Built /\ ~panicked /\ Len(written) <= MaxServed
    /\ ChooseBoundary \/ AddPart
    /\ UNCHANGED routerVars

Next == Register \/ Send

Spec == Init /\ [][Next]_vars
=============================================================================
