------------------------------ MODULE MCServer ------------------------------
\* Symmetry for Server: its allocations and the application's tasks.
EXTENDS Server, TLC

Symmetry ==
    Permutations(Handler) \cup Permutations(Cell)
        \cup Permutations(Pool) \cup Permutations(Task)
=============================================================================
