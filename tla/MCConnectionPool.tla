-------------------------- MODULE MCConnectionPool --------------------------
\* Values for the constants of ConnectionPool in TLC's runs.
EXTENDS ConnectionPool, TLC

OneShard == [a \in Addr |-> 1]

\* Tasks, deques and connections are interchangeable.
Symmetry ==
    Permutations(User) \cup Permutations(Clearer)
        \cup Permutations(PoolId) \cup Permutations(StreamId)
=============================================================================
