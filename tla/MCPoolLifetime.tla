--------------------------- MODULE MCPoolLifetime ---------------------------
\* Values for the constants of PoolLifetime in TLC's runs.
EXTENDS PoolLifetime

OneShard == [a \in Addr |-> 1]
=============================================================================
