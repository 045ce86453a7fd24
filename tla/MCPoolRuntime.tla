---------------------------- MODULE MCPoolRuntime ----------------------------
\* Values for the constants of PoolRuntime in TLC's runs.
EXTENDS PoolRuntime

OneShard == [a \in Addr |-> 1]
=============================================================================
