--------------------------- MODULE MCRequestReader ---------------------------
\* Values for the constants of RequestReader in TLC's runs.
EXTENDS RequestReader

\* determine_next_read_size, which grows with what there is already.
Growing == [n \in 0..(MaxHeader - 1) |-> IF n <= 2 THEN 1 ELSE 2]
=============================================================================
