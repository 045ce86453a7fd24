----------------------------- MODULE MCFileCache -----------------------------
\* Two small files, of which the cache may hold both, one that exceeds the total, and
\* one that is too large to be cached; any one of them can become of any size.
EXTENDS FileCache
CONSTANTS a, b, c, d
MCPath == {a, b, c, d}
MCInit == Init /\ \A p \in Path : disk[p].size = IF p = c THEN 5 ELSE IF p = d THEN 6 ELSE 1
MCSpec == MCInit /\ [][Next]_vars /\ \A t \in Thread : WF_vars(Run(t))
=============================================================================
