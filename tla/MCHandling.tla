----------------------------- MODULE MCHandling -----------------------------
\* Values for the constants of Handling in TLC's runs.
EXTENDS Handling

Paths    == {<<"a">>, <<Parameter>>, <<"a", CatchAll>>, <<"">>}
Scopes   == {<<"a">>, <<"b">>}
Targets  == {<<"">>, <<"a">>, <<"b">>, <<"a", "">>, <<"a", "b">>, <<"b", "a">>, <<"a", "b", "a">>}
Contents == {<<>>, <<NotUtf8, CR>>, <<CR, LF, CR, LF>>, <<Dash, Dash, Byte, Dash>>}
Boundaries == {<<Dash, Dash>>, <<Byte, Dash, Dash>>}
=============================================================================
