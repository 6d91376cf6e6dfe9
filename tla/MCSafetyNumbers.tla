--------------------------- MODULE MCSafetyNumbers ---------------------------
\* Values of the constants of SafetyNumbers for TLC: two users, both ways.
EXTENDS SafetyNumbers

MCLinks == {<<"a", "b">>, <<"b", "a">>}
=============================================================================
