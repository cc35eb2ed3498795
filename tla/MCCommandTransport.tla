------------------------- MODULE MCCommandTransport -------------------------
EXTENDS CommandTransport

CONSTANTS c1, c2, c3, p1, p2

\* Two commands for one point and one for another.
MCPointOf == [c \in Commands |-> IF c = c3 THEN p2 ELSE p1]
=============================================================================
