----------------------------- MODULE MCNotifier -----------------------------
EXTENDS Notifier

CONSTANTS p1, r1, r2

MCPart == [m \in 1..N |-> p1]
MCUnroutable == {2}
=============================================================================
