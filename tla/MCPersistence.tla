---------------------------- MODULE MCPersistence ----------------------------
EXTENDS Persistence

CONSTANTS p1, r1, r2, t1, t2

MCPart == [m \in 1..N |-> p1]
MCTxn == [m \in 1..N |-> IF m = 3 THEN t2 ELSE t1]
MCUndecodable == {3}
=============================================================================
