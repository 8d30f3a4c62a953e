------------------------------ MODULE MCGateway ------------------------------
EXTENDS Gateway

CONSTANTS c1, c2, c3, k1, g1, g2

MCKeyOf == [c \in Calls |-> k1]
MCGatewayOf == [c \in Calls |-> IF c = c3 THEN g2 ELSE g1]
=============================================================================
