------------------------------ MODULE MCGateway ------------------------------
EXTENDS Gateway
CONSTANTS q1, q2
MCRequests == {q1, q2}
=============================================================================
