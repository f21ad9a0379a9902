--------------------------- MODULE MCBoardClaims ---------------------------
EXTENDS BoardClaims
CONSTANTS t1, q1, q2
=============================================================================
