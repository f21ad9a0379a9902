----------------------------- MODULE MCGateSlot -----------------------------
EXTENDS GateSlot
CONSTANTS c1, u1, u2, j1
=============================================================================
