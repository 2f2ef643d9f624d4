--------------------------- MODULE MCTearoutMove ---------------------------
EXTENDS TearoutMove
=============================================================================
