--------------------------- MODULE MCCallControl ---------------------------
EXTENDS CallControl, TLC
CONSTANTS q1, q2, q3
MCRequests == {q1, q2}
MCSymmetry == Permutations(Requests)
=============================================================================
