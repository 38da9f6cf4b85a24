---------------------------- MODULE MCCallTurns ----------------------------
EXTENDS CallTurns, TLC
Symmetry == Permutations(Requests) \cup Permutations(Turns) \cup Permutations(Texts)
            \cup Permutations(Enders)
=============================================================================
