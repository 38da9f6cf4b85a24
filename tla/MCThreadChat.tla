---------------------------- MODULE MCThreadChat ----------------------------
EXTENDS ThreadChat, TLC

NoGreeting == {Opening}
Symmetry == Permutations(Sends) \cup Permutations(Generations) \cup Permutations(Editors)
=============================================================================
