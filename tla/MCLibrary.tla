----------------------------- MODULE MCLibrary -----------------------------
(* Small library for TLC: the identities of each kind are interchangeable. *)
EXTENDS Library, TLC

Symmetry ==
  Permutations(Requests) \cup Permutations(Voices) \cup Permutations(Chars)
    \cup Permutations(Assets) \cup Permutations(Keys)

=============================================================================
