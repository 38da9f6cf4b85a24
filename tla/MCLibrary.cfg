CONSTANTS
  Requests = {r1, r2}
  Voices = {v1, v2}
  Chars = {c1}
  Assets = {a1, a2, a3}
  Keys = {k1, k2}
  MaxStarts = 6
  None = None
SPECIFICATION Spec
SYMMETRY Symmetry
CHECK_DEADLOCK FALSE
INVARIANTS DeletionIsExplained LossIsExplained
