SPECIFICATION Spec
CONSTANTS
  q1 = q1
  q2 = q2
  q3 = q3
  None = None
  Requests <- MCRequests
  MaxRevision = 4
  MaxPolls = 1
SYMMETRY MCSymmetry
CHECK_DEADLOCK FALSE
INVARIANTS MicObeysTheUser SettledCallAgrees
