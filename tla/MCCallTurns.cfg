SPECIFICATION FairSpec
CONSTANTS
  Turns = {t1}
  Requests = {r1, r2}
  Texts = {x1}
  Enders = {e1, e2}
  Interrupters = {i1}
  None = None
CHECK_DEADLOCK FALSE
INVARIANTS WorkerHoldsTurn RecordsAgree
PROPERTIES TerminalIsFinal HangupIsFinal CallersReturn
