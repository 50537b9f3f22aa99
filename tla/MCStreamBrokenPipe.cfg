CONSTANTS
  c1 = c1  c2 = c2
  None = None
  InvalidCode = 700
  Conns = {c1, c2}
  Script <- MCScriptBenign
  SplitFields = {}
  CloseMidMessage = FALSE
  PeersFinish = TRUE
SPECIFICATION Spec
INVARIANT ServerSurvives
CHECK_DEADLOCK FALSE
