CONSTANTS
  c1 = c1  c2 = c2
  None = None
  InvalidCode = 700
  Conns = {c1, c2}
  Script <- MCScriptBenign
  SplitFields = {"content"}
  CloseMidMessage = FALSE
  PeersFinish = TRUE
SPECIFICATION Spec
INVARIANT Framing
CHECK_DEADLOCK FALSE
