CONSTANTS
  c1 = c1  c2 = c2
  None = None
  InvalidCode = 700
  Conns = {c1, c2}
  Script <- MCScriptInvalid
  SplitFields = {"header", "content"}
  CloseMidMessage = TRUE
  PeersFinish = TRUE
SPECIFICATION Spec
INVARIANT StreamTypeOK
PROPERTY RequestsRead
CHECK_DEADLOCK FALSE
