CONSTANTS
  u1 = u1  u2 = u2  n1 = n1  n2 = n2  f1 = f1  f2 = f2  p1 = p1  p2 = p2
  goodPub = goodPub  badPub = badPub  i2 = i2  t = t
  None = None
  Users = {u1, u2}
  Ids = {i1, i2, i3}
  Conns = {c1, c2, c3}
  Names = {n1, n2}
  FileNames = {f1, f2}
  Contents = {p1, p2}
  PubKeys = {goodPub, badPub}
  ValidPubKeys = {goodPub}
  MaxKeys = 3
  MaxPackets = 2
  MaxTries = 1
  RogueRequests = {}
  NameOf <- MCNameOf
  FileOf <- MCFileOf
  ContentOf <- MCContentOf
  Basename <- MCBasename
  Traversal <- MCNoTraversal
  Checksum <- MCChecksum
SPECIFICATION Spec
CHECK_DEADLOCK FALSE
PROPERTY CrcNotOkSilent
