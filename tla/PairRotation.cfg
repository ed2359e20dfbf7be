CONSTANTS
  w1 = w1
  w2 = w2
  u1 = u1
  u2 = u2
  None = None
  Blank = Blank
  Workers = {w1, w2}
  Users = {u1}
  Ops = {"create", "rotate", "attest", "delete"}
  Names = {"n"}
  SessionName = "session"
  Externals = {Blank}
  Lifetimes = {2}
  Rotatables = {FALSE, TRUE}
  MaxLifetime = 2
  SessionLifetime = 2
  MaxTime = 2
  MaxFresh = 3
  MaxAttest = 1
  MaxLost = 1
SPECIFICATION Spec
SYMMETRY Symmetric
INVARIANT TopLevelReachable RotationsBounded
PROPERTY RevocationIsFinal
