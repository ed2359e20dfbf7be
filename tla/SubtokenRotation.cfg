CONSTANTS
  w1 = w1
  w2 = w2
  u1 = u1
  u2 = u2
  None = None
  Blank = Blank
  Workers = {w1}
  Users = {u1}
  Ops = {"admin", "mfa", "rotate", "attest"}
  Names = {"n"}
  SessionName = "session"
  Externals = {Blank}
  Lifetimes = {2}
  Rotatables = {FALSE, TRUE}
  MaxLifetime = 2
  SessionLifetime = 2
  MaxTime = 2
  MaxFresh = 3
  MaxAttest = 2
  MaxLost = 0
SPECIFICATION Spec
SYMMETRY Symmetric
INVARIANT CredentialReachable
