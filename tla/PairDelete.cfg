CONSTANTS
  w1 = w1
  w2 = w2
  u1 = u1
  u2 = u2
  None = None
  Blank = Blank
  Workers = {w1, w2}
  Users = {u1}
  Ops = {"admin", "jwt", "mfa", "delete", "deluser", "adduser"}
  Names = {"n"}
  SessionName = "session"
  Externals = {Blank}
  Lifetimes = {2}
  Rotatables = {FALSE}
  MaxLifetime = 2
  SessionLifetime = 2
  MaxTime = 1
  MaxFresh = 2
  MaxAttest = 1
  MaxLost = 0
SPECIFICATION Spec
SYMMETRY Symmetric
INVARIANT TypeOK JwtDecidedOnParent OneSessionPerUser NothingLeftBehind
PROPERTY HandlersSerial
