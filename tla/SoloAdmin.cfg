CONSTANTS
  w1 = w1
  w2 = w2
  u1 = u1
  u2 = u2
  None = None
  Blank = Blank
  Workers = {w1}
  Users = {u1, u2}
  Ops = {"admin", "mfa", "delete", "deluser", "adduser"}
  Names = {"n"}
  SessionName = "session"
  Externals = {Blank}
  Lifetimes = {2}
  Rotatables = {FALSE}
  MaxLifetime = 2
  SessionLifetime = 2
  MaxTime = 3
  MaxFresh = 3
  MaxAttest = 2
  MaxLost = 0
SPECIFICATION Spec
SYMMETRY Symmetric
INVARIANT AdminAnswerSound SessionAnswerSound DeletionNeverRefused
PROPERTY SessionReplacedWhenOver HandlersAtomic
