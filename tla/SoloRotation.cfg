CONSTANTS
  w1 = w1
  w2 = w2
  u1 = u1
  u2 = u2
  None = None
  Blank = Blank
  Workers = {w1}
  Users = {u1}
  Ops = {"create", "rotate", "attest", "delete"}
  Names = {"n", "m"}
  SessionName = "session"
  Externals = {Blank}
  Lifetimes = {0, 2}
  Rotatables = {FALSE, TRUE}
  MaxLifetime = 2
  SessionLifetime = 2
  MaxTime = 3
  MaxFresh = 3
  MaxAttest = 2
  MaxLost = 1
SPECIFICATION Spec
SYMMETRY Symmetric
INVARIANT OneRotationPerAttestation RotationAnswerSound
PROPERTY AttestationSticks HandlersAtomic
