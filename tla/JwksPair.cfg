CONSTANTS
  p1 = p1
  p2 = p2
  a = a
  b = b
  Provider = Provider
  Procs = {p1, p2}
  Keys = {a, b}
  Deployments = {{Provider}, {p1, p2}}
  Lifetime = 2
  Timeout = 2
SPECIFICATION ServedSpec
INVARIANT TypeOK
PROPERTY TrustBounded Unblocked NewKeyTrusted Authenticates
