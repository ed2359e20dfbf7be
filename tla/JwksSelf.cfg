CONSTANTS
  p1 = p1
  p2 = p2
  a = a
  b = b
  Provider = Provider
  Procs = {p1}
  Keys = {a, b}
  Deployments = {{p1}}
  Lifetime = 2
  Timeout = 2
SPECIFICATION ServedSpec
PROPERTY Authenticates
