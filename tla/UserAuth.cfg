CONSTANTS
  p = p
  c1 = c1
  c2 = c2
  alice = alice
  admin = admin
  A = A
  B = B
  None = None
  Procs = {p}
  Users = {alice}
  Clients = {c1, c2}
  Deployments <- Small
  MaxFaults = 2
SPECIFICATION FairSpec
INVARIANT TypeOK OnePrincipalPerUid NextHonoured
PROPERTY KeytabPickedUp OthersServed LoginEnds
