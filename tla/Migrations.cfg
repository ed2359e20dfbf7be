CONSTANTS
  c1 = c1
  c2 = c2
  s = s
  t = t
  n = n
  m = m
  i = i
  j = j
  None = None
  Commands = {c1, c2}
  Servers = {s, t}
  Names = {n, m}
  Ids = {i, j}
  Targets = {0, 3, 4, 5, 7, 8, 9, 10}
SPECIFICATION Spec
SYMMETRY Symmetric
INVARIANT TypeOK VersionTold Synced UpgradeAccepted RowsApart
PROPERTY TokensKept
