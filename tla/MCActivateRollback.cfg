SPECIFICATION Spec
CONSTANTS
  s1 = s1
  s2 = s2
  i = i
  m = m
  p = p
  q = q
  r1 = r1
  r2 = r2
  None = None
  Server = {s1}
  LastBuild = 2
  Resource = {m}
  KindOf <- MCManaged
  Package = {p, q}
  Replaces <- MCNoReplacement
  Row = {r1, r2}
  Bundle <- MCManagedTwice
  CacheMax = 2
  Tamperable = {}
  Editable = {}
  HandRow = {}
INVARIANTS
  SupersededCanReturn
CHECK_DEADLOCK FALSE
