SPECIFICATION Spec
CONSTANTS
  s1 = s1
  s2 = s2
  i1 = i1
  i2 = i2
  m = m
  sp = sp
  c = c
  f = f
  v = v
  pv = pv
  p = p
  r1 = r1
  r2 = r2
  None = None
  Server = {s1}
  LastBuild = 2
  Resource = {i1, i2, m, sp, c, f, v, pv}
  KindOf <- MCKinds
  Package = {p}
  Replaces <- MCOnePackage
  Row = {r1, r2}
  Bundle <- MCRepeated
  CacheMax = 2
  Editable = {}
  Selectable = {}
INVARIANTS
  RederivedContentApplies
CHECK_DEADLOCK FALSE
