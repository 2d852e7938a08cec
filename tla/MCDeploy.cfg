SPECIFICATION Spec
CONSTANTS
  s1 = s1
  s2 = s2
  i1 = i1
  i2 = i2
  m = m
  sp = sp
  c = c
  f = f
  v = v
  pv = pv
  p = p
  r1 = r1
  r2 = r2
  None = None
  Server = {s1, s2}
  LastBuild = 4
  Resource = {i1, i2, m, sp, c, f, v, pv}
  KindOf <- MCKinds
  Package = {p}
  Replaces <- MCOnePackage
  Row = {r1, r2}
  Bundle <- MCBundles
  CacheMax = 2
  Editable = {i1, sp}
  Selectable = {1, 2}
INVARIANTS
  TypeOK
  ProvenanceIsExact
PROPERTIES
  AppliedWhole
  ForeignRowsSurvive
  ItemChangesAdvanceCache
  FixedRowsAreImmutable
  AppliesAreAtomic
SYMMETRY MCSymmetry
