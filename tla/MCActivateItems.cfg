SPECIFICATION CapabilitySpec
CONSTANTS
  s1 = s1
  s2 = s2
  i = i
  p = p
  r1 = r1
  r2 = r2
  None = None
  Server = {s1, s2}
  LastBuild = 2
  Resource = {i}
  KindOf <- MCItem
  Package = {p}
  Replaces <- MCNoReplacement
  Row = {r1, r2}
  Bundle <- MCItemThenUpdate
  CacheMax = 2
  Tamperable = {1}
  Editable = {i}
  HandRow = {None}
INVARIANTS
  TypeOK
  ActiveIsDeployed
PROPERTIES
  AnswersAreReleased
  CommandsEnd
  ActivationIsRelease
