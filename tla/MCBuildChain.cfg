SPECIFICATION Spec
CONSTANTS
  s1 = s1
  s2 = s2
  d1 = d1
  d2 = d2
  b1 = b1
  b2 = b2
  None = None
  Server = {s1, s2}
  Dir = {d1}
  DirOf <- MCSharedDir
  Package <- MCTwoPackages
  Symbol = {1}
  Replaces <- MCTwoReplaces
  Baseline = {b1, b2}
  StockMax <- MCTwoBaselines
  LastCandidate = 4
  Payload = {x}
  MaxBuild = 3
  Occupiable = {}
INVARIANTS
  BuildsStayBacked
  SuccessIsBacked
PROPERTIES
  LeasesEndure
  BuildsClearOfStock
\* A database whose numbers are used up builds nothing more.
CHECK_DEADLOCK FALSE
