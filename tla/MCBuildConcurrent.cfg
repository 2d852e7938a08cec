SPECIFICATION Spec
CONSTANTS
  s1 = s1
  s2 = s2
  d1 = d1
  d2 = d2
  b1 = b1
  b2 = b2
  None = None
  Server = {s1, s2}
  Dir = {d1, d2}
  DirOf <- MCOwnDirs
  Package <- MCTwoPackages
  Symbol = {1}
  Replaces <- MCTwoReplaces
  Baseline = {b1}
  StockMax <- MCOneBaseline
  LastCandidate = 4
  Payload = {x}
  MaxBuild = 2
  Occupiable = {3}
INVARIANTS
  TypeOK
  PlanStillFits
  RecordedHasFiles
PROPERTIES
  BuildsAreAtomic
\* A database whose numbers are used up builds nothing more.
CHECK_DEADLOCK FALSE
