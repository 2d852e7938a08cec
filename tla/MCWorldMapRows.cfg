SPECIFICATION Spec
CONSTANTS
  s1 = s1
  s2 = s2
  None = None
  Server = {s1, s2}
  Package = {1, 2}
  Replaces <- MCReplaces
  Area = {1, 2}
  Row = {1, 2}
  StockRow <- MCStock
  Position = {0, 1}
  OtherLeases <- MCOtherLeases
  Historical <- MCHistorical
  Manifests <- MCManifests
  MaxBuild = 2
INVARIANTS
  TypeOK
  PlannedCommits
  RowsKeepMeaning
  BuildRowsAreLeased
  OwnedRowsRebuild
SYMMETRY MCSymmetry
\* A database whose numbers are used up builds nothing more.
CHECK_DEADLOCK FALSE
