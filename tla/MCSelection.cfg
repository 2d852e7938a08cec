SPECIFICATION Spec
CONSTANTS
  s1 = s1
  s2 = s2
  None = None
  Server = {s1, s2}
  Runs <- MCRuns
  Path = {1, 2}
  Key = {1, 2}
  Version = {1, 2}
  Target = {1, 2, 3}
  File = {1, 2, 3, 8, 9, 11, 12}
  Stock <- MCStock
  Marker = Marker
  Toc = 8
  Module = 9
  Floor = {1}
  Name = {1}
  Spells <- MCSpells
  LastSlot = 2
  Language = {0, 2}
  StockRows <- MCStockRows
  StockStrings <- MCStockStrings
  BlockLimit = 20
  MapTable = {"DungeonMap"}
  Rows <- MCRows
  Declares <- MCDeclares
  Epf <- MCEpf
  Shipped <- MCShipped
  MaxBuild = 2
  MaxDeploys = 1
INVARIANTS
  TypeOK
  TargetsHaveOneOwner
  SurveyMissesNothing
PROPERTIES
  TocLoads
  SpellsRead
  SidecarsVerify
  BuildsAreSelections
