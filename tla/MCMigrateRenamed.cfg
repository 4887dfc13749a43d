CONSTANTS
  Source <- TwoTables
  Absent = {}
  Target = "postgres"
  EmittedName <- MappedNames
  RawName <- SameNames
  IndexName <- IndexNames
  SourceRows <- TwoRows
  Limit <- NoLimit
  Identities = {}
  PrimaryKeyed <- AllPrimaryKeyed
  Modes = {"fail"}
  Transactions = {TRUE}
  Graphs <- AllGraphs
  Targets <- EmptyOrReloaded
SPECIFICATION Spec
INVARIANT EquivalentToReplay
