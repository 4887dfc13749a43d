CONSTANTS
  Source <- TwoTables
  Absent = {"ghost"}
  Target = "postgres"
  EmittedName <- MappedNames
  RawName <- SameNames
  IndexName <- IndexNames
  SourceRows <- TwoRows
  Limit <- LimitSecond
  Identities = {"b"}
  PrimaryKeyed <- AllButFirst
  Modes = {"fail", "drop", "truncate"}
  Formats = {"copy", "insert"}
  Graphs <- AllGraphs
  Targets <- EmptyOrReloaded
SPECIFICATION Spec
INVARIANTS
  FaithfulReplay
  SupportedReplaysAreNeverRefused
PROPERTY ImplementsAtomicLoad
