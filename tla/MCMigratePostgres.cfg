CONSTANTS
  Source <- ThreeTables
  Absent = {}
  Target = "postgres"
  EmittedName <- SameNames
  RawName <- SameNames
  IndexName <- IndexNames
  SourceRows <- TwoRows
  Limit <- NoLimit
  Identities = {"a"}
  PrimaryKeyed <- AllPrimaryKeyed
  Modes = {"fail", "drop", "truncate"}
  Transactions = {TRUE}
  Graphs <- AllGraphs
  Targets <- EmptyOrReloaded
SPECIFICATION Spec
INVARIANTS
  TypeOK
  FaithfulCopy
  SupportedLoadsAreNeverRefused
  AllOrNothing
PROPERTY ImplementsAtomicLoad
