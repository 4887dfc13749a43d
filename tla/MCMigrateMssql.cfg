CONSTANTS
  Source <- ThreeTables
  Absent = {"ghost"}
  Target = "mssql"
  EmittedName <- SameNames
  RawName <- SameNames
  IndexName <- IndexNames
  SourceRows <- NoIdentityRows
  Limit <- LimitSecond
  Identities = {"c"}
  PrimaryKeyed <- AllButFirst
  Modes = {"fail", "drop", "truncate"}
  Transactions = {TRUE, FALSE}
  Graphs <- GraphsOfTwo
  Targets <- AnyTargetOrIdentity
SPECIFICATION Spec
INVARIANTS
  FaithfulCopy
  SupportedLoadsAreNeverRefused
  EquivalentToReplay
