CONSTANTS
  Home = "s"
  Catalogues <- SmallCatalogues
  Alterations <- SmallAlterations
  Rules <- SmallRules
  Views <- SmallViews
  MaxAlterations = 1
SPECIFICATION Spec
INVARIANTS
  TypeOK
  ForeignKeysHaveTheirColumns
  FaithfulMetadata
  EveryTableHasOneSource
