CONSTANTS
  Home = "s"
  Catalogues <- SmallCatalogues
  Alterations <- SmallAlterations
  Rules <- SmallRules
  Views <- SmallViews
  MaxAlterations = 0
SPECIFICATION Spec
INVARIANT ForeignKeysAreParallel
