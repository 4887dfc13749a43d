CONSTANTS
  Columns <- ThreeColumns
  Missing = {"filtered"}
  Types = {"integer", "numeric", "text"}
SPECIFICATION FairAlignSpec
INVARIANTS
  AlignTypeOK
  PlainKeysAreReferable
  CompatibleSourcesKeepTheirTypes
PROPERTY AlignmentEnds
