CONSTANTS
  MaxBytes = 3
  Sizes = {0, 1, 2, 4}
  MaxChunks = 5
SPECIFICATION Spec
INVARIANTS
  TypeOK
  PartsConcatenateToTheDump
  CutsAtBoundaries
  LimitAtBoundaries
PROPERTY ImplementsOutputSink
