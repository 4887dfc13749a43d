CONSTANTS
  Statements <- PlainAndTable
  MaxEmitted = 4
SPECIFICATION Spec
INVARIANT ExecutesWholeStatements
PROPERTIES
  NothingFollowsAnError
  ImplementsOutputSink
