SPECIFICATION QuerySpec
CONSTANTS
  Keys <- MCKeys
  Order = 3
  Columns <- MCColumns
  Indexes <- MCIndexes
  RunLength = 2
  Statements <- MCStatements
  Changes <- MCChanges
  Others <- MCOthers
INVARIANTS
  TreeTypeInvariant
  LookupsAreExact
  LeafListIsInOrder
  ScansAreExact
  AnswersAreExact
  AnswersAreSound
  AcceptedStatementsRun
  ChangesAreExact
