SPECIFICATION LoaderSpec
CHECK_DEADLOCK FALSE
CONSTANTS
  Trees <- MCTrees
  Transitions <- MCTransitions
  Histories <- MCHistories
  PoNames <- MCPoNames
  Contents <- MCContents
  Inputs <- MCInputs
  Translations <- MCTranslations
  ShortNames <- MCShortNames
  MaxRecords = 2
  MaxCuts = 1
  Skew = 2
  Later = 2
  RemovalBack = 1
  MoveBack = 1
  Margin = 1
  Back = 1
  Ahead = 3
INVARIANT LoaderTypeOK
INVARIANT ChangesRebuildTrees
INVARIANT SearchesMissOnlyTheSkew
INVARIANT VersionsAreLinked
INVARIANT AnswersAreOldest
PROPERTY WalkReturnsAll
