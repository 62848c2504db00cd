CONSTANTS
  Keys <- MCKeys
  Texts <- MCTexts
  Numerals <- MCNumerals
  Parses <- MCParses
  Manifests <- MCManifests
  Authored <- MCAuthored
  MaxRuns = 2
SPECIFICATION Spec
INVARIANTS
  TypeOK
  AnswersReachTheirFields
  PinnedFixtureReproduces
  MethodDeclarationsWin
  AuthorsPartsSurvive
  EchoRestored
PROPERTIES
  UnattendedRunEnds
CHECK_DEADLOCK FALSE
