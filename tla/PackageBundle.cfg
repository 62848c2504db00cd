CONSTANTS
  Versions <- MCVersions
  Manifests <- MCManifests
  Sizes = {0, 1}
  ImageSize = 1
  Optional <- MCOptional
  Assets <- MCAssets
  MaxRuns = 2
  MaxEdits = 2
SPECIFICATION Spec
INVARIANTS
  TypeOK
  IdentifiersAgree
  CompleteIfEnded
  ScratchRemoved
PROPERTIES
  BundlesKeptUntilSaved
CHECK_DEADLOCK FALSE
