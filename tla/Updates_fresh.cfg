SPECIFICATION ULiveSpec
CONSTANTS
  Releases = 2
  Interval = 4
  CycleTime = 2
  FetchTimeout = 1
INVARIANTS
  TypeOK
  FreshEnough
  NodeTypeOK
PROPERTIES
  ReleaseOffered
  ShownIsTrue
  SettlesUndisturbed
