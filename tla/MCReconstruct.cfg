SPECIFICATION Spec
CONSTANTS
  DataShards = 2
  ParityShards = 2
  SingularRows <- MCSingularRows
  Full = 2
  Short = 1
  Careful = TRUE
INVARIANTS
  TypeOK
  PresentAreCodeword
  OkMeansRecovered
  PathsAgree
PROPERTIES
  OnlyTargetsTouched
