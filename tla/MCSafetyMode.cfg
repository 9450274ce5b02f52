SPECIFICATION Spec
CONSTANTS
  Limit = 4
  Hysteresis = 1
  MaxAge = 2
  MaxLife = 5
  Undated = TRUE
  BypassEnabled = TRUE
  Duration = 3
  Skew = 1
  MaxLag = 2
  MaxQueued = 1
INVARIANTS
  TypeOK
  BypassBounded
PROPERTIES
  RunningOnEvidence
  NoFlapping
  DarkPauses
  FreshResumes
