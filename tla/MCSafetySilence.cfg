SPECIFICATION Spec
CONSTANTS
  Limit = 4
  Hysteresis = 1
  MaxAge = 2
  MaxLife = 0
  Undated = FALSE
  BypassEnabled = FALSE
  Duration = 3
  Skew = 0
  MaxLag = 2
  MaxQueued = 1
PROPERTIES
  SilenceMeansPaused
