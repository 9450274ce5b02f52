SPECIFICATION Spec
CONSTANTS
  k1 = k1
  k2 = k2
  s1 = s1
  NoSignal = NoSignal
  Last = 2
  Kind <- TwoOrders
  Keys <- MCKeys
  Key <- TwoKeys
  Signals <- MCSignals
  Signal <- OneSignal
  Instrument <- OneInstrument
  MaxAttempts = 2
  Prefetch = 2
  RetryMax = 2
  MaxOpen = 2
  Verdicts = {"pass"}
  Shadow = FALSE
  SlowKeys = {}
  StartBurst = 2
  MaxFaults = 0
INVARIANTS
  ParkedNotLost
