SPECIFICATION Spec
CONSTANTS
  k1 = k1
  k2 = k2
  s1 = s1
  NoSignal = NoSignal
  Last = 2
  Kind <- TwoOrders
  Keys <- MCKeys
  Key <- TwoKeys
  Signals <- MCSignals
  Signal <- OneSignal
  Instrument <- OneInstrument
  MaxAttempts = 2
  Prefetch = 2
  RetryMax = 2
  MaxOpen = 2
  Verdicts = {"pass"}
  Shadow = FALSE
  SlowKeys = {k2}
  StartBurst = 1
  MaxFaults = 1
INVARIANTS
  TypeOK
  AtMostOneFill
  TruthfulReport
  FillAccounted
PROPERTIES
  NeverSentOnceMarked
  NoSecondWhilePending
  ImplementsAtMostOnce
