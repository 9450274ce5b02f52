SPECIFICATION Spec
CONSTANTS
  k1 = k1
  k2 = k2
  s1 = s1
  NoSignal = NoSignal
  Last = 3
  Kind <- PoisonKind
  Keys <- MCKeys
  Key <- PoisonKey
  Signals <- MCSignals
  Signal <- PoisonSignal
  Instrument <- OneInstrument
  MaxAttempts = 2
  Prefetch = 2
  RetryMax = 1
  MaxOpen = 2
  Verdicts = {"pass", "reject"}
  Shadow = FALSE
  SlowKeys = {}
  StartBurst = 1
  MaxFaults = 0
PROPERTIES
  OrdersSettle
