SPECIFICATION Spec
CONSTANTS
  MaxTxns = 4
  PageSize = 1
  MaxScan = 3
  FlattenOnStop = TRUE
  TimeExits = TRUE
  MaxActivity = 5
  MaxUpsets = 1
INVARIANTS
  TypeOK
  TruthfulClose
  OneEventPerClose
  SilenceAccounted
  DurableFirst
  IdentityKept
PROPERTIES
  ImplementsCloseJournal
  ClosesReachSystem3
