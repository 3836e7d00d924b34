SPECIFICATION FairSpec
CONSTANTS
  listener = listener
  feed = feed
  None = None
  Threads <- MCThreads
  Owner = listener
  BatchSize = 2
  MaxEmits = 2
  MaxFlushes = 1
  MaxLostAcks = 1
INVARIANTS
  TypeOK
  PendingMatchesBuffer
  NoLoss
  DropsOnlyAfterFailure
  DuplicatesNeedLostAck
  OrderedPersistence
  CrashLossBound
PROPERTIES
  TableFinalAfterClose
  ImplementsLog
  CallsReturn
  AcceptedSettles
