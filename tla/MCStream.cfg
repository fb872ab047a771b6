SPECIFICATION LiveSpec
CONSTANTS
  Nil = Nil
  Fibers = {f1, f2}
  MaxSent = 3
INVARIANTS
  TypeOK
  NoLostReader
  CallbacksHaveReader
  RequestsMatchWaiters
PROPERTIES
  ImplementsChannel
  TimedReadsReturn
  ReadersWake
