SPECIFICATION LiveSpec
CONSTANTS
  Nil = Nil
  Fibers = {f1, f2}
  HandshakeFirst = TRUE
  MaxRecords = 3
INVARIANTS
  NoLostReader
  SslPresent
  MessagesConserved
PROPERTIES
  HandshakeEnds
  ReadersServed
