SPECIFICATION Spec
CONSTANTS
  Nil = Nil
  Fibers = {f1, f2}
  HandshakeFirst = FALSE
  MaxRecords = 1
INVARIANT
  NoLostReader
