SPECIFICATION Spec
CONSTANTS
  GzipMin = 2
  ChunkMin = 3
  MaxFile = 7
  UpstreamCodes = {200}
  Piece = 2
  MaxPost = 5
  MaxOut = 7
INVARIANTS
  RequestInOrder
  NothingCut
  MethodCovers
CHECK_DEADLOCK FALSE
