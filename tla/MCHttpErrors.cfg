SPECIFICATION Spec
CONSTANTS
  GzipMin = 2
  ChunkMin = 3
  MaxFile = 1
  UpstreamCodes = {200}
  MaxCalls = 2
INVARIANT RuntimeErrorsGet500
CHECK_DEADLOCK FALSE
