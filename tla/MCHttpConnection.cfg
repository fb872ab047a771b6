SPECIFICATION Spec
CONSTANTS
  GzipMin = 2
  ChunkMin = 3
  MaxFile = 4
  UpstreamCodes = {200, 307}
  MaxCalls = 4
INVARIANTS
  TypeOK
  FramingExact
  OneHeaderFirst
  AnsweredBeforeNext
  ErrorsAnswered
PROPERTY
  SilentWhenFinished
CHECK_DEADLOCK FALSE
