\* Two connections that share two backends, and a third one later.
SPECIFICATION Spec
CONSTANTS
  GzipMin = 1
  ChunkMin = 1
  MaxFile = 1
  UpstreamCodes = {200}
  Fibers <- MCFibers
  Plain = {"c1"}
  Service <- MCService
  Stack <- MCStack
  Requests <- MCRequests
  Tree <- MCTree
  Defaults <- MCDefaults
  Scripts = {"script"}
  Backends <- MCBackends
  Spares <- MCSpares
  MaxRequests <- MCMaxRequests
  MaxCalls = 4
INVARIANTS
  RoundRobin
  FinishedIsFinal
PROPERTY Implements
CHECK_DEADLOCK FALSE
