SPECIFICATION Spec
CONSTANTS
  MaxVerb = 2
  MaxKey = 1
  MaxSize = 45
  Requests <- MCRequests
  Responses <- MCResponses
  MaxMessages = 2
  MaxWidth = 4
INVARIANTS
  MessagesAsSent
  RejectsOnlyMalformed
  NothingLeftWaiting
CHECK_DEADLOCK FALSE
