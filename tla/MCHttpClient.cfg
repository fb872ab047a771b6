SPECIFICATION ClientSpec
CONSTANT MaxRequests = 3
INVARIANTS
  OwnResponse
  NothingOutstanding
CHECK_DEADLOCK FALSE
