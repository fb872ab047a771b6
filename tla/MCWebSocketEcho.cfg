SPECIFICATION LiveEchoSpec
CONSTANTS
  MaxFrames = 4
  MaxAhead = 1
  Senders = {a}
  Page = 4
INVARIANTS
  MessagesWhole
  PeerInflates
  EchoesOnce
  NullOnlyAfterEmpty
PROPERTY PollReturns
CHECK_DEADLOCK FALSE
