SPECIFICATION FrameSpec
CONSTANTS
  Lengths <- MCLengths
  MaxPayload = 1048576
INVARIANT FramesDecoded
CHECK_DEADLOCK FALSE
