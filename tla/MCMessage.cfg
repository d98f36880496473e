CONSTANTS
  Base = 16
  MaxMessages = 2
  Messages <- SomeMessages
  Frames <- OtherFrames
SPECIFICATION FairSpec
INVARIANT StreamFaithful
PROPERTY AllDelivered
CHECK_DEADLOCK FALSE
