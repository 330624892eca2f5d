SPECIFICATION FairSpec
CONSTANTS
  c1 = c1
  c2 = c2
  ch1 = ch1
  ch2 = ch2
  Client = {c1, c2}
  Channel = {ch1, ch2}
  Interest <- MCInterest
  FANOUT_CALLBACK_TIMEOUT = 1
  MaxMessages = 2
  MaxErrors = 1
INVARIANTS
  InOrder
  NothingIsDropped
  AtMostOneLate
  FanoutIsBounded
PROPERTIES
  OwedIsWritten
CHECK_DEADLOCK FALSE
