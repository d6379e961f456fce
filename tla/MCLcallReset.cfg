SPECIFICATION LFairSpec
PROPERTY ResetProceeds
CONSTANTS
  Senders = {s1, s2}
  Server = server
  Size = 2
  ReqLens = {3}
  RespLens = {2}
  MaxMsgs = 3
  MaxInits = 2
CHECK_DEADLOCK FALSE
