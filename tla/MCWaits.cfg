SPECIFICATION WaitsSpec
CONSTANTS
  Senders = {s1, s2}
  Server = server
  Size = 2
  ReqLens = {3}
  RespLens = {2}
  MaxMsgs = 3
  MaxInits = 2
  Enclaves = {e1}
  Linux = Linux
  Sizes = {"2MB", "odd"}
  Relaunch = FALSE
INVARIANTS LcallInv
PROPERTIES XbufSpec SendReturns TrampolineFree
CHECK_DEADLOCK FALSE
