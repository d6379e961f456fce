SPECIFICATION Spec
CONSTANTS
  Senders = {s1, s2}
  Server = server
  Size = 2
  ReqLens = {1, 3}
  RespLens = {0, 3}
  MaxMsgs = 3
  MaxInits = 2
SYMMETRY Symmetry
INVARIANTS OneOwner ChannelInv RequestIntact ResponseIntact SleeperHasWaker
PROPERTIES NoOverwrite RpcSpec
CHECK_DEADLOCK FALSE
