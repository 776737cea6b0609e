SPECIFICATION FairSpec
CONSTANTS
  Clients = {c1}
  Timed = {c1}
  Handlers = {h1}
  BufCap = 1
  MaxMsgs = 3
PROPERTIES DroppedIsDisconnected
CHECK_DEADLOCK FALSE
