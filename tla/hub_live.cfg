SPECIFICATION FairSpec
CONSTANTS
  Clients = {c1}
  Timed = {c1}
  Handlers = {h1, h2}
  BufCap = 1
  MaxMsgs = 3
PROPERTIES BroadcastersProceed ConnectionsAreReclaimed DroppedUnlessStalled AcceptedIsWritten
CHECK_DEADLOCK FALSE
