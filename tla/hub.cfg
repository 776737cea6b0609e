SPECIFICATION Spec
CONSTANTS
  Clients = {c1, c2}
  Timed = {c1}
  Handlers = {h1}
  BufCap = 1
  MaxMsgs = 2
INVARIANTS TypeOK DoneExactlyWhenRemoved InOrderNoGap NothingMissed
PROPERTIES ImplementsPubSub
CHECK_DEADLOCK FALSE
