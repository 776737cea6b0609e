SPECIFICATION PagingSpec
CONSTANTS
  N = 4
  Limit = 2
  Walks = {"keys", "events", "events ascending"}
CHECK_DEADLOCK FALSE
INVARIANT AscendingWalkSeesAll
