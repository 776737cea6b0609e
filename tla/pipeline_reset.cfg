SPECIFICATION Spec
CONSTANTS
  r1 = r1  r2 = r2  t1 = t1  p1 = p1  b1 = b1
  named = named  plain = plain
  host = host  nohost = nohost  sale = sale
  Asks <- MCAsks
  Bare <- MCBare
  HostOf <- MCHostOf
  NoHost = nohost
  Strings = {plain}
  Hosts = {host}
  Tags = {sale}
  First = {plain}
  Sends = {r1}
  Triggers = {t1}
  Purgers = {p1}
  Batches = {b1}
  Faulty = {}
  MayFail = FALSE
  Expansion <- MCNobody
  Touched <- MCNone
  GivenAs <- MCGivenAs
  Imported <- MCOneEach
  Files = {TRUE}
  Kinds = {"complained"}
  Purges = {"ResetAll", "DeleteTag"}
  AutoValues = {FALSE}
  DelayValues = {}
INVARIANTS
  ResetLeavesNothing
CHECK_DEADLOCK FALSE
