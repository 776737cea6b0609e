SPECIFICATION Spec
CONSTANTS
  r1 = r1  r2 = r2  t1 = t1  p1 = p1  b1 = b1
  named = named  plain = plain
  host = host  nohost = nohost  sale = sale
  Asks <- MCAsks
  Bare <- MCBare
  HostOf <- MCHostOf
  NoHost = nohost
  Strings = {plain}
  Hosts = {host}
  Tags = {}
  First = {plain}
  Sends = {r1, r2}
  Triggers = {t1}
  Purgers = {p1}
  Batches = {}
  Faulty = {p1, t1}
  MayFail = FALSE
  Expansion <- MCSingle
  Touched <- MCNone
  GivenAs <- MCGivenAs
  Imported <- MCNone
  Files = {TRUE}
  Kinds = {"opened"}
  Purges = {"DeleteMessage", "DeleteSingleMessage", "ClearAllMessages", "ResetMessages"}
  AutoValues = {}
  DelayValues = {}
INVARIANTS
  OrphansAreTorn
  ResendIsFaithful
CHECK_DEADLOCK FALSE
