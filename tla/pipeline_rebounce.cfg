SPECIFICATION Spec
CONSTANTS
  r1 = r1  r2 = r2  t1 = t1  p1 = p1  b1 = b1
  named = named  plain = plain
  host = host  nohost = nohost  sale = sale
  Asks <- MCAsks
  Bare <- MCBare
  HostOf <- MCHostOf
  NoHost = nohost
  Strings = {plain}
  Hosts = {host}
  Tags = {sale}
  First = {plain}
  Sends = {r1}
  Triggers = {t1}
  Purgers = {}
  Batches = {}
  Faulty = {}
  MayFail = FALSE
  Expansion <- MCSingle
  Touched <- MCTouched
  GivenAs <- MCGivenAs
  Imported <- MCNone
  Files = {FALSE}
  Kinds = {"failed"}
  Purges = {"Clear"}
  AutoValues = {}
  DelayValues = {}
PROPERTIES
  BouncedIsSuppressed
CHECK_DEADLOCK FALSE
