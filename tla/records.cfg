SPECIFICATION Spec
CONSTANTS
  Requests = {r1, r2, r3}
  TemplateNames = {"t", "u"}
  VersionTags = {"v1", "v2", "v3"}
  TemplateLimit = 1
  VersionLimit = 2
  Urls = {"x", "y"}
  EventTypes = {"opened", "clicked"}
  UrlLists <- MCUrlLists
  EventLists <- MCEventLists
  DomainNames = {"d"}
  Logins = {"l"}
  Addresses = {"i"}
  SendingDomain = "d"
  AllowedAddresses = {"a"}
  KeyValues = {"k", "m"}
  TagNames = {"p", "q"}
  TagLists <- MCTagLists
  Recipients = {"a", "b"}
  Expressions <- MCExpressions
  Priorities <- MCPriorities
  N = 4
  Limit = 2
  DefaultLimit = 1
  Walks = {"keys", "events", "events ascending"}
  Crew <- MCCrew
SYMMETRY Symmetry
CHECK_DEADLOCK FALSE
INVARIANTS
  DatabaseTypeOK
  NothingComesBack
  LastUpdateStands
  OneActiveVersion
  VersionsFollowTemplate
  WithinLimits
  WebhooksAsLastWritten
  DeliveredAsRegistered
  SignedWithCurrentKey
  RecordsMatchDomain
  PoolIPsFollowPool
  SendingLimitStands
  IssuedKeyIsThere
  TagsAsLastWritten
  InboundTakesItsRoutes
  WalkSeesAll
  OffsetWalkSeesAll
