SPECIFICATION FairCache
CONSTANTS
  home = home
  homeLink = homeLink
  proj = proj
  projLink = projLink
  Requests = {r1, r2, r3}
  Spellings = {home, homeLink, proj, projLink}
  Canon <- MCCanon
  Default = home
  Startup = Startup
  NoCore = NoCore
  NoKey = NoKey
  NoRequest = NoRequest
  MaxFaults = 1
INVARIANTS
  CacheTypeOK
  SameCore
  OneWriter
PROPERTIES
  RequestsReturn
  ImplementsCoreTable
CHECK_DEADLOCK FALSE
