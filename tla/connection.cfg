SPECIFICATION ScenesSpec
CONSTANTS
  n1 = n1  n2 = n2  n3 = n3
  x = x
  Raw <- MCRaw
  Calls = {1, 2}
  Slots = {1, 2}
  Servers = {n1, n2, n3}
  Layouts <- MCLayouts
  Items = {"script", "info"}
  MaxLives = 2
  k1 = k1  k2 = k2
  key = key
  e1 = e1  e2 = e2
  Client = Client
CHECK_DEADLOCK FALSE
INVARIANT TypeOK
INVARIANT CacheFollows
PROPERTY RemovedIsSilent
