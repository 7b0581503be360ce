SPECIFICATION Spec
CONSTANTS
  n1 = n1  n2 = n2  n3 = n3
  x = x
  Raw <- MCSentinel
  Calls = {1, 2}
  Slots = {1, 2}
  Servers = {n1, n2, n3}
  Layouts <- MCLayouts
  Items = {"script", "info"}
  MaxLives = 3
CHECK_DEADLOCK FALSE
INVARIANT CacheFollows
