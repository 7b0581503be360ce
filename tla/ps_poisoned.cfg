SPECIFICATION FairSpec
CONSTANTS
  a = a  b = b  k1 = k1  k2 = k2
  n1 = n1  n2 = n2
  pat = pat  key = key
  msg = msg  e1 = e1  e2 = e2
  Listeners = {a, b}
  Leavers = {}
  Patterns = {pat}
  PatternOf <- MCPatternOf
  KeyspacePatterns = {}
  Cluster = FALSE
  Nodes = {n1, n2}
  Client = Client
  Messages = {msg}
  Events = {}
  Matching <- MCMatching
  Origin <- MCOrigin
  Capacity = 1
  MaxFailures = 1
  MaxReconnects = 0
CHECK_DEADLOCK FALSE
PROPERTY Delivered
