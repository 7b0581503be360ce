SPECIFICATION ScenesSpec
CONSTANTS
  b = b  k1 = k1  k2 = k2
  n1 = n1  n2 = n2
  pat = pat  key = key
  e1 = e1
  a1 = a1  a2 = a2
  none = none
  Listeners = {b, k1, k2}
  Leavers = {k1, k2}
  Patterns = {pat, key}
  PatternOf <- MCPatternOf
  KeyspacePatterns = {key}
  Cluster = TRUE
  Nodes = {n1, n2}
  Client = Client
  Messages = {e1}
  Events = {e1}
  Matching <- MCMatching
  Origin <- MCOrigin
  Capacity = 1
  MaxFailures = 1
  MaxReconnects = 1
  Hearers = {"key", "op1", "op2", "op3"}
  Quitters = {"op1"}
  TopicOf <- MCTopicOf
  Copied <- MCCopied
  Addresses = {a1, a2}
  Unallocated = none
  RegistryFailures = 1
  Tasks = {a1, a2}
  MaxUnlocks = 2
  MaxTimeouts = 2
  Threads = {k1, k2}
  LockNames = {n1, n2}
  MaxQueue = 4
  Globs <- MCGlobs
CHECK_DEADLOCK FALSE
INVARIANT TypeOK
INVARIANT OkMeansSubscribed
INVARIANT NoSubscriptionLeak
INVARIANT GlobAgrees
INVARIANT UnlockIsHeard
INVARIANT FirstHolds
INVARIANT RemoveTakesOwn
INVARIANT HearsEveryCopy
INVARIANT DeliveredIfUndisturbed
