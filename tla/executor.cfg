SPECIFICATION ScenesSpec
CONSTANTS
  x = x  y = y
  c1 = c1  c2 = c2  c3 = c3  c4 = c4
  k1 = k1  k2 = k2
  n1 = n1  n2 = n2
  s1 = s1
  i1 = i1
  sha = sha
  Null = Null
  NoNode = NoNode
  Calls = {x, y}
  NoRetry = {y}
  Kinds = {"Auto", "Read"}
  Scripts = {sha}
  ScriptOf <- MCScriptOf
  Nodes = {n1, n2}
  Slots = {s1}
  SlotOf <- MCSlotOf
  Anywhere = Anywhere
  Knows <- MCKnows
  AofNodes = {n1}
  Standalone = FALSE
  UseScriptCache = TRUE
  CheckSynced = TRUE
  CommandAttempts = 2
  Replicas <- MCReplicas
  MaxSlaves = 1
  MaxFaults = 1
  Issued = {c1, c2, c3, c4}
  CommandOf <- MCCommandOf
  Pipelined = {c4}
  Keys = {k1, k2}
  MasterOf <- MCMasterOf
  Old = {n1, n2}
  ReadFromReplica = TRUE
  Instances = {i1}
  CommandLosses = 1
  Commands = {c1, c2, c3, c4}
  Foreign = {c3}
  WaitCalls = {c4}
  Hosts = {n1}
  HostOf <- MCHostOf
  PoolSize = 1
  SkipResult <- ReadingSkipResult
  SyncSlaves <- ReadingSyncSlaves
  MaxTimeouts = 1
  ConnectionLosses = 1
CHECK_DEADLOCK FALSE
INVARIANT TypeOK
INVARIANT NoRetryRunsOnce
INVARIANT OkMeansAcked
INVARIANT FreshAfterOk
INVARIANT NeverUnknown
INVARIANT ReplyIsOwn
INVARIANT IntactAwaitsExec
INVARIANT TransactionAllOrNothing
INVARIANT FailedNeverRan
PROPERTY NoscriptHasReason
