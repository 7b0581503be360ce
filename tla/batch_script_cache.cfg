SPECIFICATION Spec
CONSTANTS
  c1 = c1  c2 = c2  c3 = c3
  n1 = n1  n2 = n2
  s1 = s1  s2 = s2
  sha = sha
  Options <- defaults
  Commands = {c2, c3}
  Null = Null
  Nodes = {n1, n2}
  Slots = {s1, s2}
  SlotOf <- MCSlotOf
  ReadOnly <- MCReadOnly
  Scripts = {sha}
  ScriptOf <- MCScripts
  NoScript = NoScript
  NoNode = NoNode
  Atomic <- MCAtomic
  SkipResult <- MCSkipResult
  SyncSlaves <- MCSyncSlaves
  SyncAof <- MCSyncAof
  ReadFromMaster = FALSE
  UseScriptCache = TRUE
  RetryAttempts <- MCRetryAttempts
  MaxClusterChanges = 0
  MaxRestarts = 1
CHECK_DEADLOCK FALSE
INVARIANT ScriptCacheTruthful
