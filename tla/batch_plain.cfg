SPECIFICATION Spec
CONSTANTS
  c1 = c1  c2 = c2  c3 = c3
  n1 = n1  n2 = n2
  s1 = s1  s2 = s2
  sha = sha
  Options <- Plain
  Commands = {c1, c2, c3}
  Null = Null
  Nodes = {n1, n2}
  Slots = {s1, s2}
  SlotOf <- MCSlotOf
  ReadOnly <- MCReadOnly
  Scripts = {sha}
  ScriptOf <- MCNoScripts
  NoScript = NoScript
  NoNode = NoNode
  Atomic <- MCAtomic
  SkipResult <- MCSkipResult
  SyncSlaves <- MCSyncSlaves
  SyncAof <- MCSyncAof
  ReadFromMaster = FALSE
  UseScriptCache = FALSE
  RetryAttempts <- MCRetryAttempts
  MaxClusterChanges = 0
  MaxRestarts = 0
CHECK_DEADLOCK FALSE
INVARIANT ReplyIsOwn
INVARIANT ResponsesAgree
INVARIANT AddOrderKept
