SPECIFICATION FairSpec
CONSTANTS
  x = x
  n1 = n1  n2 = n2
  s1 = s1
  NoNode = NoNode
  sha = sha
  Calls = {x}
  NoRetry = {}
  Kinds = {"Auto", "Wait", "Read"}
  Scripts = {sha}
  ScriptOf <- MCScriptOf
  Nodes = {n1, n2}
  Slots = {s1}
  SlotOf <- MCSlotOf
  Anywhere = Anywhere
  Knows <- MCKnows
  AofNodes = {n1}
  Replicas <- MCReplicas
  Standalone = FALSE
  UseScriptCache = TRUE
  CheckSynced = FALSE
  CommandAttempts = 2
  MaxSlaves = 1
  MaxFaults = 0
CHECK_DEADLOCK FALSE
PROPERTY SyncedEvalReturns
