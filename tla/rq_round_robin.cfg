SPECIFICATION Spec
CONSTANTS
  c1 = c1  c2 = c2
  f = f
  n1 = n1  n2 = n2
  Commands = {c1, c2}
  Null = Null
  Foreign = {}
  WaitCalls = {}
  Nodes = {n1}
  NodeOf <- OneNode
  NoNode = NoNode
  PoolSize = 2
  SkipResult = FALSE
  SyncSlaves = 0
  MaxTimeouts = 0
  MaxLosses = 0
CHECK_DEADLOCK FALSE
INVARIANT CommandsAwaitExec
