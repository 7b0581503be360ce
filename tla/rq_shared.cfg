SPECIFICATION FairSpec
CONSTANTS
  c1 = c1  c2 = c2
  f = f
  n1 = n1  n2 = n2
  Commands = {c1, c2, f}
  Null = Null
  Foreign = {f}
  WaitCalls = {}
  Nodes = {n1, n2}
  NodeOf <- TwoNodes
  NoNode = NoNode
  PoolSize = 2
  SkipResult <- WritingSkipResult
  SyncSlaves <- WritingSyncSlaves
  MaxTimeouts = 1
  MaxLosses = 1
CHECK_DEADLOCK FALSE
INVARIANT TypeOK
INVARIANT NoOrphan
PROPERTY CallsGetThrough
PROPERTY TakenAnswered
