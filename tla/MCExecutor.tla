----------------------------- MODULE MCExecutor ------------------------------
(* The scenes for TLC: two calls of scripts on one slot, one of which must   *)
(* not be repeated, between a Redis 7.2 with a replica and a Redis 6; a      *)
(* write, two scripts and a sort in a batch, on two nodes of an old version; *)
(* and a batch that only reads, with a WAIT among its calls, on a connection *)
(* with another user.                                                        *)
EXTENDS ExecutorScenes, BatchOptions

CONSTANTS x, y, c1, c2, c3, c4, k1, k2, n1, n2, s1, i1, sha

MCScriptOf == [c \in Calls |-> sha]
MCSlotOf   == [c \in Calls |-> s1]
MCKnows ==
  [n \in Nodes |-> IF n = n1 THEN {"WAIT", "WAITAOF", "EVALSHA_RO"} ELSE {"WAIT"}]
MCReplicas == [n \in Nodes |-> IF n = n1 THEN 1 ELSE 0]

MCCommandOf ==
  [c \in Issued |->
     CASE c = c1 -> [variant |-> "Set", keys |-> <<k1>>]
       [] c = c2 -> [variant |-> "EvalShaRo", keys |-> <<k1>>]
       [] c = c3 -> [variant |-> "EvalShaRo", keys |-> <<k2>>]
       [] c = c4 -> [variant |-> "SortRo", keys |-> <<k2>>]]
MCMasterOf == [k \in Keys |-> IF k = k1 THEN n1 ELSE n2]

MCHostOf == [c \in Commands |-> n1]

Reading == sync(execution_mode(defaults, "RedisReadAtomic"), 1, 5)
ReadingSkipResult == Reading.skip_result
ReadingSyncSlaves == Reading.sync_slaves

ASSUME ScenesAssumption /\ is_redis_based_queue(Reading)
==============================================================================
