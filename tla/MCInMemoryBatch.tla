--------------------------- MODULE MCInMemoryBatch --------------------------
(* Instances of InMemoryBatch for TLC: three calls on two nodes, one of the  *)
(* commands read-only; the script variant makes two calls with one script.   *)
(* The options of the batch are built as its user builds them.               *)
EXTENDS InMemoryBatch, BatchOptions

LOCAL INSTANCE RedissonConfig

CONSTANTS c1, c2, c3, n1, n2, s1, s2, sha, Options

MCSlotOf == [c \in Commands |-> IF c = c3 THEN s2 ELSE s1]
MCReadOnly == Commands \cap {c1, c3}
MCNoScripts == [c \in Commands |-> NoScript]
MCScripts == [c \in Commands |-> IF c = c2 THEN sha ELSE NoScript]

\* A batch that waits for one replica, without scripts.
Plain == sync(defaults, 1, 5)

\* A transaction that waits for one disk and one replica and never retries.
Transaction ==
  retry_attempts(sync_aof(execution_mode(defaults, "InMemoryAtomic"), 1, 1, 5), 0)

\* A transaction that waits for nobody.
Unsynced == execution_mode(defaults, "InMemoryAtomic")

Config == [try_from(Default(n1)) EXCEPT !.retry_attempts = 1]

MCAtomic == Options.execution_mode = "InMemoryAtomic"
MCSkipResult == Options.skip_result
MCSyncSlaves == Options.sync_slaves
MCSyncAof == Options.sync_aof
MCRetryAttempts == Limits(Config, Options).batch_retry_attempts

ASSUME ~is_redis_based_queue(Options)
=============================================================================
