-------------------------- MODULE MCRedisQueueBatch -------------------------
(* Instances of RedisQueueBatch for TLC: a pool of two clients for two calls *)
(* on one node, or for calls on two nodes beside another user.               *)
EXTENDS RedisQueueBatch, BatchOptions

CONSTANTS c1, c2, f, n1, n2

OneNode  == [c \in Commands |-> n1]
TwoNodes == [c \in Commands |-> IF c = c2 THEN n2 ELSE n1]

\* A batch that writes and has little time.
Writing == response_timeout(sync(execution_mode(defaults, "RedisWriteAtomic"), 1, 5), 1)
WritingSkipResult == Writing.skip_result
WritingSyncSlaves == Writing.sync_slaves

ASSUME ConfigAssumption /\ is_redis_based_queue(Writing)
=============================================================================
