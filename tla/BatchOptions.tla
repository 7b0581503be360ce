----------------------------- MODULE BatchOptions -----------------------------
(***************************************************************************)
(* The options of a batch (batch_options.rs): the defaults, the builder    *)
(* methods that replace some of them, and what CommandBatchService::new    *)
(* makes of them.  A duration is a number of seconds; the delay between    *)
(* attempts is left out.                                                   *)
(***************************************************************************)
EXTENDS Integers

ExecutionMode == {"InMemory", "InMemoryAtomic", "RedisReadAtomic", "RedisWriteAtomic"}

\* An Option without a value; one with a value is a sequence of length 1.
Unset == <<>>
unwrap_or(option, default) == IF option = Unset THEN default ELSE option[1]

defaults ==
  [execution_mode |-> "InMemory", skip_result |-> FALSE,
   response_timeout |-> Unset, retry_attempts |-> -1,
   sync_slaves |-> 0, sync_locals |-> 0, sync_timeout |-> 0, sync_aof |-> FALSE]

\* The builder methods; sync leaves the sync_locals of an earlier sync_aof.
sync(options, slaves, timeout) ==
  [options EXCEPT !.sync_slaves = slaves, !.sync_timeout = timeout, !.sync_aof = FALSE]

sync_aof(options, local_num, slaves, timeout) ==
  [options EXCEPT !.sync_locals = local_num, !.sync_slaves = slaves,
                  !.sync_timeout = timeout, !.sync_aof = TRUE]

execution_mode(options, mode) == [options EXCEPT !.execution_mode = mode]
skip_result(options) == [options EXCEPT !.skip_result = TRUE]
response_timeout(options, timeout) == [options EXCEPT !.response_timeout = <<timeout>>]
retry_attempts(options, attempts) == [options EXCEPT !.retry_attempts = attempts]

is_redis_based_queue(options) ==
  options.execution_mode \in {"RedisReadAtomic", "RedisWriteAtomic"}

\* CommandBatchService::new: the batch's own limits, those of the configuration
\* where the options set none.
Limits(config, options) ==
  [batch_retry_attempts |-> IF options.retry_attempts >= 0 THEN options.retry_attempts
                                                           ELSE config.retry_attempts,
   response_timeout |-> unwrap_or(options.response_timeout, config.command_timeout)]
===============================================================================
