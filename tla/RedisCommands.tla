---------------------------- MODULE RedisCommands ----------------------------
(***************************************************************************)
(* The commands of client/protocol/redis_command.rs: the variants of the   *)
(* enum, which of them are read-only, the key each is routed by, and the   *)
(* name each goes out under, by itself (execute) and inside a pipeline     *)
(* (execute_on).  A command is a record of its variant and its keys; the   *)
(* other arguments travel with it unchanged.                               *)
(***************************************************************************)
EXTENDS Sequences

-----------------------------------------------------------------------------
(* The variants, each with the name that fred, or CustomCommand, sends.      *)

KeyVariants ==
  [Get |-> "GET", Set |-> "SET", Del |-> "DEL", Exists |-> "EXISTS"]

ExpiryVariants ==
  [Expire |-> "EXPIRE", Pexpire |-> "PEXPIRE", Ttl |-> "TTL", Pttl |-> "PTTL",
   Persist |-> "PERSIST"]

HashVariants ==
  [HGet |-> "HGET", HSet |-> "HSET", HGetAll |-> "HGETALL", HDel |-> "HDEL",
   HExists |-> "HEXISTS", HLen |-> "HLEN", HIncrBy |-> "HINCRBY"]

SetVariants ==
  [SAdd |-> "SADD", SRem |-> "SREM", SMembers |-> "SMEMBERS",
   SIsMember |-> "SISMEMBER", SCard |-> "SCARD"]

SortedSetVariants ==
  [ZAdd |-> "ZADD", ZRem |-> "ZREM", ZScore |-> "ZSCORE", ZCard |-> "ZCARD"]

ScriptVariants ==
  [Eval |-> "EVAL", EvalSha |-> "EVALSHA", EvalShaRo |-> "EVALSHA_RO"]

SortVariants == [Sort |-> "SORT", SortRo |-> "SORT_RO"]

WaitVariants == [Wait |-> "WAIT", WaitAof |-> "WAITAOF"]

Name(variant) ==
  CASE variant \in DOMAIN KeyVariants       -> KeyVariants[variant]
    [] variant \in DOMAIN ExpiryVariants    -> ExpiryVariants[variant]
    [] variant \in DOMAIN HashVariants      -> HashVariants[variant]
    [] variant \in DOMAIN SetVariants       -> SetVariants[variant]
    [] variant \in DOMAIN SortedSetVariants -> SortedSetVariants[variant]
    [] variant \in DOMAIN ScriptVariants    -> ScriptVariants[variant]
    [] variant \in DOMAIN SortVariants      -> SortVariants[variant]
    [] variant \in DOMAIN WaitVariants      -> WaitVariants[variant]

Variants ==
  UNION {DOMAIN KeyVariants, DOMAIN ExpiryVariants, DOMAIN HashVariants,
         DOMAIN SetVariants, DOMAIN SortedSetVariants, DOMAIN ScriptVariants,
         DOMAIN SortVariants, DOMAIN WaitVariants}

\* The variants that hold a list of keys, which may be empty; WAIT and WAITAOF
\* hold none, all others exactly one.
ListVariants == {"Del", "Exists"} \cup DOMAIN ScriptVariants

Wellformed(cmd) ==
  /\ cmd.variant \in Variants
  /\ cmd.variant \in DOMAIN WaitVariants => cmd.keys = <<>>
  /\ cmd.variant \notin DOMAIN WaitVariants \cup ListVariants => Len(cmd.keys) = 1

-----------------------------------------------------------------------------
is_read_only(cmd) ==
  cmd.variant \in
    {"Get", "Exists", "Ttl", "Pttl", "HGet", "HGetAll", "HExists", "HLen",
     "SMembers", "SIsMember", "SCard", "ZScore", "ZCard", "EvalShaRo", "SortRo"}

\* The first key, as a sequence of at most one element.
routing_key(cmd) == IF cmd.keys = <<>> THEN <<>> ELSE <<Head(cmd.keys)>>

-----------------------------------------------------------------------------
(* execute: the names of the requests a call makes by itself.                *)

\* The requests an older server does not know, and what is sent instead.
Downgrade == [EVALSHA_RO |-> "EVALSHA", SORT_RO |-> "SORT"]

\* execute: the name of the first request of cmd while the names in avoid are
\* known to be unsupported.
Request(cmd, avoid) ==
  LET name == Name(cmd.variant) IN IF name \in avoid THEN Downgrade[name] ELSE name

\* execute_on: inside a pipeline there is no second attempt, so the names that
\* might be unknown are never used.
PipelineName(cmd) == Request(cmd, DOMAIN Downgrade)
=============================================================================
