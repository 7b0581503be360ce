# A formal model of redisson-rs

redisson-rs is a Rust port of the Java client Redisson on top of the Redis
client `fred` and the runtime `tokio`. This directory holds TLA+ models of the
parts of it in which concurrency and failures matter, their TLC runs, and
proofs for TLAPS. Paths below are relative to `src/redisson-rs/src/` unless
they start with `src/`.

Two things are *external* to every model: Redis, and `fred` (routing, pooling,
retries, the event bus). They are modelled from how the code uses them, with as
much freedom as the code has to cope with.

## 1. The system

| component | state | operations | hard because |
|---|---|---|---|
| **command batch**, `command/command_batch_service.rs` | `executed`, `next_index`, a queue of commands or of result senders under a tokio mutex, one oneshot channel per call | `async0`, `execute_async`, `discard_async` | callers, executor and one task per node interleave; routing is a snapshot; replies are matched to callers by position |
| **pattern subscriptions**, `pubsub/publish_subscribe_service.rs`, `api/rpattern_topic.rs` | two concurrent maps pattern → listeners, subscriptions held by Redis, patterns tracked by fred | `add_listener`, `remove_listener`, two dispatch loops, a task per reconnection | no lock spans the map and Redis; several nodes per keyspace pattern; bounded broadcast channels |
| **command executor**, `command/command_async_service.rs` | `wait_support` under a mutex | `async0`, `eval_*_async`, `synced_eval*` | a batch inside a call, a spawned task, caches read before and used after awaits, retries |
| **commands**, `client/protocol/redis_command.rs` | two process-wide flags | `execute`, `execute_on`, `is_read_only`, `routing_key` | fallbacks when a server does not know a command, learned by several calls at once |
| **caches**, `connection/service_manager.rs` | `SCRIPT_SHA_CACHE`, `SLAVE_INFO_CACHE` (both per server), `SHA_CACHE`, the registry of client-side caches | lookup, insert, invalidation by two listeners, eviction by writes | invalidation races with fills that wait on Redis |
| **connection manager**, `connection/fred_connection_manager.rs`, `master_slave_entry.rs` | the pool, the subscriber, `publish_command`, fred's routing table | `create`, `shutdown`, `get_write_entry`, `get_entry_set`, the registered listeners | its answers are snapshots; the caches are keyed by them |
| **lock wait entry**, `pubsub/redisson_lock_entry.rs` | a list of waiters, a tokio `Notify` | add/remove waiter, `wait`, `try_run_listener` | a message may come between an attempt and a wait |
| **renewal bookkeeping**, `renewal/lock_entry.rs` | two maps, a queue of threads | add/remove thread | re-entrance: counts and queue must agree |
| **listener ids**, `client/listener_id.rs` | the address of a listener | comparison | addresses are used again |
| **configuration**, `config/` | values | defaults, conversion, what fred is told | - |
| **entry point**, `redisson.rs` | - | `create` | - |
| **locks and objects** (`redisson_lock.rs`, `redisson_base_lock.rs`, ...) | - | - | the implementations are commented out in full |

How they interact:

- `RPatternTopic` calls the subscription service, which calls fred's
  `SubscriberClient` and is called back by fred's broadcast channels and its
  reconnection stream.
- Everything that runs a command takes `pool.next()`, a round robin that all
  users of the connection manager share.
- `synced_eval` builds a `CommandBatchService` for one script, calls `async0`
  from a spawned task and `execute_async` itself.
- A batch groups its commands by `get_write_entry`, fills `SCRIPT_SHA_CACHE`
  and reads it; fred's `on_cluster_change` and `on_reconnect` empty it and
  `SLAVE_INFO_CACHE`.

What makes each component correct:

- batch: a caller gets the reply of its own command, exactly the callers that
  should are answered, nobody waits for ever, a batch is closed once, a
  transaction is all or nothing, the order of adding is the order of running and
  of the responses;
- subscriptions: Ok means subscribed, a message then arrives, a removed listener
  is silent, nothing stays subscribed for nobody;
- executor: a script is repeated only if it may be, a script loaded for a retry
  is loaded where the retry goes as far as anybody can know, Ok means replicated
  where the caller asked for that, the call returns;
- caches: an entry is not put back by a fill that its invalidation overtook, is
  true of the server that commands then reach, and no registered cache keeps what
  a finished write replaced;
- commands: nothing fails because a server does not know a name;
- wait entry: nobody sleeps beside a free lock; renewal: the lock that is renewed
  is one that a thread still holds.

`PROJECT.json` lists every component and, under `hazards`, every place we found
hard to test, with the properties that watch it.

## 2. Modules

| module | what it is |
|---|---|
| `Maps` | the insert of a map |
| `BatchOptions` | the options of a batch, their builder and what `CommandBatchService::new` makes of them |
| `BatchReplies` | the vocabulary of both batch modules: the answer on a oneshot channel, the replies of Redis, and the pure helpers of the batch (`distribute_exec_results`, `collect_exec_indexed`, `extract_synced_slaves`, the sort) |
| `BatchContract` | what a batch promises to the callers of `async0`: the abstract specification |
| `InMemoryBatch` | `CommandBatchService` in `IN_MEMORY` and `IN_MEMORY_ATOMIC` mode; implements `BatchContract` |
| `RedisQueueBatch` | the same service in `REDIS_READ_ATOMIC` and `REDIS_WRITE_ATOMIC` mode, with the shared pool, late replies and broken connections |
| `PatternPubSub` | adding and removing pattern listeners, step by step, with reconnections |
| `Glob` | `redis_glob_matches` and what it should compute |
| `ListenerRegistry` | overlapping patterns, keyspace events, listener ids; uses `Glob` |
| `SyncedEval` | `eval_async` and `synced_eval`, the replica cache, the script cache as they use it |
| `RedisCommands` | the variants of `RedisCommand`, what they count as, and the names they are sent under |
| `CommandExecutor` | `async0` with `RedisCommand::execute`, fallbacks and the eviction of client-side caches; uses `RedisCommands` |
| `RedissonConfig` | the configuration and what fred is told |
| `ConnectionManager` | `create`, `shutdown`, write entries, and the two per-server caches with their listeners; uses `RedissonConfig` |
| `RedissonLockEntry` | the wait entry of a lock |
| `LockEntry` | the renewal entry of a lock |
| `SequenceLemmas` | what the proofs need of queues, of counting in them, and of sorting |
| `InMemoryBatchProofs`, `BatchRefinement` | theorems about `InMemoryBatch` (section 4) |
| `RedisQueueBatchProofs` | theorems about `RedisQueueBatch` |
| `SyncedEvalProofs`, `CommandExecutorProofs`, `ConnectionManagerProofs` | theorems about the modules they are named for; `SyncedEvalProofs` also about `ExecutorScenes` |
| `PubSubProofs` | theorems about `PatternPubSub`, `Glob`, `ListenerRegistry` and the two lock entries, each and composed in `PubSubScenes` |
| `PubSubScenes`, `ExecutorScenes` | several components as *scenes* that share no state: the initial state picks one, and the others stay put. `PatternPubSub` and `SyncedEval` are extended, the others are instances, for any values of their parameters |
| `MCInMemoryBatch`, `MCRedisQueueBatch`, `MCSyncedEval`, `MCPatternPubSub`, `MCConnectionManager`, `MCPubSub`, `MCExecutor` | values of the constants for TLC |
| `MCConnections` | the connection manager and an instance of `PatternPubSub`, as two scenes |

In every module a step is the code between two awaits, or less where a lock is
given up in between. Operators whose comment starts with "Mutant:" are not part
of a specification: they are deliberately wrong versions of the operator below
them, used to see that a property notices.

### InMemoryBatch

| model | code |
|---|---|
| `pc`, `idx`, `answer` | one call of `async0`, the index it fetched, its oneshot channel (`closed`: the sender was dropped) |
| `executed`, `next_index`, `queue` | the fields of the service |
| `phase`, `pending`, `nodeMap`, `allIndexed`, ... | locals of `execute_in_memory` |
| `task`, `target`, `reply`, `done` | the tasks of its `JoinSet` and what they hold |
| `cached`, `loaded`, `route`, `events` | `SCRIPT_SHA_CACHE`; Redis' scripts; fred's routing table; events not delivered yet |
| `before`, `log` | history: who had queued before a call began; what Redis ran, in order |
| `FetchIndex`, `Enqueue` | `async0`, lines 575-583: two steps, since the index is fetched before the lock |
| `ExecuteClaim`, `ExecuteTake`, `DiscardClaim`, `DiscardDrain` | the compare-exchange and `mem::take` of each closer |
| `ResolveHit`, `ResolveMiss`, `ResolveDone` | `resolve_entry` per command, its retries, the early return |
| `LoadSend`, `LoadDone`, `LoadSkip`, `LoadFail` | `load_scripts`; `LoadSend`/`LoadDone` are the two sides of its await |
| `Spawn`, `TaskSend`, `TaskBuildFail`, `TaskFinish`, `TaskAborted` | one task per node |
| `RedisRun`, `ConnectionLost` | Redis and fred |
| `Join`, `JoinFail`, `Return` | the join loop |

Abstractions. A command is its own reply, so a misdelivered reply is visible.
A script is a name. The scripts a node lacks are loaded in one step rather than
one at a time. A command is routed by the slot of its own key (fred's
`FirstKey`), and MULTI, EXEC, WAIT and SCRIPT LOAD by the slot the node's
`MasterSlaveEntry` was made with, that of its first command. A connection is
lost before or after a whole pipeline, not in its middle. fred does not repeat
the pipeline here; `SyncedEval` has that.

### BatchContract

`state` is the life of a batch, `added`, `taken`, `ran` and `told` are the
commands callers added, the closer took, Redis ran, and the answers given. A
caller is answered at most once; with a value only if it is its own and Redis ran
the command (or a slot moved under a transaction: `moved`); a batch is closed
once; `Return` (Ok) needs every taken command answered, and may bring the last
answers itself; after `Fail` stragglers may still run and be answered. The
contract deliberately allows `Add` in every state: `async0` does not look at
`executed`. `InMemoryBatch!ImplementsContract` is its specification under a refinement mapping: `state` from `phase` and
`discard`, `added` from `pc`, `taken` from `pending` and `nodeMap`, `ran` from
`log`, `told` is `answer`.

### RedisQueueBatch

`holder` is the state mutex, which `async0` keeps across its awaits (`Lock`,
`SendMulti`, `SendCommand`, `SendCommandFails`). `turn` is the pool's
round-robin counter, `txn` the MULTI state that Redis keeps per connection: a
connection belongs to a client of the pool and a node. Commands of other users
are `ForeignCommand`. A reply comes in time, too late for fred (`Late`), or its
connection breaks (`Break`): Redis then forgets the MULTI, and fred fails the
command or sends it again on the new connection; a connection may also break
while nothing is under way on it (`Disconnect`). A command may fail inside EXEC
while the others run (`Spoilt`). `ExecuteTimeout` drops the inner future at any
of its awaits.

Four variables are history, and say when the properties about the transaction may
be expected: `used` are the connections that MULTI, commands and EXEC went to,
`lost` those that broke, `strays` what Redis queued there beside the commands whose
callers wait (a command whose reply came too late, one of another user), `unheard`
whether EXEC ran and its reply was not received. A batch is `Intact` while it has
used one connection that did not break. `IntactAwaitsExec` and
`TransactionAllOrNothing` hold then, whoever else uses the connection and whatever
comes late; `FailedNeverRan` names the late replies as the only exception;
`ReplyIsOwn` needs that nothing strayed in: otherwise the array of EXEC is longer
than the senders, and callers do get each other's values (section 5).

The read mode differs by using `pool.replicas()` throughout, which is
the same module with replicas for `Nodes`.

### PatternPubSub

`pc` walks a listener through one `add_listener` and one `remove_listener`.
`Contains` and `Extend` are separate steps, as are `Retain` and `MapRemove`,
since the code lets go of the map between them. `waiting` holds the nodes that
have not answered yet, `subscribed` what Redis has, `tracked` what fred's client
would subscribe again by itself, `resub`/`listed` the task a reconnection starts.
`inbox` are the two broadcast channels, with `Capacity`. `owed` and `got` are
history: who should get which message, and who got it.
`pattern_listeners` and `keyspace_pattern_listeners` are one map, since a
pattern belongs to one of them for good. Any calls may run at once and any command
may fail. Two things then take a subscription away from a listener that was told Ok:
an addition that meets a removal which has emptied the pattern (`raced`), and a
PSUBSCRIBE of the pattern that fails (`refused`). Both are history, kept for each
pattern, and the properties speak of the patterns they did not happen to
(`Disturbed`); they say that nothing else does it.

### Glob and ListenerRegistry

`glob_inner` is the recursion of the code as a recursive function on positions
of the pattern, whose value is the set of places of the text from where the rest
of the pattern matches;
`Matches` says that the text can be cut into one piece per character of the
pattern. `ListenerRegistry` has the steps of `PatternPubSub` on one server and without
reconnections, and adds what that abstracts from: Redis sends a message once for
each matching pattern (a keyspace event on two channels), each copy visits every
entry of the map (`todo`, entry by entry, so that the steps of adding and removing
fall in between), the channel of a slow loop overwrites its oldest copies (`Lag`),
and `id`, the address of the wrapper, may be one that a removed or failed listener
had. `Remove` takes any set of ids that were ever returned for the topic, now, again
or too late. `disturbed` are the patterns that lost listeners to an error or a race,
`astray` the listeners whose address was removed for a listener that was gone. The
listeners of a pattern are a set: the order in which one copy visits them is not
looked at.

### SyncedEval

| model | code |
|---|---|
| `pc`, `kind`, `info`, `left`, `result` | one call, its `SyncMode`, the `ReplicationInfo` it holds, fred's remaining attempts |
| `handle` | the task of `tokio::spawn` and what its `async0` returns |
| `prober`, `probed`, `wait_support` | the mutex around the result of the WAIT probe |
| `slaveInfo`, `cached`, `evalShaRo` | `SLAVE_INFO_CACHE`, `SCRIPT_SHA_CACHE`, `EVAL_SHA_RO_SUPPORTED` |
| `at`, `entry` | `cluster_node` of the call's options; the node its batch found |
| `home`, `route` | who owns a slot; fred's routing table, which learns of it later and may lack the slot |
| `Knows`, `AofNodes`, `slaves`, `loaded`, `restarts` | the servers, each with its own commands |
| `runs`, `acked`, `astray`, `seen` | history: how often a script ran, who confirmed it, whose WAIT went to another node than the script, the restarts before the load |
| `ProbeStart` ... `ProbeFail` | lines 216-224 |
| `SlavesCached`, `QueryInfo`, `CacheInfo`, `QueryFail` | lines 238-253: what INFO said is stored later, whatever happened since |
| `SpawnAdd`, `Add`, `Take`, `Resolve`, `BatchLoad`, `BatchRun`, `BatchLost`, `BatchFail` | lines 265-303: the batch |
| `Check`, `AwaitAdd` | lines 305-324 |
| `EvalUnknown`, `EvalRun`, `EvalMissing`, `LoadScript`, `EvalLost`, `LoadLost` | `eval_async`, and the fallback of `EvalShaRo` in `RedisCommand::execute` |

Abstractions. The batch holds one command in plain in-memory mode, so what
`InMemoryBatch` does step by step is one pipeline here, and the race in
`load_scripts` is left to that module. A command with a key reaches the owner of
its slot by redirections; one without a key (the probe, INFO, SCRIPT LOAD) goes to
`at`, or to any node where the routing table had none (`Reached`, the branch
`None => options.clone()`). The two probe commands are one step, sent to one node;
as in the code, what that node knows is then taken to hold for all. Two branches of the code are
left out because nothing reaches them: "ERR unknown command" in `eval_async`
(`execute` has already fallen back to EVALSHA) and NOSCRIPT in `synced_eval` (a
failed EVALSHA in a batch becomes `Ok(Null)`).

### RedisCommands and CommandExecutor

`Name`, `PipelineName` and `Downgrade` are the matches of `execute` and
`execute_on`; `is_read_only` and `routing_key` those of the same names. A call
sends one name (`Send`), may learn that the server does not know it (`Unknown`,
which lowers the flag for the whole process), and after a write visits the
registered caches one by one (`EvictStart`, `EvictOne`, `EvictDone`), while
caches register, leave, come back and fill themselves. A fill is a read of Redis
(`FillRead`) and an insert (`FillStore`), and anything may happen in between. `late`
holds the entries that were old when they were stored, or became old while their
cache was not registered: nothing in the trait would tell a cache of these, and
`FreshAfterOk` excepts them and nothing else. Versions stand for values, so an
outdated one is visible. `Pipelined` calls go through `execute_on` as a plain
batch of one. Caches and server upgrades are external: nothing in the repository
implements the trait `ClientSideCaching`.

### RedissonConfig and ConnectionManager

`Configure`, `Connect`, `Probe`, `Subscribe` are the steps of `create`;
`shutdown` closes the pool only. `get_write_entry` answers from fred's table in a
cluster and names the first configured server otherwise. `learned` is both
per-server caches (`Items` tells them apart), each entry with the server and the
*life* of it that it was true of; `Look`, `Ask`, `Store`, `Use` are the common
skeleton of `load_scripts` and of the replica lookup of `synced_eval`.
`late` holds entries that were out of date when stored, the race that
`batch_script_cache` shows; `CacheFollows` excepts them and nothing else.

### RedissonLockEntry and LockEntry

Nothing that is compiled uses either, so their callers are external:
`RedissonLockEntry` assumes that a task registers, tries the lock, waits if that
failed and tries again after every wait; `LockEntry` that a thread releases what
it took. `signal` is tokio's `Notify` as documented: `notify_one` wakes the oldest
waiter or leaves one permit, `notify_waiters` wakes those that wait right now, a
wake-up that meets a timeout is passed on. `holds` is history: who holds what,
oldest first. It is kept apart from the counters of the code: `Taken` and
`Released` look only at `holds` itself. `retain` is the loop of `VecDeque::retain`
as a recursive function.

## 3. Runs

All runs end within three minutes with two workers. `CHECK_DEADLOCK FALSE`
throughout: the modelled objects are finite (each call happens once), so the
system really may stop.

| run | shows | bounds, and why they suffice |
|---|---|---|
| `batch_plain` | replies reach their callers, responses agree with them in index order, the order of adding is kept | three calls, two on one node and one on another: enough for two commands in one pipeline, two tasks finishing in either order, and indexes that disagree with queue positions; a WAIT at the end; two of the commands are read-only |
| `batch_atomic` | the EXEC array is handed out by position, callers of one transaction agree, Ok leaves nobody unanswered | the same calls in transactions, WAITAOF, a script, one restart (so EVALSHA can fail inside MULTI), no slot moves |
| `batch_cluster` | the batch implements `BatchContract`; nobody is orphaned, the batch is closed once, discard is final, what was taken is answered | two calls on different slots, one change of the routing table (to another node or to none), one retry of `resolve_entry`, script loading that fails |
| `rq_shared` | everyone gets through the state lock, no sender is lost, what was taken is answered, whatever the pool does | two calls on two nodes, a foreign command, two clients, one late reply, one broken connection, a short response timeout |
| `pubsub` | *live*: on a pattern that is not disturbed, Ok means subscribed, messages then arrive, and nothing leaks; *registry*: a listener hears each copy of what it matches, and removing an id takes its own listener; *globs*: the glob is right; *waiting*, *renewal*: the two lock entries | *live*: one ordinary and two keyspace listeners of a cluster of two, adding and removing at once, one failing command, one reconnection, one event; *registry*: a key's events, three of one operation pattern of which one may leave again and again, one event, which is sent on two channels of capacity one, two addresses for four listeners, one failure; *globs*: all patterns and texts of up to three of `a b * ?`; *waiting*: two tasks, two releases by others, two timeouts; *renewal*: two threads, two names, a queue of four |
| `executor` | *scripts*: retries, acknowledgement and probing of scripts; *commands*: no cache keeps what a finished write replaced, unknown names fall back once; *transaction*: a transaction queued in Redis keeps its promises while it keeps to one connection | *scripts*: two calls of `synced_eval` or `eval_read_async`, one that must not be repeated, one script, one slot on two nodes of different versions, in the routing table or not; one fault (`MaxFaults`), which is a lost reply, a restart, a move of the slot or a change of a replica count, at any place: the reasons that the properties name need one; *commands*: a SET, two EVALSHA_RO and a SORT_RO in a batch, two old nodes upgraded one by one, one cache, one lost reply; *transaction*: two calls and a refused WAIT, another user's command, one client and one node, read mode, one reply too late, one broken connection, one replica to wait for |
| `connection` | *manager*: once fred's events are handled, both caches agree with the servers that commands reach; *removal*: a removed or failed listener is silent | *manager*: seven configurations (defaults; a cluster with sharding auto, on with one attempt, off without timeout; a pool of 0, a cluster without nodes and a wrong `read_mode`, which are refused or fail), two calls over two slots on three servers, two restarts or one failover (two lives); *removal*: two listeners of one keyspace pattern on two nodes, any calls at once, one failing command, two messages for a channel of capacity one, so that one is dropped |
| `batch_script_cache`, `rq_round_robin`, `ps_poisoned`, `se_hang`, `sentinel_caches` | the disagreements of section 5 | the smallest instance that shows each |

Fairness. A tokio task that can run is polled, so each step of a call that is
under way, of the executor, of a node task, of a dispatch loop or of a
resubscription is weakly fair; fred bounds the wait for a reply by its command
timeout, so the step of a reply (one of "answered", "failed", "lost") is as
well. tokio's mutex is fair, so a waiting call gets it: weak fairness per call
suffices since the lock is free again and again only between different calls,
each of which takes it once. Nobody promises that the application calls
`execute_async` or `discard_async`, starts a call or publishes a message, that a
node restarts or that fred's events arrive: these are not fair. That is why
`TakenAnswered` speaks of commands that `execute_async` took, not of all.
`batch_cluster`, `rq_shared`, `se_hang` and `ps_poisoned` check the `FairSpec` of
their modules; `pubsub` needs none: `DeliveredIfUndisturbed` looks at the moment
when the dispatch loop is through with a message.

Assumptions about what is external:

- fred routes a command by its first key, ignores `options.cluster_node` outside a
  cluster, takes a timeout of 0 for none, and reports a reconnection with the
  server it connected to (with sentinels: the new primary);
- a second failover of a shard does not happen while fred still has the old
  routing table of the first;
- `Notify` behaves as tokio documents it, and whoever uses the wait entry tries
  the lock after each wait.

## 4. Proofs

A theorem holds for every value of the constants that the named assumptions of
the module allow: any number of commands, nodes, slots, scripts, listeners,
messages, tasks, and all options. `PROJECT.json` lists the theorems with the
property each states.

| module | theorem | states |
|---|---|---|
| `InMemoryBatchProofs` | `TypeCorrect` | `TypeOK` |
| | `NoCallerOrphaned` | `NoOrphan` |
| | `CallersGetTheirOwnReply` | `ReplyIsOwn`, for plain batches always and for transactions while no slot has moved |
| | `DiscardedNeverRuns` | `DiscardIsFinal` |
| | `DrainedOnce` | `QueueDrainedOnce`, an action property |
| `BatchRefinement` | `BatchImplementsContract` | `ImplementsContract`: every behaviour of `InMemoryBatch` is one of `BatchContract` |
| | `TransactionsAreAtomic` | `AtomicAllOrNothing` while no slot has moved |
| | `OkAnswersAll` | `OkMeansAllAnswered` while no slot has moved under a transaction |
| | `OrderIsKept` | `AddOrderKept`, whatever fails or moves |
| | `ResponsesAreTrue` | `ResponsesAgree`, whatever fails or moves |
| `RedisQueueBatchProofs` | `LockIsHeldByTheTalker` | `TypeOK` with `LockHeld`, on any pool and with any failure |
| | `NobodyIsOrphaned` | `NoOrphan`, on any pool and with any failure |
| | `RepliesAreOwn`, `CommandsWait`, `TransactionIsAtomic`, `FailuresAreTrue` | `ReplyIsOwn`, `IntactAwaitsExec`, `TransactionAllOrNothing`, `FailedNeverRan`, on any pool, with any other users, late replies and broken connections |
| `SyncedEvalProofs` | `TypeCorrect` | `TypeOK` |
| | `NoRetryIsSafe` | `NoRetryRunsOnce` |
| | `LoadGoesWhereItIsNeeded` | `NoscriptHasReason`, an action property |
| | `OkIsReplicated` | `OkMeansAcked` |
| | `CachesAreFresh`, `NoNameIsUnknown` | `FreshAfterOk`, `NeverUnknown` of `ExecutorScenes`, as the run `executor` checks them |
| | `RepliesAreOwn`, `NothingRunsEarly`, `TransactionIsAtomic`, `FailuresAreTrue` | its `ReplyIsOwn`, `IntactAwaitsExec`, `TransactionAllOrNothing`, `FailedNeverRan` |
| `CommandExecutorProofs` | `TypeCorrect` | `TypeOK` |
| | `FallbackEnds` | `NeverUnknown` |
| | `EvictionIsComplete` | `FreshAfterOk` |
| `PubSubProofs` | `TypeCorrect` | `TypeOK` of `PatternPubSub` |
| | `RemovedGetNothing` | `RemovedIsSilent`, an action property, whichever calls race |
| | `OkIsSubscribed` | `OkMeansSubscribed`, whichever calls race and whatever fails |
| | `StaysDelivered` | `DeliveredIfUndisturbed`, likewise |
| | `NothingIsLeftBehind` | `NoSubscriptionLeak`, likewise |
| | `WaitersAreCounted` | `TypeOK` of `RedissonLockEntry`, the count of the waiters included |
| | `NoWakeUpIsLost` | its `UnlockIsHeard` |
| | `RemovalTakesOwn` | `RemoveTakesOwn` of `ListenerRegistry` |
| | `EveryCopyIsHeard` | its `HearsEveryCopy` |
| | `GlobIsCut` | `redis_glob_matches` is `Matches`, for every pattern and every text |
| | `GlobsAgree`, `UnlocksAreHeard`, `IdsTakeTheirOwn`, `CopiesAreHeard` | `GlobAgrees`, `UnlockIsHeard`, `RemoveTakesOwn`, `HearsEveryCopy` of `PubSubScenes`, as the run `pubsub` checks them |
| | `LongestIsFirst` | its `FirstHolds` |
| `ConnectionManagerProofs` | `TypeCorrect` | `TypeOK` |
| | `CachesFollow` | `CacheFollows`, without sentinels |

Assumptions about constants that TLC evaluates on every run that uses them:
`InMemoryBatch`, `BatchReplies` and `ConnectionManager` state theirs as ASSUME
(`ConfigAssumption`; `EvalAssumption`: `is_read_only` does not hold of an Eval;
`NullAssumption`: no command's reply is taken for a null; `ManagerAssumption`).
The others are also used as instances, where an ASSUME would not be evaluated:
there the assumption is a definition, a hypothesis of each theorem, and the MC
module assumes it of the component or its instance (`ScenesAssumption` of the two
scenes modules is the conjunction).

Composition. A step of the scenes is a step of each instance, or leaves its
variables alone, so `ScenesSpec` implies the specification of every component
(`ScenesImplement`). `PubSubProofs` proves the components of `PubSubScenes` where
they are; `SyncedEvalProofs` instantiates `CommandExecutorProofs` and
`RedisQueueBatchProofs` with the parameters of the scenes and cites their
theorems.

Recursion. `GlobIsCut` and `LongestIsFirst` are about recursive functions. Both
rest on `LeastNatural` of `SequenceLemmas`: a set of naturals that is not empty
has a least element (from the well-foundedness of strict inclusion of finite
sets, which the library proves). A function that satisfies the recursive
equations is shown to exist, and what it computes is shown by looking at the
least place where it would be wrong.

### InMemoryBatch

The argument is one inductive invariant, `IInv`. None of the properties is
inductive by itself:

- `ReplyIsOwn` says nothing about replies still on their way, so `Aligned` says
  of a pipeline that was answered but not handed out that its i-th reply, or the
  i-th element of its EXEC array, belongs to its i-th command and comes of
  running it. For a transaction that needs `Homed`: until a slot moves,
  what was grouped for a node goes there (`Settled == ~Atomic \/ changes = 0`).
- `NoOrphan` must know that no task runs while commands are grouped or scripts
  loaded (`NotSpawned`), or closing the senders of an early return would miss
  some.
- `DiscardIsFinal` and `QueueDrainedOnce` need `OneCloser` (at most one of
  `execute_async` and `discard_async` passed the compare-exchange) and
  `Untouched` (before the queue was taken nothing was grouped, sent or answered).

`TypeStep` and the other `...Step` lemmas treat one conjunct each, with a case
per action that touches it and a frame lemma for the others; the lemmas before
them are about sequences and about what Redis' replies look like
(`RedisRunFacts`, `ConnectionLostFacts`, `TaskFinishFacts`). The proofs also
cover `SkipResult = TRUE`, for which there is no run.

The refinement needs more than `IInv`, since the contract answers a caller once
and takes exactly what was added. `RInv` adds `OnePlace` (a sender is in the
queue, in `pending` or in one node's pipeline, once, and its call is "queued"),
`AllQueued` (until the queue is emptied it holds everything that was added),
`Unanswered` (nobody is answered before the task of the node has its replies) and
`AllJoined` (Ok comes after the last join). Then one lemma per action shows the
step of the contract it is: `ExecuteTake` is `Take`, a task that ends is `Tell`,
an error of the join loop is `Fail`, an early return of `resolve_entry` is `Fail`
too, and grouping, loading, spawning and sending change nothing.

Three invariants build on `RInv`:

- `OInv`: the last reply of an undivided transaction answers all of its commands
  (`Answering`), so the task tells all callers the same (`Verdict`), and every
  taken command is with some task (`Handed`).
- `KInv`, for `AddOrderKept`: a call that begins after another had queued its
  command fetches a larger index and queues behind it (`Fetched`); queue,
  `pending` and pipelines keep that order, and what is still to be grouped was
  not added before what is grouped (`InLine`); Redis runs a pipeline in its
  order, once (`NotRun`, `InLog`). `AddOrderKept` itself only speaks of the
  indexes and the log.
- `SInv`, for `ResponsesAgree`: indexes are unique (`Unique`, since
  `next_index` only grows), a pipeline holds a command once (`OnceEach`), and
  what was joined so far lists the callers of the joined nodes that were told Ok,
  each once, with its index and value (`Collected`). What the sort then makes of
  it is the lemma `PlacesAreTaken` of `SequenceLemmas`: if the place of an item is
  the number of items that are not behind it, the places are 1 to n, each taken
  once, in the order of the keys. The stable sort is written that way
  (`sort_by_index` in `BatchReplies`) so that places are counted, and no induction
  over a sorting loop is needed.

### RedisQueueBatch

`TypeInv` is the types, `LockHeld`, and that there is a slot once a command was
sent (`Slotted`). The other four theorems follow from `PInv`, which adds

- `Senders`: a sender is in the entries or was taken, never both, and has no
  answer as long as an EXEC may bring one; the caller of a stray has returned;

and, as long as the batch is `Intact`,

- `InMulti`: while a call talks to Redis, entries wait or an EXEC is due, the
  connection has an open MULTI, and it holds the entries, in order and alone if
  nothing strayed in, otherwise among the strays and what other users sent;
- `Ran`: Redis has run no command of the batch before EXEC, and afterwards none or
  what was taken, strays apart, in agreement with the reply of EXEC, or EXEC ran
  unheard;
- `Told`: what callers hear agrees with the log.

`Intact` is a condition on the state and not on the constants: the theorems speak of
every pool, and of each behaviour up to the step that leaves its connection or loses
it. It is only ever lost (`IntactBefore`), so that a step of an intact batch starts
from an intact one, on the connection it already used (`SameConnection`). What the
code does not do is keep a batch intact: on a pool of two, `rq_round_robin` is what
follows.

### SyncedEval

`IInv` of `SyncedEvalProofs` is the types and, for each call:

- `Stage`: which places of the call go with which state of the spawned task, and
  that whoever is past the probe knows its result (with `ProbeInv`: one prober,
  until one succeeded).
- `Counted`: every run but the last was followed by a lost reply, and a script
  that must not be repeated has one attempt. `NoRetryRunsOnce` says only that it
  ran once; without the attempts and the place of the call that is not inductive.
- `Found`: between SCRIPT LOAD and the retry, the node that the options name has
  the script or has restarted since. So if the retry meets NOSCRIPT without a
  restart, it met another node: there was none in the options, or the slot has moved.
- `Confirmed`: a batch that ended well ran the script, and its acknowledgements
  are those of that run unless its WAIT went astray, so that `OkMeansAcked` holds however stale the count of
  replicas was.

### CommandExecutor

`Attempt` says that a name a server may not know is only sent in the first of two
attempts, so that the second cannot meet "unknown command", whatever other calls
learn meanwhile and whichever servers are upgraded in between. `Fresh` says of a
write that has been answered: an entry older than it, and not in `late`, is in a
cache that the eviction has still to visit. `Listed` carries that over the start of
the eviction: an entry that became old did so while its cache was registered, so
the caches that are registered then include it.

### PatternPubSub

Types and `RemovedIsSilent` follow from `MInv`: the map holds a listener only
under its own pattern and while its `add_listener` is under way or returned Ok.
They need no condition on the calls.

`OkMeansSubscribed`, `DeliveredIfUndisturbed` and `NoSubscriptionLeak` follow from
four more, each for the patterns that were not raced or refused:

- `Met`: an addition and a removal that emptied the pattern are at work at once
  only where they raced;
- `Kept`: so nobody who joined is dropped from the map, and what `contains_key`
  said of an entry stays true;
- `Covered`: a pattern of the map is subscribed at each of its targets, or a call
  or a resubscription that will do it is under way, and fred tracks it;
- `NotLeft`: until a connection is lost, a pattern that is not in the map is
  subscribed only where a removal has still to unsubscribe it.

For `DeliveredIfUndisturbed`, `AllAwaited` follows a message: who is owed it has it,
or it is in the channel, or it was dropped there.

### RedissonLockEntry

`WInv`: the queue of the Notify is exactly the sleeping tasks, once each
(`Queued`), the waiters are counted (`Counted`), and beside a free lock a message
is on its way, or some task is awake that will try the lock, or everybody who
waits or is about to was missed by `try_run_all_listeners`, where for one about
to wait a permit will do (`Heard`). `UnlockIsHeard` alone is not inductive: it
says nothing of a task between its failed attempt and its wait.

### ListenerRegistry

`RemoveTakesOwn` follows from `RInv`: the map holds a listener only under its own
pattern and while its call is under way or returned Ok, and it does hold it then,
unless its pattern was disturbed or its address removed for another (`Placed`); and
no two listeners in memory are at one address (`OwnIds`), though one in memory and
one that is gone may be.

`HearsEveryCopy` counts: what a listener heard of a message, the copies that were
overwritten and those still in the channel are together the copies that Redis sent,
and one more while the loop works on a copy that this listener's pattern has already
been shown (`Due`, `Shown`). That the loop lets exactly the matching patterns hear
is `GlobIsRight`, from `GlobIsCut`.

### Glob

`glob_inner` goes through the pattern from its end. `Cuts` says in closed form
what its value is: from place `ti` of the text the rest of the pattern matches
exactly if the text from there can be cut into pieces for the rest of the
pattern. A cut for the rest is a piece for the next character and a cut for what
follows (`NextCut`): this is the step of the recursion (`Step`), for a star a
piece of any length, where the code tries to consume one more character. So
`Cuts` satisfies the equations of `glob_inner` (`CutsMatch`), and what satisfies
them is unique (`MatchIsOne`).

### LockEntry

`RenewalInv`: the two maps have exactly the holders, with their counts and first
names, the queue has exactly the holders too (`HoldsAgree`), a thread holds once,
and each place in the queue of one that has held for a shorter time comes after
one of each that has held longer (`Ahead`, in `HoldsInOrder`). A thread that
re-enters is in the queue several times, so a first place alone would not do:
when the first holder goes, all its places go at once, and `RetainFacts` says
that then nobody overtakes. `FirstHolds` is the head of such a queue.

### ConnectionManager

`TInv` is the types: a configuration that is refused or fails leaves nothing
behind that is used. For `CacheFollows`, `FInv` adds that outside a cluster there is one
server (`Single`), that an answer is about the server its entry names (`Asked`),
and that what is known of a server is true of it, or an event is on its way that
will have it forgotten, or it was out of date when it was stored (`Followed`). It
assumes `NoSentinel`: with sentinels the property is false (`sentinel_caches`).

### Only model-checked

- Liveness: `CallsGetThrough` and `TakenAnswered`, and the violated `Delivered` and
  `SyncedEvalReturns`. The prover has no rule for fairness.
- The other way round: `executor` calls `synced_eval` in mode Auto only, which takes
  both trailers between the two nodes; Wait and WaitAof are covered by the theorems.
- `RemovedIsSilent` of the run `connection` is an instance of the property that
  `RemovedGetNothing` proves of `PatternPubSub`; that the scene there is such an
  instance is read off `MCConnections`, not proved.
- The five runs that expect a violation: each is one behaviour.

## 5. Divergences

With a run (each is a `findings` entry with the quoted text):

1. `batch_script_cache`: `load_scripts` records a script after the await of
   SCRIPT LOAD although the reconnect listener may just have emptied the entry
   of that node. The cache then claims a script the node lacks, and EVALSHA
   fails until the next event.
2. `rq_round_robin`: MULTI, commands and EXEC each go to the next client of the
   pool. With two clients, commands run outside the MULTI, before EXEC.
3. `ps_poisoned`: a failed PSUBSCRIBE leaves an empty entry in the map. Every
   later `add_listener` finds it, returns Ok and never subscribes.
4. `se_hang`: `synced_eval` calls `execute_async` right after spawning the task
   that adds its script. If the batch is executed first, it is empty; the
   script is added afterwards and nobody executes it, so the call waits for
   ever. With `check_lock_synced_slaves` it returns an error instead, with the
   script never run. On a current-thread runtime this is the only order.
5. `sentinel_caches`: with sentinels `get_write_entry` names the first sentinel,
   since that is what fred's `hosts()` lists. Both caches are filled under that
   name, while the reconnect listener empties the entry of the server that
   reconnected. After a failover the new primary is credited with the scripts and
   the replicas of the old one, until the process ends.

Met while modelling, reachable by changing constants, without a run of their own:

- A nil or failed EXEC on one node: `execute_async` returns Ok with fewer
  responses than commands, against `api/batch_result.rs:4`.
- A slot that moves under a transaction (`Atomic`, three calls,
  `MaxClusterChanges = 1`) breaks `ReplyIsOwn`: the stray command runs outside
  the transaction and the EXEC array is shorter, so callers behind it get each
  other's values. `connection/master_slave_entry.rs:17-18` says that a stale
  snapshot only affects how well commands are grouped.
- Two calls of a queued transaction whose keys have different slots
  (two nodes and `NodeOf <- TwoNodes` in `rq_round_robin`, with `PoolSize = 1`):
  the second runs at once at its own node. The comments at
  `command/command_batch_service.rs:74-75` promise one slot for all commands.
- A command of a queued transaction that times out after Redis queued it, or
  another user's command that Redis queues there: the EXEC array is one longer than
  the senders, and the callers behind it get each other's values (`ReplyIsOwn`
  without `strays = {}`, in `executor`).
- A connection that breaks between MULTI and EXEC: fred sends the next command on the
  new one, where it runs at once, outside any transaction.
- `add_listener` and `remove_listener` that race on a pattern: a listener is told Ok
  and is neither in the map nor subscribed (`OkMeansSubscribed` without
  `Disturbed`, in `pubsub`).
- A listener that joins a pattern while another one's PSUBSCRIBE is under way is told
  Ok, and cleared with that one if it fails. Its address is then free: whoever is
  allocated there is removed when its id is (`RemoveTakesOwn` without `astray`).
- `eval_async` says at `command/command_async_service.rs:120-121` that EVALSHA,
  SCRIPT LOAD and the retry are pinned to one node. Where the routing table has no
  node for the slot (line 128) nothing is pinned, and SCRIPT LOAD goes where fred
  likes; a slot that moves redirects the retry. Both end in NOSCRIPT.
- The probe of WAIT and WAITAOF asks the node of the first call and its result serves
  for all nodes for good (lines 219-221): next to a node that does not know WAITAOF,
  or after an upgrade, calls are not synchronised though they could be, or fail
  where they need not.
- A cache that reads a key before a write and stores it after the eviction, or that
  was not registered at that moment, stays stale: `evict_client_side_caching` tells
  the caches of a key once, and the trait has no other call.
- A script in the batch of `synced_eval` ignores the retry flag, and NOSCRIPT
  there is `Ok(Null)`, although the comment at
  `command/command_async_service.rs:270` describes loading it and trying again.
- A read-only SORT_RO in a plain batch goes to a replica under the name SORT
  (`execute_on` does not ask the flag), which a replica refuses; the caller gets
  a null.
- Only the routing key of a write is evicted from client-side caches, so a DEL of
  several keys leaves the others; writes in batches and scripts evict nothing.
- A listener whose pattern overlaps another one hears a message twice, once for
  each copy Redis sends.
- `sync_aof` with no slaves sends no WAITAOF: `sync_slaves > 0` guards both.
- `try_run_all_listeners` calls only those that wait at that moment: a task
  between its failed attempt and its wait misses a read-unlock (`missed`).
- `LockEntry.threads_queue` grows by one with each re-entrance and shrinks only
  with the last release.

## 6. Not modelled, and why

- The locks, `RedissonObject`, `RedissonExpirable`, the renewal scheduler and
  `lock_pub_sub.rs`: commented out in full; the traits have no behaviour.
- `SHA_CACHE`: memoises a pure function; no hazard beyond a capacity of 500.
- `get_read_entry` and `NodeSource`: nothing calls the one or builds the other.
- Channel and sharded-channel listeners: `remove_listener` has branches for
  them, and nothing in the code adds such listeners.
- The values of command arguments.
- Reading and parsing the configuration file, and fields nothing branches on.
- Examples and tests: examples of Rust traits; the tests are quoted where a run
  refers to them.

## 7. Plan

Order of the modules, most important behaviour first; all of these are done.

1. `BatchReplies`, `InMemoryBatch` with its runs.
2. `RedisQueueBatch`.
3. `PatternPubSub`.
4. `InMemoryBatchProofs`.
5. `SyncedEval`, which composes the executor with one batch and both caches.
6. `BatchContract`, the refinement by TLC and its proof.
7. `RedisCommands`, `CommandExecutor`.
8. `RedissonConfig`, `ConnectionManager`.
9. `Glob`, `ListenerRegistry`, `LockEntry`, `RedissonLockEntry`.
10. `RedisQueueBatchProofs`.
11. `AddOrderKept` and `ResponsesAgree` of `InMemoryBatch`; `SyncedEvalProofs`,
    `CommandExecutorProofs`, `PubSubProofs`, `ConnectionManagerProofs`.

12. `PubSubScenes`, `ExecutorScenes`: the compositions as modules of their own, so
    that what their runs check is proved of them; the glob and `LockEntry`.
13. What the properties exempt is a condition on the state (`Intact`, `strays`,
    `Disturbed`, `astray`, `late`) and no longer an assumption about the callers or
    the pool: all calls race, commands fail, replies are late, slots move.

Worth proving next: that a step of `PatternPubSub` on one server is a step of
`ListenerRegistry` or changes nothing there; that one pipeline of `SyncedEval`
is what an `InMemoryBatch` of one command does.
Worth modelling next: `PatternPubSub` with masters that join, and liveness of
every call of `SyncedEval` apart from the hang above.

## 8. Running

    tlc -config batch_plain.cfg MCInMemoryBatch
    tlc -config pubsub.cfg MCPubSub
    tlapm BatchRefinement.tla
    tlapm PubSubProofs.tla

with the community modules on the library path. `PROJECT.json` maps every
definition to the lines it models (`map`), and lists the runs, the theorems and
one wrong variant of the model for each checked property (`mutants`).
