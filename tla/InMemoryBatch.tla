--------------------------- MODULE InMemoryBatch ----------------------------
(***************************************************************************)
(* One CommandBatchService in the IN_MEMORY and IN_MEMORY_ATOMIC modes     *)
(* (command_batch_service.rs): concurrent callers of async0 put commands   *)
(* in the local queue, one task calls execute_async and one discard_async. *)
(* execute_async groups what it took by node, loads scripts, sends one     *)
(* pipeline per node from a task of its own and joins the tasks.           *)
(*                                                                         *)
(* Redis, fred's routing table and its event bus are external: they may    *)
(* reject commands, lose a connection before or after the pipeline ran,    *)
(* move a slot, leave it without a node, and restart a node.  fred routes  *)
(* each command by its own key when it is written, so what was grouped for *)
(* one node may reach two after a slot has moved.                          *)
(***************************************************************************)
EXTENDS BatchReplies

CONSTANTS
  Nodes,              \* the masters of the cluster (MasterSlaveEntry)
  Slots,              \* hash slots
  SlotOf,             \* slot of a command's routing key, 0 when it has none
  ReadOnly,           \* the commands for which is_read_only holds
  Scripts,            \* Lua scripts
  ScriptOf,           \* the script of an Eval command, NoScript for the others
  NoScript,
  NoNode,             \* get_write_entry found no server
  Atomic,             \* ExecutionMode is InMemoryAtomic
  SkipResult,         \* options.skip_result
  SyncSlaves,         \* options.sync_slaves
  SyncAof,            \* options.sync_aof
  ReadFromMaster,     \* the connection manager's read_mode is Master
  UseScriptCache,     \* config.use_script_cache
  RetryAttempts,      \* batch_retry_attempts
  MaxClusterChanges,  \* bound on topology changes
  MaxRestarts         \* bound on node restarts

ASSUME ConfigAssumption ==
  /\ SlotOf \in [Commands -> Slots]
  /\ ReadOnly \subseteq Commands
  /\ ScriptOf \in [Commands -> Scripts \cup {NoScript}]
  /\ NoScript \notin Scripts
  /\ NoNode \notin Nodes
  /\ {Atomic, SkipResult, SyncAof, ReadFromMaster, UseScriptCache} \subseteq BOOLEAN
  /\ {SyncSlaves, RetryAttempts, MaxClusterChanges, MaxRestarts} \subseteq Nat
\* is_read_only does not hold of Eval
ASSUME EvalAssumption == \A c \in ReadOnly : ScriptOf[c] = NoScript

VARIABLES
  \* callers of async0
  pc,          \* where each call is: "new", "indexed" or "queued"
  idx,         \* the index each call fetched
  answer,      \* the oneshot channel of each call
  before,      \* the calls that had queued their command when this one began
  \* the batch
  executed, next_index, queue,
  \* execute_async and discard_async
  phase, discard, pending, attempt, nodeMap, unloaded, toLoad,
  allIndexed, synced, responses,
  \* the per-node tasks of the JoinSet
  task, target, reply, done,
  \* SCRIPT_SHA_CACHE of the process
  cached,
  \* fred's routing table and the events it has still to deliver
  route, events, changes,
  \* Redis: scripts held by each node, and the commands in the order they ran,
  \* with a Null for one that was refused
  loaded, log, restarts

callVars  == <<pc, idx, answer, before>>
batchVars == <<executed, next_index, queue>>
execVars  == <<phase, discard, pending, attempt, nodeMap, unloaded, toLoad,
               allIndexed, synced, responses>>
taskVars  == <<task, target, reply, done>>
redisVars == <<cached, route, events, changes, loaded, log, restarts>>
vars == <<callVars, batchVars, execVars, taskVars, redisVars>>

-----------------------------------------------------------------------------
\* What a task that has not finished, or was joined, holds as its output.
NoOutput == [synced |-> 0, indexed |-> <<>>]

Init ==
  /\ pc     = [c \in Commands |-> "new"]
  /\ idx    = [c \in Commands |-> 0]
  /\ answer = [c \in Commands |-> NoAnswer]
  /\ before = [c \in Commands |-> {}]
  /\ executed = FALSE
  /\ next_index = 0
  /\ queue = <<>>
  /\ phase = "idle"
  /\ discard = "idle"
  /\ pending = <<>>
  /\ attempt = 0
  /\ nodeMap = [n \in Nodes |-> <<>>]
  /\ unloaded = {}
  /\ toLoad = {}
  /\ allIndexed = <<>>
  /\ synced = 0
  /\ responses = <<>>
  /\ task   = [n \in Nodes |-> "none"]
  /\ target = [n \in Nodes |-> "none"]
  /\ reply  = [n \in Nodes |-> <<>>]
  /\ done   = [n \in Nodes |-> NoOutput]
  /\ cached = [n \in Nodes |-> {}]
  /\ route \in [Slots -> Nodes]
  /\ events = {}
  /\ changes = 0
  /\ loaded = [n \in Nodes |-> {}]
  /\ log = <<>>
  /\ restarts = 0

\* Dropping the senders of the commands in S closes the channels that hold
\* no answer yet.
Close(S) ==
  [c \in Commands |-> IF c \in S /\ answer[c] = NoAnswer THEN Failure("closed")
                                                         ELSE answer[c]]

-----------------------------------------------------------------------------
(* async0: the index is fetched before the queue is locked, so two calls may *)
(* queue in the other order.  It never looks at executed.                    *)

FetchIndex(c) ==
  /\ pc[c] = "new"
  /\ pc' = [pc EXCEPT ![c] = "indexed"]
  /\ idx' = [idx EXCEPT ![c] = next_index]
  /\ next_index' = next_index + 1
  /\ before' = [before EXCEPT ![c] = {d \in Commands : pc[d] = "queued"}]
  /\ UNCHANGED <<answer, executed, queue, execVars, taskVars, redisVars>>

\* Mutant: the queue is a stack.
EnqueueFront(c) ==
  /\ pc[c] = "indexed"
  /\ pc' = [pc EXCEPT ![c] = "queued"]
  /\ queue' = <<c>> \o queue
  /\ UNCHANGED <<idx, answer, before, executed, next_index, execVars, taskVars,
                 redisVars>>

Enqueue(c) ==
  /\ pc[c] = "indexed"
  /\ pc' = [pc EXCEPT ![c] = "queued"]
  /\ queue' = Append(queue, c)
  /\ UNCHANGED <<idx, answer, before, executed, next_index, execVars, taskVars,
                 redisVars>>

-----------------------------------------------------------------------------
(* discard_async: the compare-exchange, then the queue under its lock.       *)

\* Mutant: executed is stored, not compared first.
DiscardClaimStore ==
  /\ discard = "idle"
  /\ discard' = "claimed"
  /\ executed' = TRUE
  /\ UNCHANGED <<callVars, next_index, queue, phase, pending, attempt, nodeMap,
                 unloaded, toLoad, allIndexed, synced, responses, taskVars,
                 redisVars>>

DiscardClaim ==
  /\ discard = "idle"
  /\ discard' = IF executed THEN "refused" ELSE "claimed"
  /\ executed' = TRUE
  /\ UNCHANGED <<callVars, next_index, queue, phase, pending, attempt, nodeMap,
                 unloaded, toLoad, allIndexed, synced, responses, taskVars,
                 redisVars>>

DiscardDrain ==
  /\ discard = "claimed"
  /\ discard' = "ok"
  /\ answer' = [c \in Commands |-> IF c \in Range(queue)
                                   THEN Failure("discarded") ELSE answer[c]]
  /\ queue' = <<>>
  /\ UNCHANGED <<pc, idx, before, executed, next_index, phase, pending, attempt,
                 nodeMap, unloaded, toLoad, allIndexed, synced, responses,
                 taskVars, redisVars>>

-----------------------------------------------------------------------------
(* execute_async up to the tasks.                                            *)

\* Mutant: executed is stored, not compared first.
ExecuteClaimStore ==
  /\ phase = "idle"
  /\ phase' = "claimed"
  /\ executed' = TRUE
  /\ UNCHANGED <<callVars, next_index, queue, discard, pending, attempt, nodeMap,
                 unloaded, toLoad, allIndexed, synced, responses, taskVars,
                 redisVars>>

ExecuteClaim ==
  /\ phase = "idle"
  /\ phase' = IF executed THEN "refused" ELSE "claimed"
  /\ executed' = TRUE
  /\ UNCHANGED <<callVars, next_index, queue, discard, pending, attempt, nodeMap,
                 unloaded, toLoad, allIndexed, synced, responses, taskVars,
                 redisVars>>

\* An empty batch returns at once with no responses.
ExecuteTake ==
  /\ phase = "claimed"
  /\ phase' = IF queue = <<>> THEN "ok" ELSE "resolving"
  /\ pending' = queue
  /\ queue' = <<>>
  /\ UNCHANGED <<callVars, executed, next_index, discard, attempt, nodeMap,
                 unloaded, toLoad, allIndexed, synced, responses, taskVars,
                 redisVars>>

\* Every command still owned by execute_async itself.
Owned == Range(pending) \cup UNION {Range(nodeMap[n]) : n \in Nodes}

\* resolve_entry finds the node of the next command's slot.
ResolveHit ==
  /\ phase = "resolving"
  /\ pending # <<>>
  /\ LET c == Head(pending)
         n == route[SlotOf[c]]
     IN  /\ n # NoNode
         /\ nodeMap' = [nodeMap EXCEPT ![n] = Append(@, c)]
  /\ pending' = Tail(pending)
  /\ attempt' = 0
  /\ UNCHANGED <<callVars, batchVars, phase, discard, unloaded, toLoad,
                 allIndexed, synced, responses, taskVars, redisVars>>

\* Mutant: one retry too many.
ResolveMissOffByOne ==
  /\ phase = "resolving"
  /\ pending # <<>>
  /\ route[SlotOf[Head(pending)]] = NoNode
  /\ IF attempt <= RetryAttempts
     THEN /\ attempt' = attempt + 1
          /\ UNCHANGED <<phase, answer>>
     ELSE /\ phase' = "err"
          /\ answer' = Close(Owned)
          /\ UNCHANGED attempt
  /\ UNCHANGED <<pc, idx, before, batchVars, discard, pending, nodeMap, unloaded,
                 toLoad, allIndexed, synced, responses, taskVars, redisVars>>

\* Mutant: the attempts are not counted.
ResolveMissForever ==
  /\ phase = "resolving"
  /\ pending # <<>>
  /\ route[SlotOf[Head(pending)]] = NoNode
  /\ attempt < RetryAttempts
  /\ UNCHANGED vars

\* No server for the slot: sleep and retry, or give up and drop everything.
ResolveMiss ==
  /\ phase = "resolving"
  /\ pending # <<>>
  /\ route[SlotOf[Head(pending)]] = NoNode
  /\ IF attempt < RetryAttempts
     THEN /\ attempt' = attempt + 1
          /\ UNCHANGED <<phase, answer>>
     ELSE /\ phase' = "err"
          /\ answer' = Close(Owned)
          /\ UNCHANGED attempt
  /\ UNCHANGED <<pc, idx, before, batchVars, discard, pending, nodeMap, unloaded,
                 toLoad, allIndexed, synced, responses, taskVars, redisVars>>

NodesUsed == {n \in Nodes : nodeMap[n] # <<>>}

\* Where fred sends a command now, and where it sends the MULTI, EXEC, WAIT and
\* SCRIPT LOAD of node n: to the slot its MasterSlaveEntry was made with, that
\* of its first command.
Destination(c) == route[SlotOf[c]]
Home(n) == Destination(Head(nodeMap[n]))

\* All commands have a node; load_scripts starts, unless it is switched off.
ResolveDone ==
  /\ phase = "resolving"
  /\ pending = <<>>
  /\ phase' = "loading"
  /\ unloaded' = IF UseScriptCache THEN NodesUsed ELSE {}
  /\ UNCHANGED <<callVars, batchVars, discard, pending, attempt, nodeMap, toLoad,
                 allIndexed, synced, responses, taskVars, redisVars>>

-----------------------------------------------------------------------------
(* load_scripts, node by node in the map's arbitrary order.                  *)

ScriptsFor(n) == {ScriptOf[c] : c \in Range(nodeMap[n])} \ {NoScript}

\* Nothing to load on n: its Eval commands become EvalSha.
LoadSkip(n) ==
  /\ phase = "loading"
  /\ toLoad = {}
  /\ n \in unloaded
  /\ ScriptsFor(n) \subseteq cached[n]
  /\ unloaded' = unloaded \ {n}
  /\ UNCHANGED <<callVars, batchVars, phase, discard, pending, attempt, nodeMap,
                 toLoad, allIndexed, synced, responses, taskVars, redisVars>>

\* SCRIPT LOAD of what the cache does not know of n reaches n, or whichever node
\* has its slot now.
LoadSend(n) ==
  /\ phase = "loading"
  /\ toLoad = {}
  /\ n \in unloaded
  /\ Home(n) # NoNode
  /\ LET missing == ScriptsFor(n) \ cached[n]
     IN  /\ missing # {}
         /\ toLoad' = {n} \X missing
         /\ loaded' = [loaded EXCEPT ![Home(n)] = @ \cup missing]
  /\ UNCHANGED <<callVars, batchVars, phase, discard, pending, attempt, nodeMap,
                 unloaded, allIndexed, synced, responses, taskVars, cached, route,
                 events, changes, log, restarts>>

\* Its answer is in: cache_scripts, and the Eval commands become EvalSha.
LoadDone ==
  /\ phase = "loading"
  /\ toLoad # {}
  /\ cached' = [n \in Nodes |-> cached[n] \cup {s \in Scripts : <<n, s>> \in toLoad}]
  /\ unloaded' = {n \in unloaded : ~ \E s \in Scripts : <<n, s>> \in toLoad}
  /\ toLoad' = {}
  /\ UNCHANGED <<callVars, batchVars, phase, discard, pending, attempt, nodeMap,
                 allIndexed, synced, responses, taskVars, route, events, changes,
                 loaded, log, restarts>>

\* A script must be loaded on n, but no node has its slot.
Unreachable(n) == ~(ScriptsFor(n) \subseteq cached[n]) /\ Home(n) = NoNode

\* Mutant: the error is returned while the senders stay alive.
LoadFailKeep ==
  /\ phase = "loading"
  /\ toLoad # {} \/ \E n \in unloaded : Unreachable(n)
  /\ phase' = "err"
  /\ toLoad' = {}
  /\ UNCHANGED <<callVars, batchVars, discard, pending, attempt, nodeMap,
                 unloaded, allIndexed, synced, responses, taskVars, redisVars>>

\* SCRIPT LOAD failed: execute_async returns the error and drops the senders.
LoadFail ==
  /\ phase = "loading"
  /\ toLoad # {} \/ \E n \in unloaded : Unreachable(n)
  /\ phase' = "err"
  /\ toLoad' = {}
  /\ answer' = Close(Owned)
  /\ UNCHANGED <<pc, idx, before, batchVars, discard, pending, attempt, nodeMap,
                 unloaded, allIndexed, synced, responses, taskVars, redisVars>>

\* One task per node is spawned on the JoinSet.
Spawn ==
  /\ phase = "loading"
  /\ unloaded = {}
  /\ phase' = "joining"
  /\ task' = [n \in Nodes |-> IF n \in NodesUsed THEN "spawned" ELSE "none"]
  /\ UNCHANGED <<callVars, batchVars, discard, pending, attempt, nodeMap, unloaded,
                 toLoad, allIndexed, synced, responses, target, reply, done,
                 redisVars>>

-----------------------------------------------------------------------------
(* The task of node n.                                                       *)

\* Entry::add_command: read_only stays true while all that is added is.
read_only(n) == Range(nodeMap[n]) \subseteq ReadOnly

use_replica(n) == ~Atomic /\ read_only(n) /\ ~ReadFromMaster

\* The whole pipeline is written to one connection in one piece.
TaskSend(n) ==
  /\ task[n] = "spawned"
  /\ task' = [task EXCEPT ![n] = "sent"]
  /\ target' = [target EXCEPT ![n] = IF use_replica(n) THEN "replica" ELSE "master"]
  /\ UNCHANGED <<callVars, batchVars, execVars, reply, done, redisVars>>

\* A command cannot be put in the pipeline: the task ends with the error.
TaskBuildFail(n) ==
  /\ task[n] = "spawned"
  /\ task' = [task EXCEPT ![n] = "err"]
  /\ answer' = Close(Range(nodeMap[n]))
  /\ UNCHANGED <<pc, idx, before, batchVars, execVars, target, reply, done,
                 redisVars>>

\* The node is there and, as with the script cache on an Eval command is sent
\* as EVALSHA, has the script.
Runnable(c) ==
  /\ Destination(c) # NoNode
  /\ \/ ScriptOf[c] = NoScript
     \/ ~UseScriptCache
     \/ ScriptOf[c] \in loaded[Destination(c)]

\* A slot has moved: the commands of n no longer go to the same node.
Split(n) == \E c \in Range(nodeMap[n]) : Destination(c) # Home(n)

\* What WAIT or WAITAOF may answer at the end of a pipeline.
WaitReplies ==
  IF SyncSlaves = 0 THEN {<<>>}
  ELSE {<<ErrorReply>>} \cup
       { <<IF SyncAof THEN AcksReply(1, k) ELSE IntegerReply(k)>> : k \in 0 .. SyncSlaves }

\* MULTI, a command in it, or a command by itself: one reply each.
Statuses(k) == [i \in 1 .. k |-> StatusReply]

\* What came of the commands for n when Redis ran those of the set ran.
Outcome(n, ran) ==
  [i \in 1 .. Len(nodeMap[n]) |->
     IF nodeMap[n][i] \in ran THEN nodeMap[n][i] ELSE Null]

\* Redis runs the pipeline outside a transaction; any command may fail.
RedisPipeline(n) ==
  \E ran \in SUBSET {c \in Range(nodeMap[n]) : Runnable(c)}, w \in WaitReplies :
    LET items == [i \in 1 .. Len(nodeMap[n]) |->
                    IF nodeMap[n][i] \in ran THEN ValueReply(nodeMap[n][i])
                                             ELSE ErrorReply]
    IN  /\ log' = log \o Outcome(n, ran)
        /\ reply' = [reply EXCEPT ![n] = items \o w]

\* What EXEC answers when Redis runs a transaction that leaves items, or
\* discards it (nil or error).
ExecReplies(n, items) ==
  IF Home(n) = NoNode THEN {ErrorReply}
  ELSE {ArrayReply(items), NilReply, ErrorReply}

\* Redis runs the transaction as a whole or not at all.  A script that EVALSHA
\* does not find leaves no value in the array.
RedisTransaction(n) ==
  LET all == {c \in Range(nodeMap[n]) : Runnable(c)}
  IN  \E r \in ExecReplies(n, Outcome(n, all)), w \in WaitReplies :
        /\ log' = log \o Outcome(n, IF r.tag = "array" THEN all ELSE {})
        /\ reply' = [reply EXCEPT ![n] = Statuses(Len(nodeMap[n]) + 1) \o <<r>> \o w]

\* Only the commands that reach the node of the MULTI are in the transaction;
\* the others run, or fail, elsewhere on their own.
RedisSplit(n) ==
  LET cmds  == nodeMap[n]
      all   == {c \in Range(cmds) : Runnable(c)}
      here  == {i \in DOMAIN cmds : Destination(cmds[i]) = Home(n)}
      stray == {cmds[i] : i \in DOMAIN cmds \ here}
  IN  \E at \in [1 .. Cardinality(here) -> here] :
        /\ \A i, j \in DOMAIN at : i < j => at[i] < at[j]
        /\ \E r \in ExecReplies(n, [i \in 1 .. Cardinality(here) |-> Outcome(n, all)[at[i]]]),
              ran \in SUBSET (all \cap stray), w \in WaitReplies :
             /\ log' = log \o Outcome(n, ran \cup IF r.tag = "array" THEN all \ stray
                                                                   ELSE {})
             /\ reply' = [reply EXCEPT ![n] = Statuses(Len(cmds) + 1) \o <<r>> \o w]

RedisRun(n) ==
  /\ task[n] = "sent"
  /\ task' = [task EXCEPT ![n] = "replied"]
  /\ IF ~Atomic THEN RedisPipeline(n)
     ELSE IF Split(n) THEN RedisSplit(n)
     ELSE RedisTransaction(n)
  /\ UNCHANGED <<callVars, batchVars, execVars, target, done, cached, route,
                 events, changes, loaded, restarts>>

\* The connection is lost before or after the pipeline ran: every result of
\* try_all is an error.
ConnectionLost(n) ==
  /\ task[n] = "sent"
  /\ task' = [task EXCEPT ![n] = "replied"]
  /\ \E ran \in {{}, {c \in Range(nodeMap[n]) : Runnable(c)}} :
       log' = log \o Outcome(n, ran)
  /\ reply' = [reply EXCEPT ![n] =
       [i \in 1 .. Len(nodeMap[n]) + (IF Atomic THEN 2 ELSE 0)
                                   + (IF SyncSlaves > 0 THEN 1 ELSE 0) |-> ErrorReply]]
  /\ UNCHANGED <<callVars, batchVars, execVars, target, done, cached, route,
                 events, changes, loaded, restarts>>

\* What the i-th command's sender is given, and whether the task succeeds.
TaskAnswer(results, i) ==
  IF SkipResult THEN Ok(Null)
  ELSE IF Atomic THEN ExecAnswer(SE!Last(results), i)
  ELSE Ok(unwrap_or_null(results[i]))

TaskIndexed(results, indexes) ==
  IF SkipResult THEN <<>>
  ELSE IF Atomic THEN collect_exec_indexed(SE!Last(results), indexes)
  ELSE [i \in 1 .. Len(indexes) |->
          [index |-> indexes[i], val |-> unwrap_or_null(results[i])]]

\* Mutant: the WAIT is taken from the front.
PopWaitFront(results) == IF SyncSlaves > 0 THEN Tail(results) ELSE results

\* The results without that of the trailing WAIT.
PopWait(results) == IF SyncSlaves > 0 THEN SE!Front(results) ELSE results

\* The results are in: pop the WAIT, hand every sender its answer, return.
TaskFinish(n) ==
  /\ task[n] = "replied"
  /\ LET cmds    == nodeMap[n]
         results == PopWait(reply[n])
         good    == SkipResult \/ ~Atomic \/ IsExecReply(SE!Last(results))
     IN  /\ answer' = [c \in Commands |->
              IF c \in Range(cmds)
              THEN TaskAnswer(results, CHOOSE i \in DOMAIN cmds : cmds[i] = c)
              ELSE answer[c]]
         /\ task' = [task EXCEPT ![n] = IF good THEN "ok" ELSE "err"]
         /\ done' = [done EXCEPT ![n] =
              [synced  |-> IF SyncSlaves > 0 THEN extract_synced_slaves(SE!Last(reply[n]))
                                             ELSE 0,
               indexed |-> TaskIndexed(results, [i \in DOMAIN cmds |-> idx[cmds[i]]])]]
  /\ reply' = [reply EXCEPT ![n] = <<>>]
  /\ UNCHANGED <<pc, idx, before, batchVars, execVars, target, redisVars>>

\* execute_async has returned an error and dropped the JoinSet: an unfinished
\* task is aborted at its next await, unless it gets to its end first.
TaskAborted(n) ==
  /\ phase = "err"
  /\ task[n] \in {"spawned", "sent", "replied"}
  /\ task' = [task EXCEPT ![n] = "dropped"]
  /\ answer' = Close(Range(nodeMap[n]))
  /\ UNCHANGED <<pc, idx, before, batchVars, execVars, target, reply, done,
                 redisVars>>

-----------------------------------------------------------------------------
(* The join loop of execute_async.                                           *)

Join(n) ==
  /\ phase = "joining"
  /\ task[n] = "ok"
  /\ task' = [task EXCEPT ![n] = "joined"]
  /\ synced' = synced + done[n].synced
  /\ allIndexed' = allIndexed \o done[n].indexed
  /\ done' = [done EXCEPT ![n] = NoOutput]
  /\ UNCHANGED <<callVars, batchVars, phase, discard, pending, attempt, nodeMap,
                 unloaded, toLoad, responses, target, reply, redisVars>>

\* The first failed task ends execute_async.
JoinFail(n) ==
  /\ phase = "joining"
  /\ task[n] = "err"
  /\ phase' = "err"
  /\ UNCHANGED <<callVars, batchVars, discard, pending, attempt, nodeMap, unloaded,
                 toLoad, allIndexed, synced, responses, taskVars, redisVars>>

\* Mutant: one join_next instead of the loop.
ReturnEarly ==
  /\ phase = "joining"
  /\ \E n \in Nodes : task[n] = "joined"
  /\ phase' = "ok"
  /\ responses' = sort_by_index(allIndexed)
  /\ allIndexed' = <<>>
  /\ UNCHANGED <<callVars, batchVars, discard, pending, attempt, nodeMap, unloaded,
                 toLoad, synced, taskVars, redisVars>>

Return ==
  /\ phase = "joining"
  /\ \A n \in Nodes : task[n] \in {"none", "joined"}
  /\ phase' = "ok"
  /\ responses' = sort_by_index(allIndexed)
  /\ allIndexed' = <<>>
  /\ UNCHANGED <<callVars, batchVars, discard, pending, attempt, nodeMap, unloaded,
                 toLoad, synced, taskVars, redisVars>>

\* What execute_async hands to its caller.
BatchResult == [responses |-> responses, synced_slaves |-> synced]

-----------------------------------------------------------------------------
(* The cluster.                                                              *)

\* A slot moves or loses its node; fred tells the on_cluster_change listener.
ClusterChange(s, n) ==
  /\ changes < MaxClusterChanges
  /\ route[s] # n
  /\ route' = [route EXCEPT ![s] = n]
  /\ changes' = changes + 1
  /\ events' = events \cup {NoNode}
  /\ UNCHANGED <<callVars, batchVars, execVars, taskVars, cached, loaded, log,
                 restarts>>

\* Node n restarts without its scripts; fred will report its reconnection.
Restart(n) ==
  /\ restarts < MaxRestarts
  /\ restarts' = restarts + 1
  /\ loaded' = [loaded EXCEPT ![n] = {}]
  /\ events' = events \cup {n}
  /\ UNCHANGED <<callVars, batchVars, execVars, taskVars, cached, route, changes,
                 log>>

\* The listeners: a topology change clears the whole cache, a reconnection
\* the entry of the node.
Listener(e) ==
  /\ e \in events
  /\ events' = events \ {e}
  /\ cached' = [n \in Nodes |-> IF e \in {NoNode, n} THEN {} ELSE cached[n]]
  /\ UNCHANGED <<callVars, batchVars, execVars, taskVars, route, changes, loaded,
                 log, restarts>>

-----------------------------------------------------------------------------
Call(c) == FetchIndex(c) \/ Enqueue(c)

Executor ==
  \/ ExecuteTake \/ ResolveHit \/ ResolveMiss \/ ResolveDone
  \/ LoadDone \/ LoadFail \/ Spawn \/ Return
  \/ \E n \in Nodes : LoadSkip(n) \/ LoadSend(n) \/ Join(n) \/ JoinFail(n)

Task(n) ==
  \/ TaskSend(n) \/ TaskBuildFail(n) \/ RedisRun(n) \/ ConnectionLost(n)
  \/ TaskFinish(n) \/ TaskAborted(n)

Cluster ==
  \/ \E s \in Slots, n \in Nodes \cup {NoNode} : ClusterChange(s, n)
  \/ \E n \in Nodes : Restart(n)
  \/ \E e \in Nodes \cup {NoNode} : Listener(e)

Next ==
  \/ \E c \in Commands : Call(c)
  \/ DiscardClaim \/ DiscardDrain \/ ExecuteClaim
  \/ Executor
  \/ \E n \in Nodes : Task(n)
  \/ Cluster

Spec == Init /\ [][Next]_vars

(* A tokio task that can run is polled, and fred bounds the wait for a reply *)
(* (its command timeout), so the executor and the node tasks keep going.     *)
(* Nobody promises to call execute_async or discard_async.                   *)
FairSpec ==
  /\ Spec
  /\ WF_vars(Executor)
  /\ WF_vars(DiscardDrain)
  /\ \A c \in Commands : WF_vars(Enqueue(c))
  /\ \A n \in Nodes : WF_vars(Task(n))

-----------------------------------------------------------------------------
Taken == Owned
Phases == {"idle", "refused", "claimed", "resolving", "loading", "joining",
           "ok", "err"}
TaskStates == {"none", "spawned", "sent", "replied", "ok", "err", "joined",
               "dropped"}
Indexed == [index : Nat, val : Values]

CallTypes ==
  /\ pc \in [Commands -> {"new", "indexed", "queued"}]
  /\ idx \in [Commands -> Nat]
  /\ answer \in [Commands -> Answers]
  /\ before \in [Commands -> SUBSET Commands]

BatchTypes ==
  /\ executed \in BOOLEAN
  /\ next_index \in Nat
  /\ queue \in Seq(Commands)

ExecTypes ==
  /\ phase \in Phases
  /\ discard \in {"idle", "refused", "claimed", "ok"}
  /\ pending \in Seq(Commands)
  /\ attempt \in 0 .. RetryAttempts
  /\ nodeMap \in [Nodes -> Seq(Commands)]
  /\ unloaded \subseteq Nodes
  /\ toLoad \subseteq Nodes \X Scripts
  /\ allIndexed \in Seq(Indexed)
  /\ synced \in Nat

TaskTypes ==
  /\ task \in [Nodes -> TaskStates]
  /\ target \in [Nodes -> {"none", "master", "replica"}]
  /\ reply \in [Nodes -> Seq(Replies)]
  /\ done \in [Nodes -> [synced : Nat, indexed : Seq(Indexed)]]

RedisTypes ==
  /\ cached \in [Nodes -> SUBSET Scripts]
  /\ route \in [Slots -> Nodes \cup {NoNode}]
  /\ events \subseteq Nodes \cup {NoNode}
  /\ changes \in 0 .. MaxClusterChanges
  /\ loaded \in [Nodes -> SUBSET Scripts]
  /\ log \in Seq(Values)
  /\ restarts \in 0 .. MaxRestarts

\* Every variable keeps its type (ResponsesAgree says what responses is).
TypeOK == CallTypes /\ BatchTypes /\ ExecTypes /\ TaskTypes /\ RedisTypes

\* No caller is orphaned: a queued command without an answer is still in the
\* queue, or is owned by a step of execute_async or a task that has yet to
\* answer it.  Every early return of execute_in_memory and every task that
\* ends must have answered or dropped the senders it owned.
NoOrphan ==
  \A c \in Commands :
    pc[c] = "queued" /\ answer[c] = NoAnswer =>
      \/ c \in Range(queue)
      \/ phase = "resolving" /\ c \in Range(pending)
      \/ \E n \in Nodes :
           /\ c \in Range(nodeMap[n])
           /\ \/ phase \in {"resolving", "loading"}
              \/ task[n] \in {"spawned", "sent", "replied"}

\* A caller is never handed the reply of another command, and a reply only of
\* a command that Redis ran: the zips of execute_in_memory stay aligned
\* through the WAIT, the MULTI and the EXEC around the commands.  A transaction
\* loses this when a slot moves.
ReplyIsOwn ==
  \A c \in Commands :
    answer[c].val # Null => answer[c].val = c /\ c \in Range(log)

\* When execute_async returns Ok, its response list is, in index order, what
\* the callers it answered with Ok were told, whichever node answered first.
ResponsesAgree ==
  phase = "ok" =>
    LET told == {c \in Taken : ~SkipResult /\ answer[c].tag = "ok"}
        n    == Cardinality(told)
    IN  \E s \in [1 .. n -> told] :
          /\ \A i, j \in 1 .. n : i < j => idx[s[i]] < idx[s[j]]
          /\ BatchResult.responses = [i \in 1 .. n |-> answer[s[i]].val]

\* A call that began after another command was queued gets a larger index,
\* and its command runs after the other one when both go to the same node.
AddOrderKept ==
  \A c \in Commands : \A d \in before[c] :
    /\ idx[d] < idx[c]
    /\ \A n \in Nodes : \A i, j \in DOMAIN log :
         log[i] = c /\ log[j] = d /\ {c, d} \subseteq Range(nodeMap[n]) => j < i

\* When execute_async returns Ok, every command it took has been answered; no
\* sender was dropped on the way.
OkMeansAllAnswered ==
  phase = "ok" => \A c \in Taken : answer[c].tag \in {"ok", "failed"}

\* IN_MEMORY_ATOMIC: the callers of one node's transaction are all told Ok or
\* are all told that it failed.
AtomicAllOrNothing ==
  Atomic =>
    \A n \in Nodes : task[n] \in {"ok", "joined"} =>
      \A c, d \in Range(nodeMap[n]) : answer[c].tag = answer[d].tag

\* A batch that discard_async closed never sends a command, and none of its
\* callers is told anything else than that it was discarded.
DiscardIsFinal ==
  discard = "ok" =>
    log = <<>> /\ \A c \in Commands : answer[c].tag \in {"none", "discarded"}

\* The queue is drained at most once: after execute_async or discard_async
\* has emptied it, whatever a late caller adds stays there.
QueueDrainedOnce ==
  [][ ~(Range(queue) \subseteq Range(queue'))
        => Taken = {} /\ \A c \in Commands : answer[c] = NoAnswer ]_vars

\* Every command that execute_async took is eventually answered, whichever
\* node fails, is aborted, or loses its connection.
TakenAnswered ==
  \A c \in Commands : (c \in Taken) ~> (answer[c] # NoAnswer)

\* What the comment on register_reconnect_listener says: EVALSHA does not miss a
\* script.  Once every event is delivered and no SCRIPT LOAD is under way,
\* a node has the scripts that the cache says it has.
ScriptCacheTruthful ==
  events = {} /\ toLoad = {} => \A n \in Nodes : cached[n] \subseteq loaded[n]

-----------------------------------------------------------------------------
(* The contract this batch implements.                                       *)

ContractState ==
  CASE phase \in {"resolving", "loading", "joining"} -> "executing"
    [] phase = "claimed"                            -> "claimed"
    [] phase = "ok"                                 -> "ok"
    [] phase = "err"                                -> "failed"
    [] OTHER ->
         CASE discard = "claimed" -> "discarding"
           [] discard = "ok"      -> "discarded"
           [] OTHER               -> "open"

Contract == INSTANCE BatchContract WITH
  state <- ContractState,
  added <- {c \in Commands : pc[c] = "queued"},
  taken <- Taken,
  ran   <- Range(log) \ {Null},
  told  <- answer,
  moved <- Atomic /\ changes > 0

\* CommandBatchService, with its tasks, retries, script loading and topology
\* changes, does nothing that the contract of a batch does not allow: a batch
\* is closed once, what it took is answered once and truthfully, and Ok is
\* returned when all of it is answered.
ImplementsContract == Contract!Spec
=============================================================================
