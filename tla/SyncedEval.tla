----------------------------- MODULE SyncedEval ------------------------------
(***************************************************************************)
(* Lua scripts through CommandAsyncService (command_async_service.rs):     *)
(* concurrent callers of synced_eval, which runs a script and waits for    *)
(* its replication, and of eval_async, which sends EVALSHA, loads a script *)
(* the node does not have and tries again.  They share the result of the   *)
(* WAIT probe, the replica counts of SLAVE_INFO_CACHE and the flag         *)
(* EVAL_SHA_RO_SUPPORTED.                                                  *)
(*                                                                         *)
(* synced_eval puts its script in a CommandBatchService of its own: a      *)
(* spawned task adds it while the caller executes the batch.  That batch   *)
(* holds one command in the plain in-memory mode, so what InMemoryBatch    *)
(* does step by step is one pipeline here.  Redis and fred are external:   *)
(* they lose replies, and fred repeats a command while it has attempts     *)
(* left; slots move, nodes restart without their scripts, replicas come    *)
(* and go.  Wherever a script is sent, redirections take it to the node    *)
(* that owns the slot of its first key; commands without a key stay where  *)
(* they are sent.                                                          *)
(***************************************************************************)
EXTENDS Integers, FiniteSets, Functions, Maps

CONSTANTS
  Calls,
  NoRetry,         \* the calls of a ..._no_retry variant
  Kinds,           \* what is called: synced_eval in a SyncMode, eval_read_async
  Scripts, ScriptOf,
  Nodes, NoNode,
  Slots, SlotOf,   \* the slot of a call's first key
  Anywhere,        \* the event of a topology change
  Knows,           \* the commands among Optional that each server knows
  AofNodes,        \* the servers with an append-only file
  Standalone,      \* config.mode
  UseScriptCache,  \* config.use_script_cache
  CheckSynced,     \* config.check_lock_synced_slaves
  CommandAttempts, \* config.max_command_attempts
  Replicas,        \* the replicas of each server at first
  MaxSlaves,       \* bound on the replicas of a node
  MaxFaults        \* bound on lost replies, restarts, moves of a slot and
                   \* changes of a replica count

SyncModes == {"Auto", "Wait", "WaitAof"}
Optional == {"WAIT", "WAITAOF", "EVALSHA_RO"}

ConfigAssumption ==
  /\ NoRetry \subseteq Calls
  /\ Kinds \subseteq SyncModes \cup {"Read"}
  /\ ScriptOf \in [Calls -> Scripts]
  /\ SlotOf \in [Calls -> Slots]
  /\ NoNode \notin Nodes /\ Anywhere \notin Nodes
  /\ Knows \in [Nodes -> SUBSET Optional]
  /\ AofNodes \subseteq Nodes
  /\ {Standalone, UseScriptCache, CheckSynced} \subseteq BOOLEAN
  /\ CommandAttempts \in Nat \ {0}
  /\ {MaxSlaves, MaxFaults} \subseteq Nat
  /\ Replicas \in [Nodes -> 0 .. MaxSlaves]

VARIABLES
  pc, kind, result,
  left,          \* the attempts fred has left for the script of a call
  info,          \* the replication info a call holds
  handle,        \* the task that adds the script to the batch
  synced,        \* synced_slaves of the batch's result
  at,            \* the node that the options of a call name: cluster_node
  entry,         \* the node that its batch found for the slot
  \* shared by all calls
  prober,        \* the calls that hold the mutex of wait_support
  probed, wait_support,
  slaveInfo,     \* SLAVE_INFO_CACHE
  evalShaRo,     \* EVAL_SHA_RO_SUPPORTED
  cached,        \* SCRIPT_SHA_CACHE
  \* fred and Redis
  home,          \* the node that owns a slot
  route,         \* fred's routing table: cached_cluster_state
  events, slaves, loaded, restarts, losses, changes,
  \* what happened
  runs,          \* how often Redis ran the script of a call
  acked,         \* the replicas that confirmed a run of it
  astray,        \* the calls whose WAIT went to another node than their script
  seen           \* the restarts of its node when its script was loaded

placeVars == <<at, entry>>
callVars  == <<pc, kind, result, left, info, handle, synced, placeVars>>
probeVars == <<prober, probed, wait_support>>
cacheVars == <<slaveInfo, evalShaRo, cached>>
routeVars == <<home, route>>
redisVars == <<routeVars, events, slaves, loaded, restarts, losses, changes>>
histVars  == <<runs, acked, astray, seen>>
vars == <<callVars, probeVars, cacheVars, redisVars, histVars>>

Infos == [slaves : 0 .. MaxSlaves, aof : BOOLEAN]
NoInfo == [slaves |-> 0, aof |-> FALSE]

\* max_attempts of a command that eval_async sends.
Attempts(c) == IF c \in NoRetry THEN 1 ELSE CommandAttempts

Init ==
  /\ pc = [c \in Calls |-> "new"]
  /\ kind = [c \in Calls |-> "none"]
  /\ result = [c \in Calls |-> "none"]
  /\ left = [c \in Calls |-> Attempts(c)]
  /\ info = [c \in Calls |-> NoInfo]
  /\ handle = [c \in Calls |-> "none"]
  /\ synced = [c \in Calls |-> 0]
  /\ at = [c \in Calls |-> NoNode]
  /\ entry = [c \in Calls |-> NoNode]
  /\ prober = {}
  /\ probed = FALSE
  /\ wait_support = {}
  /\ slaveInfo = <<>>
  /\ evalShaRo = TRUE
  /\ cached = [n \in Nodes |-> {}]
  /\ events = {}
  /\ home \in [Slots -> Nodes]
  /\ route \in [Slots -> Nodes \cup {NoNode}]
  /\ \A s \in Slots : route[s] = home[s] \/ (route[s] = NoNode /\ ~Standalone)
  /\ slaves = Replicas
  /\ loaded = [n \in Nodes |-> {}]
  /\ restarts = [n \in Nodes |-> 0]
  /\ losses = 0
  /\ changes = 0
  /\ runs = [c \in Calls |-> 0]
  /\ acked = [c \in Calls |-> 0]
  /\ astray = {}
  /\ seen = [c \in Calls |-> 0]

Goto(c, to) == pc' = [pc EXCEPT ![c] = to]

\* synced_eval and eval_async begin: get_write_entry names the node of the slot,
\* if the routing table has one.
Enter(c, to) ==
  /\ Goto(c, to)
  /\ at' = [at EXCEPT ![c] = IF to \in {"probe", "eval"} THEN route[SlotOf[c]] ELSE @]
  /\ UNCHANGED entry

\* Mutant: the options are passed on without the node.
ReachedUnpinned(c) == Nodes
\* Where a command without a key goes: to the node in the options, or to one that
\* fred picks.
Reached(c) == IF at[c] = NoNode THEN Nodes ELSE {at[c]}

Home(c) == home[SlotOf[c]]

Return(c, r) == Goto(c, "done") /\ result' = [result EXCEPT ![c] = r]

Fault == losses + SumFunction(restarts) + changes < MaxFaults

\* fred gives up on a command: no reply came.
Lose == Fault /\ losses' = losses + 1

RedisKeeps == UNCHANGED <<routeVars, events, slaves, restarts, changes>>

-----------------------------------------------------------------------------
(* synced_eval up to the batch                                               *)

\* A standalone server needs no WAIT.
Start(c) ==
  /\ pc[c] = "new"
  /\ \E k \in Kinds :
       /\ kind' = [kind EXCEPT ![c] = k]
       /\ Enter(c, IF k = "Read" \/ Standalone THEN "eval" ELSE "probe")
  /\ UNCHANGED <<result, left, info, handle, synced, probeVars, cacheVars,
                 redisVars, histVars>>

\* The SyncMode and what the server knows decide whether to synchronise.
Skip(c, known) ==
  CASE kind[c] = "Auto"    -> known = {}
    [] kind[c] = "Wait"    -> "WAIT" \notin known
    [] kind[c] = "WaitAof" -> "WAITAOF" \notin known

Proceed(c, known) == Enter(c, IF Skip(c, known) THEN "eval" ELSE "replicas")

\* The probe's result is there already.
ProbeKnown(c) ==
  /\ pc[c] = "probe"
  /\ prober = {}
  /\ probed
  /\ Proceed(c, wait_support)
  /\ UNCHANGED <<kind, result, left, info, handle, synced, probeVars, cacheVars,
                 redisVars, histVars>>

\* The first caller keeps the mutex while it probes.
ProbeStart(c) ==
  /\ pc[c] = "probe"
  /\ prober = {}
  /\ ~probed
  /\ prober' = {c}
  /\ Goto(c, "probing")
  /\ UNCHANGED <<kind, result, left, info, handle, synced, placeVars, probed,
                 wait_support, cacheVars, redisVars, histVars>>

\* What one node knows is taken to hold for all.
ProbeDone(c) ==
  /\ pc[c] = "probing"
  /\ prober' = {}
  /\ probed' = TRUE
  /\ \E n \in Reached(c) : wait_support' = Knows[n] \cap {"WAIT", "WAITAOF"}
  /\ Proceed(c, wait_support')
  /\ UNCHANGED <<kind, result, left, info, handle, synced, cacheVars, redisVars,
                 histVars>>

\* Mutant: the mutex stays locked.
ProbeFailLocked(c) ==
  /\ pc[c] = "probing"
  /\ Lose
  /\ Return(c, "lost")
  /\ RedisKeeps
  /\ UNCHANGED <<kind, left, info, handle, synced, placeVars, prober, probed,
                 wait_support, cacheVars, loaded, histVars>>

\* Any other error than "unknown command" is returned; nothing is recorded.
ProbeFail(c) ==
  /\ pc[c] = "probing"
  /\ Lose
  /\ prober' = {}
  /\ Return(c, "lost")
  /\ RedisKeeps
  /\ UNCHANGED <<kind, left, info, handle, synced, placeVars, probed, wait_support,
                 cacheVars, loaded, histVars>>

Available(i) == IF "WAIT" \in wait_support THEN i.slaves ELSE 0

UseAof(c, i) ==
  "WAITAOF" \in wait_support /\ i.aof /\ kind[c] \in {"Auto", "WaitAof"}

\* Nothing to wait for: no batch.
Choose(c, i) ==
  /\ info' = [info EXCEPT ![c] = i]
  /\ Enter(c, IF Available(i) = 0 /\ ~UseAof(c, i) THEN "eval" ELSE "batch")

SlavesCached(c) ==
  /\ pc[c] = "replicas"
  /\ at[c] \in DOMAIN slaveInfo
  /\ Choose(c, slaveInfo[at[c]])
  /\ UNCHANGED <<kind, result, left, handle, synced, probeVars, cacheVars,
                 redisVars, histVars>>

\* The server answers INFO; the answer is on its way.
QueryInfo(c) ==
  /\ pc[c] = "replicas"
  /\ at[c] \notin DOMAIN slaveInfo
  /\ Goto(c, "informed")
  /\ \E n \in Reached(c) :
       info' = [info EXCEPT ![c] = [slaves |-> slaves[n], aof |-> n \in AofNodes]]
  /\ UNCHANGED <<kind, result, left, handle, synced, placeVars, probeVars,
                 cacheVars, redisVars, histVars>>

\* set_slave_info, whatever happened since the server answered.
CacheInfo(c) ==
  /\ pc[c] = "informed"
  /\ slaveInfo' = IF at[c] = NoNode THEN slaveInfo
                  ELSE Insert(slaveInfo, at[c], info[c])
  /\ Choose(c, info[c])
  /\ UNCHANGED <<kind, result, left, handle, synced, probeVars, evalShaRo, cached,
                 redisVars, histVars>>

QueryFail(c) ==
  /\ pc[c] = "informed"
  /\ Lose
  /\ Return(c, "lost")
  /\ RedisKeeps
  /\ UNCHANGED <<kind, left, info, handle, synced, placeVars, probeVars, cacheVars,
                 loaded, histVars>>

-----------------------------------------------------------------------------
(* The batch of synced_eval                                                  *)

\* tokio::spawn of the task that adds the script; execute_async follows.  The
\* pipeline it sends has the attempts of the configuration.
SpawnAdd(c) ==
  /\ pc[c] = "batch"
  /\ Goto(c, "executing")
  /\ handle' = [handle EXCEPT ![c] = "spawned"]
  /\ left' = [left EXCEPT ![c] = CommandAttempts]
  /\ UNCHANGED <<kind, result, info, synced, placeVars, probeVars, cacheVars,
                 redisVars, histVars>>

\* The spawned task puts the script in the queue, sooner or later.
Add(c) ==
  /\ handle[c] = "spawned"
  /\ handle' = [handle EXCEPT ![c] = "queued"]
  /\ UNCHANGED <<pc, kind, result, left, info, synced, placeVars, probeVars,
                 cacheVars, redisVars, histVars>>

\* execute_async takes the queue and looks up the node; an empty batch is executed
\* at once.
Take(c) ==
  /\ pc[c] = "executing"
  /\ IF handle[c] = "queued"
     THEN /\ Goto(c, "sending")
          /\ handle' = [handle EXCEPT ![c] = "taken"]
          /\ entry' = [entry EXCEPT ![c] = route[SlotOf[c]]]
     ELSE Goto(c, "checking") /\ UNCHANGED <<handle, entry>>
  /\ UNCHANGED <<kind, result, left, info, synced, at, probeVars, cacheVars,
                 redisVars, histVars>>

\* resolve_entry finds the node that was missing.
Resolve(c) ==
  /\ pc[c] = "sending"
  /\ entry[c] = NoNode /\ route[SlotOf[c]] # NoNode
  /\ entry' = [entry EXCEPT ![c] = route[SlotOf[c]]]
  /\ UNCHANGED <<pc, kind, result, left, info, handle, synced, at, probeVars,
                 cacheVars, redisVars, histVars>>

NeedsLoad(c) == UseScriptCache /\ ScriptOf[c] \notin cached[entry[c]]

\* load_scripts (its races are in InMemoryBatch).
BatchLoad(c) ==
  /\ pc[c] = "sending"
  /\ entry[c] # NoNode /\ NeedsLoad(c)
  /\ loaded' = [loaded EXCEPT ![entry[c]] = @ \cup {ScriptOf[c]}]
  /\ cached' = [cached EXCEPT ![entry[c]] = @ \cup {ScriptOf[c]}]
  /\ UNCHANGED <<routeVars, events, slaves, restarts, losses, changes, callVars,
                 probeVars, slaveInfo, evalShaRo, histVars>>

\* execute_async fails, without a node or without the script: the task is aborted,
\* the error returned.
BatchFail(c) ==
  /\ pc[c] = "sending"
  /\ \/ entry[c] = NoNode /\ UNCHANGED losses
     \/ entry[c] # NoNode /\ NeedsLoad(c) /\ Lose
  /\ handle' = [handle EXCEPT ![c] = "aborted"]
  /\ Return(c, "lost")
  /\ RedisKeeps
  /\ UNCHANGED <<kind, left, info, synced, placeVars, probeVars, cacheVars, loaded,
                 histVars>>

\* With EVAL, or a script it has, the owner of the slot runs the script.
HasScript(c) == ~UseScriptCache \/ ScriptOf[c] \in loaded[Home(c)]

\* The command at the end of the pipeline: sync_slaves is the number of replicas.
Trailer(c) ==
  IF Available(info[c]) = 0 THEN "none"
  ELSE IF UseAof(c, info[c]) THEN "WAITAOF" ELSE "WAIT"

\* The pipeline runs: a failed EVALSHA is a nil reply, and WAIT counts the
\* replicas that have got as far, where the batch sent it: an unknown command
\* counts none.
BatchRun(c) ==
  /\ pc[c] = "sending"
  /\ entry[c] # NoNode /\ ~NeedsLoad(c)
  /\ handle' = [handle EXCEPT ![c] = IF HasScript(c) THEN "ok" ELSE "null"]
  /\ runs' = [runs EXCEPT ![c] = IF HasScript(c) THEN @ + 1 ELSE @]
  /\ \E k \in 0 .. slaves[entry[c]] :
       /\ synced' =
            [synced EXCEPT ![c] = IF Trailer(c) \in Knows[entry[c]] THEN k ELSE 0]
       /\ acked' =
            [acked EXCEPT ![c] =
               IF HasScript(c) /\ Home(c) = entry[c] THEN synced'[c] ELSE 0]
  /\ astray' = IF Home(c) = entry[c] THEN astray ELSE astray \cup {c}
  /\ Goto(c, "checking")
  /\ UNCHANGED <<kind, result, left, info, placeVars, probeVars, cacheVars,
                 redisVars, seen>>

\* The connection is lost before or after the script ran; fred repeats the
\* pipeline, or every reply becomes nil.
BatchLost(c) ==
  /\ pc[c] = "sending"
  /\ entry[c] # NoNode /\ ~NeedsLoad(c)
  /\ Lose
  /\ \E ran \in {0} \cup (IF HasScript(c) THEN {1} ELSE {}) :
       runs' = [runs EXCEPT ![c] = @ + ran]
  /\ IF left[c] > 1
     THEN left' = [left EXCEPT ![c] = @ - 1] /\ UNCHANGED <<pc, handle>>
     ELSE /\ Goto(c, "checking")
          /\ handle' = [handle EXCEPT ![c] = "null"]
          /\ UNCHANGED left
  /\ RedisKeeps
  /\ UNCHANGED <<kind, result, info, synced, placeVars, probeVars, cacheVars,
                 loaded, acked, astray, seen>>

\* Mutant: the number of replicas is compared, not the number that answered.
UnsyncedByCount(c) == CheckSynced /\ Available(info[c]) = 0
Unsynced(c) == CheckSynced /\ synced[c] = 0 /\ Available(info[c]) > 0

\* A count that is not the expected one invalidates the cache entry; none at all
\* is an error.  Otherwise the task is awaited.
Check(c) ==
  /\ pc[c] = "checking"
  /\ slaveInfo' = IF synced[c] # Available(info[c])
                  THEN Restrict(slaveInfo, DOMAIN slaveInfo \ {at[c]})
                  ELSE slaveInfo
  /\ IF Unsynced(c) THEN Return(c, "unsynced")
     ELSE Goto(c, "waiting") /\ UNCHANGED result
  /\ UNCHANGED <<kind, left, info, handle, synced, placeVars, probeVars, evalShaRo,
                 cached, redisVars, histVars>>

AwaitAdd(c) ==
  /\ pc[c] = "waiting"
  /\ handle[c] \in {"ok", "null"}
  /\ Return(c, handle[c])
  /\ UNCHANGED <<kind, left, info, handle, synced, placeVars, probeVars, cacheVars,
                 redisVars, histVars>>

-----------------------------------------------------------------------------
(* eval_async                                                                *)

Evaluating(c) == pc[c] \in {"eval", "retry"}

\* The nodes that see the script of a call.
Hops(c) == {IF at[c] = NoNode THEN route[SlotOf[c]] ELSE at[c], Home(c)} \ {NoNode}

\* EVALSHA_RO goes to a server that does not know it.
Unknown(c) ==
  /\ UseScriptCache /\ kind[c] = "Read" /\ evalShaRo
  /\ \E n \in Hops(c) : "EVALSHA_RO" \notin Knows[n]

\* execute of EvalShaRo: the flag is cleared and EVALSHA follows.
EvalUnknown(c) ==
  /\ Evaluating(c)
  /\ Unknown(c)
  /\ evalShaRo' = FALSE
  /\ left' = [left EXCEPT ![c] = Attempts(c)]
  /\ UNCHANGED <<pc, kind, result, info, handle, synced, placeVars, probeVars,
                 slaveInfo, cached, redisVars, histVars>>

EvalRun(c) ==
  /\ Evaluating(c)
  /\ ~Unknown(c)
  /\ HasScript(c)
  /\ runs' = [runs EXCEPT ![c] = @ + 1]
  /\ Return(c, "ok")
  /\ UNCHANGED <<kind, left, info, handle, synced, placeVars, probeVars, cacheVars,
                 redisVars, acked, astray, seen>>

\* NOSCRIPT: load it and try once more.
EvalMissing(c) ==
  /\ Evaluating(c)
  /\ ~Unknown(c)
  /\ ~HasScript(c)
  /\ IF pc[c] = "eval" THEN Goto(c, "load") /\ UNCHANGED result
     ELSE Return(c, "noscript")
  /\ UNCHANGED <<kind, left, info, handle, synced, placeVars, probeVars, cacheVars,
                 redisVars, histVars>>

\* Mutant: a lost reply does not use up an attempt.
EvalLostAgain(c) ==
  /\ Evaluating(c)
  /\ Lose
  /\ \E ran \in {0} \cup (IF HasScript(c) /\ ~Unknown(c) THEN {1} ELSE {}) :
       runs' = [runs EXCEPT ![c] = @ + ran]
  /\ RedisKeeps
  /\ UNCHANGED <<pc, kind, result, left, info, handle, synced, placeVars, probeVars,
                 cacheVars, loaded, acked, astray, seen>>

\* No reply comes: the script may have run.  fred repeats the command, if it may.
EvalLost(c) ==
  /\ Evaluating(c)
  /\ Lose
  /\ \E ran \in {0} \cup (IF HasScript(c) /\ ~Unknown(c) THEN {1} ELSE {}) :
       runs' = [runs EXCEPT ![c] = @ + ran]
  /\ IF left[c] > 1
     THEN left' = [left EXCEPT ![c] = @ - 1] /\ UNCHANGED <<pc, result>>
     ELSE Return(c, "lost") /\ UNCHANGED left
  /\ RedisKeeps
  /\ UNCHANGED <<kind, info, handle, synced, placeVars, probeVars, cacheVars,
                 loaded, acked, astray, seen>>

\* SCRIPT LOAD has no key: a slot without a node leaves it to chance.
LoadScript(c) ==
  /\ pc[c] = "load"
  /\ \E n \in Reached(c) :
       /\ loaded' = [loaded EXCEPT ![n] = @ \cup {ScriptOf[c]}]
       /\ seen' = [seen EXCEPT ![c] = restarts[n]]
  /\ left' = [left EXCEPT ![c] = Attempts(c)]
  /\ Goto(c, "retry")
  /\ RedisKeeps
  /\ UNCHANGED <<kind, result, info, handle, synced, placeVars, probeVars,
                 cacheVars, losses, runs, acked, astray>>

LoadLost(c) ==
  /\ pc[c] = "load"
  /\ Lose
  /\ Return(c, "lost")
  /\ RedisKeeps
  /\ UNCHANGED <<kind, left, info, handle, synced, placeVars, probeVars, cacheVars,
                 loaded, histVars>>

-----------------------------------------------------------------------------
(* fred and Redis                                                            *)

\* A node restarts without its scripts; fred will report its reconnection.
Restart(n) ==
  /\ Fault
  /\ restarts' = [restarts EXCEPT ![n] = @ + 1]
  /\ loaded' = [loaded EXCEPT ![n] = {}]
  /\ events' = events \cup {n}
  /\ UNCHANGED <<routeVars, slaves, losses, changes, callVars, probeVars, cacheVars,
                 histVars>>

\* Replicas come or go; that may be a topology change or pass unnoticed.
SlavesChange(n, k) ==
  /\ Fault
  /\ slaves[n] # k
  /\ changes' = changes + 1
  /\ slaves' = [slaves EXCEPT ![n] = k]
  /\ events' \in {events, events \cup {Anywhere}}
  /\ UNCHANGED <<routeVars, loaded, restarts, losses, callVars, probeVars,
                 cacheVars, histVars>>

\* A slot moves to another node; fred learns of it later.
Move(s, n) ==
  /\ ~Standalone
  /\ Fault
  /\ home[s] # n
  /\ changes' = changes + 1
  /\ home' = [home EXCEPT ![s] = n]
  /\ UNCHANGED <<route, events, slaves, loaded, restarts, losses, callVars,
                 probeVars, cacheVars, histVars>>

\* fred reads the slots anew, and reports the change.
Refresh(s) ==
  /\ route[s] # home[s]
  /\ route' = [route EXCEPT ![s] = home[s]]
  /\ events' = events \cup {Anywhere}
  /\ UNCHANGED <<home, slaves, loaded, restarts, losses, changes, callVars,
                 probeVars, cacheVars, histVars>>

\* on_cluster_change clears both caches, on_reconnect what they say of a node.
Listener(e) ==
  /\ e \in events
  /\ events' = events \ {e}
  /\ slaveInfo' = IF e = Anywhere THEN <<>>
                  ELSE Restrict(slaveInfo, DOMAIN slaveInfo \ {e})
  /\ cached' = [n \in Nodes |-> IF e \in {Anywhere, n} THEN {} ELSE cached[n]]
  /\ UNCHANGED <<callVars, probeVars, evalShaRo, routeVars, slaves, loaded,
                 restarts, losses, changes, histVars>>

-----------------------------------------------------------------------------
SyncedCall(c) ==
  \/ ProbeKnown(c) \/ ProbeStart(c) \/ ProbeDone(c) \/ ProbeFail(c)
  \/ SlavesCached(c) \/ QueryInfo(c) \/ CacheInfo(c) \/ QueryFail(c)
  \/ SpawnAdd(c) \/ Take(c) \/ Resolve(c) \/ BatchLoad(c) \/ BatchFail(c)
  \/ BatchRun(c) \/ BatchLost(c) \/ Check(c) \/ AwaitAdd(c)

EvalCall(c) ==
  \/ EvalUnknown(c) \/ EvalRun(c) \/ EvalMissing(c) \/ EvalLost(c)
  \/ LoadScript(c) \/ LoadLost(c)

Step(c) == SyncedCall(c) \/ EvalCall(c)

Next ==
  \/ \E c \in Calls : Start(c) \/ Step(c) \/ Add(c)
  \/ \E n \in Nodes : Restart(n)
  \/ \E n \in Nodes : \E k \in 0 .. MaxSlaves : SlavesChange(n, k)
  \/ \E s \in Slots : Refresh(s) \/ \E n \in Nodes : Move(s, n)
  \/ \E e \in Nodes \cup {Anywhere} : Listener(e)

Spec == Init /\ [][Next]_vars

(* A task that can run is polled, fred bounds the wait for a reply, and      *)
(* tokio's mutex is fair.                                                    *)
FairSpec ==
  /\ Spec
  /\ \A c \in Calls : WF_vars(Step(c)) /\ WF_vars(Add(c))

-----------------------------------------------------------------------------
(* Properties                                                                *)

\* Every variable keeps its type, the mutex has one owner, and a batch never
\* reports more replicas than a node can have.
TypeOK ==
  /\ pc \in [Calls -> {"new", "probe", "probing", "replicas", "informed", "batch",
                       "executing", "sending", "checking", "waiting", "eval",
                       "load", "retry", "done"}]
  /\ kind \in [Calls -> Kinds \cup {"none"}]
  /\ result \in [Calls -> {"none", "ok", "null", "lost", "noscript", "unsynced"}]
  /\ left \in [Calls -> 1 .. CommandAttempts]
  /\ info \in [Calls -> Infos]
  /\ handle \in [Calls -> {"none", "spawned", "queued", "taken", "ok", "null",
                           "aborted"}]
  /\ {synced, acked} \subseteq [Calls -> 0 .. MaxSlaves]
  /\ {at, entry} \subseteq [Calls -> Nodes \cup {NoNode}]
  /\ prober = {c \in Calls : pc[c] = "probing"}
  /\ Cardinality(prober) \leq 1
  /\ DOMAIN slaveInfo \subseteq Nodes
  /\ \A n \in DOMAIN slaveInfo : slaveInfo[n] \in Infos
  /\ wait_support \subseteq Optional
  /\ cached \in [Nodes -> SUBSET Scripts]
  /\ loaded \in [Nodes -> SUBSET Scripts]
  /\ \A c \in Calls : runs[c] \leq 1 + losses

\* Did the call put its script in a batch?
Batched(c) == handle[c] # "none"

\* evalWriteNoRetryAsync: outside a batch, a script that must not be repeated
\* runs at most once, whatever is lost, loaded and tried again.
NoRetryRunsOnce ==
  \A c \in NoRetry : ~Batched(c) => runs[c] \leq 1

\* The doc comment of eval_async: the node that gets SCRIPT LOAD is the one that
\* is tried again.  A call fails with NOSCRIPT only if the slot had no node when
\* it was looked up, the slot has moved since, or the node restarted after the
\* script was loaded.
NoscriptHasReason ==
  [][\A c \in Calls :
       result'[c] = "noscript" /\ result[c] # "noscript" =>
         \/ at[c] = NoNode
         \/ at[c] # Home(c)
         \/ restarts[at[c]] > seen[c]]_vars

\* check_lock_synced_slaves: a synced_eval that found replicas and returned the
\* value of its script has run it, and a replica has confirmed that run, however
\* stale the count it used and whatever was repeated; unless the slot moved and
\* the WAIT did not follow its script.
OkMeansAcked ==
  \A c \in Calls :
    CheckSynced /\ Batched(c) /\ c \notin astray
      /\ Available(info[c]) > 0 /\ result[c] = "ok"
      => runs[c] > 0 /\ acked[c] > 0

\* The comment in synced_eval on the spawned task: adding the script blocks until
\* execute_async has sent its result, which synced_eval then returns.
SyncedEvalReturns ==
  \A c \in Calls : (handle[c] = "spawned") ~> (pc[c] = "done")
=============================================================================
