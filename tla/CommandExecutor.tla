--------------------------- MODULE CommandExecutor ---------------------------
(***************************************************************************)
(* Commands sent one at a time: async0 of CommandAsyncService with         *)
(* RedisCommand::execute under it, and, for comparison, a plain batch of   *)
(* one command (execute_on).  The process keeps two flags, shared by all   *)
(* calls, that say whether the servers know EVALSHA_RO and SORT_RO, and a  *)
(* registry of client-side caches, from which a write evicts its key.      *)
(*                                                                         *)
(* Redis, fred and the caches behind the ClientSideCaching trait are       *)
(* external: a reply may be lost before or after the command ran, fred may *)
(* send it again, nodes are upgraded one by one, a cache fills itself with *)
(* what a read returned some time ago, and comes and goes as it likes.     *)
(***************************************************************************)
EXTENDS RedisCommands, Maps, Integers, FiniteSets, Functions

CONSTANTS
  Calls,           \* the calls of the application, each made once
  CommandOf,       \* the command of a call
  Pipelined,       \* the calls made on a plain batch
  Keys,
  Nodes,
  NodeOf,          \* the master that has a key
  Old,             \* the nodes that do not know the names of Downgrade yet
  ReadFromReplica, \* read_mode is not Master
  Instances,       \* client-side caches
  MaxLosses        \* bound on lost replies

CommandAssumption ==
  /\ \A c \in Calls :
       /\ Wellformed(CommandOf[c])
       /\ CommandOf[c].keys \in Seq(Keys) \ {<<>>}
  /\ Pipelined \subseteq Calls
  /\ NodeOf \in [Keys -> Nodes]
  /\ Old \subseteq Nodes
  /\ ReadFromReplica \in BOOLEAN
  /\ MaxLosses \in Nat

VARIABLES
  pc,          \* each call: "new", "sent", "replied", "evicting", "done"
  request,     \* the name it was sent under last
  sends,       \* how many names it was sent under
  result,      \* "none", "ok", "error" or "null"
  todo,        \* the caches its eviction has still to visit
  wrote,       \* the version a write gave its key
  unsupported, \* the names whose flag is down
  store,       \* Redis: the version of each key
  old,         \* Redis: the nodes not upgraded yet
  registered,  \* caching_instances
  cache,       \* what each cache holds: key -> version
  reading,     \* what each cache has read and not stored yet: key -> version
  losses,
  \* what happened
  late         \* the entries that were stored stale, or have been stale while
               \* their cache was not registered

callVars  == <<pc, request, sends, result, todo, wrote>>
cacheVars == <<registered, cache, reading, late>>
vars == <<callVars, unsupported, store, old, cacheVars, losses>>

Init ==
  /\ pc = [c \in Calls |-> "new"]
  /\ request = [c \in Calls |-> "none"]
  /\ sends = [c \in Calls |-> 0]
  /\ result = [c \in Calls |-> "none"]
  /\ todo = [c \in Calls |-> {}]
  /\ wrote = [c \in Calls |-> 0]
  /\ unsupported = {}
  /\ store = [k \in Keys |-> 0]
  /\ old = Old
  /\ registered = {}
  /\ cache = [i \in Instances |-> <<>>]
  /\ reading = [i \in Instances |-> <<>>]
  /\ late = {}
  /\ losses = 0

Key(c)     == Head(routing_key(CommandOf[c]))
IsWrite(c) == ~is_read_only(CommandOf[c])
Goto(c, to) == pc' = [pc EXCEPT ![c] = to]
Finish(c, r) == Goto(c, "done") /\ result' = [result EXCEPT ![c] = r]

-----------------------------------------------------------------------------
(* The request                                                               *)

\* The flag is loaded and the command written.  A pipeline never asks.
Send(c) ==
  /\ pc[c] = "new"
  /\ Goto(c, "sent")
  /\ sends' = [sends EXCEPT ![c] = 1]
  /\ request' = [request EXCEPT ![c] =
       IF c \in Pipelined THEN PipelineName(CommandOf[c])
                          ELSE Request(CommandOf[c], unsupported)]
  /\ UNCHANGED <<result, todo, wrote, unsupported, store, old, cacheVars, losses>>

\* Redis: does the node of the command know the name?
Known(c) == request[c] \in DOMAIN Downgrade => NodeOf[Key(c)] \notin old

\* Redis: a replica refuses a name that may write.  Only a plain batch of
\* read-only commands goes to one.
Refused(c) ==
  /\ c \in Pipelined /\ ReadFromReplica /\ ~IsWrite(c)
  /\ request[c] = "SORT"

\* Redis: the keys the command changes get a new version.
Changed(c) ==
  [k \in Keys |-> store[k] +
     IF IsWrite(c) /\ request[c] # "SORT" /\ k \in Range(CommandOf[c].keys)
     THEN 1 ELSE 0]

\* The entries of caches outside set that are not as in versions.
Stale(set, versions) ==
  {e \in (Instances \ set) \X Keys :
     e[2] \in DOMAIN cache[e[1]] /\ cache[e[1]][e[2]] # versions[e[2]]}

\* Redis ran the command and its reply is here.
Reply(c) ==
  /\ pc[c] = "sent"
  /\ Known(c) /\ ~Refused(c)
  /\ Goto(c, "replied")
  /\ store' = Changed(c)
  /\ wrote' = [wrote EXCEPT ![c] = IF IsWrite(c) THEN store'[Key(c)] ELSE @]
  /\ late' = late \cup Stale(registered, store')
  /\ UNCHANGED <<request, sends, result, todo, unsupported, old, registered, cache,
                 reading, losses>>

\* An error that is not ERR unknown command: a call reports it, the batch makes
\* it a nil reply.
Fail(c) == Finish(c, IF c \in Pipelined THEN "null" ELSE "error")

RefusedReply(c) ==
  /\ pc[c] = "sent"
  /\ Refused(c)
  /\ Fail(c)
  /\ UNCHANGED <<request, sends, todo, wrote, unsupported, store, old, cacheVars, losses>>

\* Mutant: only the call that lowers the flag goes on to the other name.
UnknownOnce(c) ==
  /\ pc[c] = "sent"
  /\ ~Known(c)
  /\ unsupported' = unsupported \cup {request[c]}
  /\ IF request[c] \in unsupported
     THEN Fail(c) /\ UNCHANGED <<request, sends>>
     ELSE /\ request' = [request EXCEPT ![c] = Downgrade[@]]
          /\ sends' = [sends EXCEPT ![c] = @ + 1]
          /\ UNCHANGED <<pc, result>>
  /\ UNCHANGED <<todo, wrote, store, old, cacheVars, losses>>

\* ERR unknown command: the flag goes down for every call of the process, and
\* this call goes on under the other name.
Unknown(c) ==
  /\ pc[c] = "sent"
  /\ ~Known(c)
  /\ unsupported' = unsupported \cup {request[c]}
  /\ request' = [request EXCEPT ![c] = Downgrade[@]]
  /\ sends' = [sends EXCEPT ![c] = @ + 1]
  /\ UNCHANGED <<pc, result, todo, wrote, store, old, cacheVars, losses>>

\* The reply is lost; the command may have run.  fred sends it again, or gives
\* up with an error.
Lose(c) ==
  /\ pc[c] = "sent"
  /\ losses < MaxLosses
  /\ losses' = losses + 1
  /\ IF Known(c) /\ ~Refused(c) THEN store' \in {store, Changed(c)}
                               ELSE UNCHANGED store
  /\ late' = late \cup Stale(registered, store')
  /\ Fail(c) \/ UNCHANGED <<pc, result>>
  /\ UNCHANGED <<request, sends, todo, wrote, unsupported, old, registered, cache,
                 reading>>

-----------------------------------------------------------------------------
(* async0 after a reply: evict_client_side_caching                           *)

\* A read, a command of a batch, and a write that finds no cache, are over.
Return(c) ==
  /\ pc[c] = "replied"
  /\ ~IsWrite(c) \/ c \in Pipelined \/ registered = {}
  /\ Finish(c, "ok")
  /\ UNCHANGED <<request, sends, todo, wrote, unsupported, store, old, cacheVars, losses>>

\* Mutant: the eviction goes on by itself and the call returns.
EvictStartSpawned(c) ==
  /\ pc[c] = "replied"
  /\ IsWrite(c) /\ c \notin Pipelined /\ registered # {}
  /\ Finish(c, "ok") /\ todo' = [todo EXCEPT ![c] = registered]
  /\ UNCHANGED <<request, sends, wrote, unsupported, store, old, cacheVars, losses>>

\* The iteration starts over the caches that are registered now.
EvictStart(c) ==
  /\ pc[c] = "replied"
  /\ IsWrite(c) /\ c \notin Pipelined /\ registered # {}
  /\ Goto(c, "evicting")
  /\ todo' = [todo EXCEPT ![c] = registered]
  /\ UNCHANGED <<request, sends, result, wrote, unsupported, store, old, cacheVars, losses>>

EvictOne(c, i) ==
  /\ pc[c] = "evicting"
  /\ i \in todo[c]
  /\ todo' = [todo EXCEPT ![c] = @ \ {i}]
  /\ cache' = [cache EXCEPT ![i] = Restrict(@, DOMAIN @ \ {Key(c)})]
  /\ late' = late \ {<<i, Key(c)>>}
  /\ UNCHANGED <<pc, request, sends, result, wrote, unsupported, store, old, registered,
                 reading, losses>>

EvictDone(c) ==
  /\ pc[c] = "evicting"
  /\ todo[c] = {}
  /\ Finish(c, "ok")
  /\ UNCHANGED <<request, sends, todo, wrote, unsupported, store, old, cacheVars, losses>>

-----------------------------------------------------------------------------
(* Caches come, fill themselves, and go; nodes are upgraded.                 *)

\* An eviction that is under way may meet the new cache or miss it.
add_client_side_caching(i) ==
  /\ i \notin registered
  /\ registered' = registered \cup {i}
  /\ \E meeting \in SUBSET {c \in Calls : pc[c] = "evicting"} :
       todo' = [c \in Calls |-> IF c \in meeting THEN todo[c] \cup {i} ELSE todo[c]]
  /\ UNCHANGED <<pc, request, sends, result, wrote, unsupported, store, old, cache,
                 reading, late, losses>>

\* No eviction meets it any more.
remove_client_side_caching(i) ==
  /\ i \in registered
  /\ registered' = registered \ {i}
  /\ todo' = [c \in Calls |-> todo[c] \ {i}]
  /\ late' = late \cup Stale(registered', store)
  /\ UNCHANGED <<pc, request, sends, result, wrote, unsupported, store, old, cache,
                 reading, losses>>

\* A cache, registered or not, reads a key from Redis.
FillRead(i, k) ==
  /\ k \notin DOMAIN reading[i]
  /\ reading' = [reading EXCEPT ![i] = Insert(@, k, store[k])]
  /\ UNCHANGED <<callVars, unsupported, store, old, registered, cache, late, losses>>

\* What it read gets into the cache, whatever was written and evicted since.
FillStore(i, k) ==
  /\ k \in DOMAIN reading[i]
  /\ cache' = [cache EXCEPT ![i] = Insert(@, k, reading[i][k])]
  /\ reading' = [reading EXCEPT ![i] = Restrict(@, DOMAIN @ \ {k})]
  /\ late' = IF reading[i][k] = store[k] THEN late \ {<<i, k>>} ELSE late \cup {<<i, k>>}
  /\ UNCHANGED <<callVars, unsupported, store, old, registered, losses>>

Upgrade(n) ==
  /\ n \in old
  /\ old' = old \ {n}
  /\ UNCHANGED <<callVars, unsupported, store, cacheVars, losses>>

-----------------------------------------------------------------------------
Answer(c) == Reply(c) \/ RefusedReply(c) \/ Unknown(c) \/ Lose(c)
After(c)  == Return(c) \/ EvictStart(c) \/ (\E i \in Instances : EvictOne(c, i))
             \/ EvictDone(c)

Next ==
  \/ \E c \in Calls : Send(c) \/ Answer(c) \/ After(c)
  \/ \E i \in Instances :
       \/ add_client_side_caching(i)
       \/ remove_client_side_caching(i)
       \/ \E k \in Keys : FillRead(i, k) \/ FillStore(i, k)
  \/ \E n \in Nodes : Upgrade(n)

Spec == Init /\ [][Next]_vars

-----------------------------------------------------------------------------
(* Properties                                                                *)

TypeOK ==
  /\ pc \in [Calls -> {"new", "sent", "replied", "evicting", "done"}]
  /\ \A c \in Calls :
       request[c] \in {"none", Name(CommandOf[c].variant), PipelineName(CommandOf[c])}
  /\ sends \in [Calls -> Nat]
  /\ result \in [Calls -> {"none", "ok", "error", "null"}]
  /\ todo \in [Calls -> SUBSET Instances]
  /\ wrote \in [Calls -> Nat]
  /\ unsupported \subseteq DOMAIN Downgrade
  /\ store \in [Keys -> Nat]
  /\ old \subseteq Nodes
  /\ registered \subseteq Instances
  /\ \A i \in Instances : \A map \in {cache[i], reading[i]} :
       DOMAIN map \subseteq Keys /\ \A k \in DOMAIN map : map[k] \in Nat
  /\ late \subseteq Instances \X Keys
  /\ losses \in 0 .. MaxLosses

\* The trait ClientSideCaching (a cache is told when a write completes): once
\* async0 has returned Ok for a write, no cache, registered or not, holds a value
\* of its routing key from before the write, unless the cache itself stored it
\* when it was old already, or was not registered while it was old.
FreshAfterOk ==
  \A c \in Calls \ Pipelined : result[c] = "ok" /\ IsWrite(c) =>
    \A i \in Instances :
      Key(c) \in DOMAIN cache[i] /\ <<i, Key(c)>> \notin late
        => cache[i][Key(c)] >= wrote[c]

\* RedisCommand::execute (EVALSHA_RO and SORT_RO fall back, execute calls itself
\* after lowering a flag): as long as no reply is lost, no command fails because
\* a server does not know its name, whichever calls learn of it at once; and a
\* call sends its command under at most two names, however the flags and the
\* servers change under it.
NeverUnknown ==
  \A c \in Calls : sends[c] \leq 2 /\ (losses = 0 => result[c] # "error")
=============================================================================
