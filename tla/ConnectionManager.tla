-------------------------- MODULE ConnectionManager --------------------------
(***************************************************************************)
(* FredConnectionManager with the two caches of service_manager.rs that    *)
(* are kept per server: SCRIPT_SHA_CACHE (scripts that a server has) and   *)
(* SLAVE_INFO_CACHE (how many replicas it has).  create connects step by   *)
(* step; then callers look a slot's write entry up, and use what the cache *)
(* says of its primary or ask the server and store the answer.  A          *)
(* reconnection drops what is known of one server, a change of the cluster *)
(* drops everything.                                                       *)
(*                                                                         *)
(* Redis and fred are external.  life counts the restarts and the changes  *)
(* of role of a server: what was true of it in one life need not be true   *)
(* in the next.                                                            *)
(***************************************************************************)
EXTENDS RedissonConfig, Maps, Integers, FiniteSets, Functions

CONSTANTS
  Raw,      \* the records that may be read from a file
  Calls, Slots,
  Servers,  \* those with data; sentinels are none of them
  Layouts,  \* the ways the slots may be spread over them at first
  Items,    \* what a call may want to know of a server
  MaxLives  \* bound on restarts and failovers

ASSUME ManagerAssumption ==
  /\ \A c \in Raw : /\ c.mode = "standalone" => c.host \in Servers
                    /\ c.mode = "cluster" => Range(c.nodes) \subseteq Servers
  /\ Slots # {}
  /\ Layouts \subseteq [Slots -> Servers]
  /\ MaxLives \in Nat

VARIABLES
  phase,      \* how far create is
  config, fred, \* the configuration, and what fred was told
  publish_command,
  pool, subscriber, \* are they connected?
  \* fred and Redis
  master,     \* the server that has a slot
  routes,     \* the routing table: cached_cluster_state
  life, sharded, events,
  \* the caches: server -> what is known of it -> the server and life it was
  \* true of
  learned,
  late,       \* what was out of date already when it was stored
  \* the callers
  pc, entry, item, fact

createVars == <<phase, config, fred, publish_command, pool, subscriber>>
redisVars  == <<master, routes, life, sharded, events>>
cacheVars  == <<learned, late>>
callVars   == <<pc, entry, item, fact>>
vars == <<createVars, redisVars, cacheVars, callVars>>

None == <<>>

\* The event of a cluster change; that of a reconnection is the server.
Changed == "changed"

Init ==
  /\ phase = "new"
  /\ config \in Raw
  /\ fred = None
  /\ publish_command = "none"
  /\ pool = FALSE
  /\ subscriber = FALSE
  /\ IF config.mode = "standalone" THEN master = [s \in Slots |-> config.host]
     ELSE /\ master \in Layouts
          /\ config.mode = "sentinel" => Cardinality(Range(master)) = 1
  /\ routes = master
  /\ life = [s \in Servers |-> 0]
  /\ sharded \in BOOLEAN
  /\ events = {}
  /\ learned = <<>>
  /\ late = {}
  /\ pc = [c \in Calls |-> "new"]
  /\ entry = [c \in Calls |-> None]
  /\ item = [c \in Calls |-> "none"]
  /\ fact = [c \in Calls |-> None]

-----------------------------------------------------------------------------
(* create                                                                    *)

Configure ==
  /\ phase = "new"
  /\ IF Accepted(config) THEN phase' = "configured" /\ config' = try_from(config)
                         ELSE phase' = "failed" /\ UNCHANGED config
  /\ UNCHANGED <<fred, publish_command, pool, subscriber, redisVars, cacheVars, callVars>>

\* The pool is built from what fred is told and connects, and the two listeners
\* are registered.  fred has no pool of size 0.
Connect ==
  /\ phase = "configured"
  /\ fred' = [server |-> build_fred_config(config),
              perf |-> build_perf_config(config),
              connection |-> build_connection_config(config)]
  /\ \/ config.pool_size > 0 /\ phase' = "connected" /\ pool' = TRUE
     \/ phase' = "failed" /\ UNCHANGED pool
  /\ UNCHANGED <<config, publish_command, subscriber, redisVars, cacheVars, callVars>>

\* check_sharding_support: in auto mode, whatever error the probe ends with
\* means that PUBLISH is used.
Probe ==
  /\ phase = "connected"
  /\ phase' = "probed"
  /\ \/ /\ config.mode # "cluster" \/ config.sharded_subscription_mode # "on"
        /\ publish_command' = "publish"
     \/ /\ config.mode = "cluster"
        /\ \/ config.sharded_subscription_mode = "on"
           \/ config.sharded_subscription_mode = "auto" /\ sharded
        /\ publish_command' = "spublish"
  /\ UNCHANGED <<config, fred, pool, subscriber, redisVars, cacheVars, callVars>>

\* PublishSubscribeService::new.  If it fails nothing closes the pool.
Subscribe ==
  /\ phase = "probed"
  /\ \/ phase' = "ready" /\ subscriber' = TRUE
     \/ phase' = "failed" /\ UNCHANGED subscriber
  /\ UNCHANGED <<config, fred, publish_command, pool, redisVars, cacheVars, callVars>>

\* shutdown leaves the subscriber as it is.
shutdown ==
  /\ phase = "ready"
  /\ phase' = "shutdown"
  /\ pool' = FALSE
  /\ UNCHANGED <<config, fred, publish_command, subscriber, redisVars, cacheVars, callVars>>

-----------------------------------------------------------------------------
(* Entries and servers                                                       *)

IsCluster == fred.server.server = "clustered"

\* The server the write entry of a slot names, and is compared by.  Outside a
\* cluster that is the first configured one.
get_write_entry(slot) == IF IsCluster THEN routes[slot] ELSE Head(fred.server.hosts)

get_entry_set == {get_write_entry(slot) : slot \in Slots}

\* fred: the server that runs a command for the slot, after all redirections.
Destination(slot) == master[slot]

\* fred: the server that runs a command with options.cluster_node = server.
\* Outside a cluster the option does nothing.
Target(server, slot) == IF IsCluster THEN server ELSE Destination(slot)

-----------------------------------------------------------------------------
(* fred and Redis                                                            *)

Lives == SumFunction(life)

\* A server that fred is connected to loses its scripts and its replicas.
Restart(s) ==
  /\ phase = "ready" /\ Lives < MaxLives
  /\ IsCluster \/ s \in Range(master)
  /\ life' = [life EXCEPT ![s] = @ + 1]
  /\ events' = events \cup {s}
  /\ UNCHANGED <<createVars, master, routes, sharded, cacheVars, callVars>>

\* A replica takes over the slots of a primary, which comes back as a replica.
\* In a cluster fred will see another routing table, and knows the one before;
\* with sentinels it connects to the new primary.
Failover(from, to) ==
  /\ phase = "ready" /\ Lives + 1 < MaxLives
  /\ config.mode # "standalone" /\ routes = master
  /\ from \in Range(master) /\ to \in Servers \ Range(master)
  /\ master' = [s \in Slots |-> IF master[s] = from THEN to ELSE master[s]]
  /\ life' = [life EXCEPT ![from] = @ + 1, ![to] = @ + 1]
  /\ IF IsCluster THEN events' = events \cup {from} /\ UNCHANGED routes
                  ELSE events' = events \cup {to} /\ routes' = master'
  /\ UNCHANGED <<createVars, sharded, cacheVars, callVars>>

\* fred reads the routing table again.
Reroute ==
  /\ phase = "ready"
  /\ routes # master
  /\ routes' = master
  /\ events' = events \cup {Changed}
  /\ UNCHANGED <<createVars, master, life, sharded, cacheVars, callVars>>

-----------------------------------------------------------------------------
(* The caches                                                                *)

Known(server, i) == server \in DOMAIN learned /\ i \in DOMAIN learned[server]

Forget(servers) ==
  /\ learned' = Restrict(learned, DOMAIN learned \ servers)
  /\ late' = {x \in late : x[1] \notin servers}

\* Mutant: one of the caches is forgotten in the listener.
OnReconnectScriptsOnly(s) ==
  /\ s \in events /\ s # Changed
  /\ events' = events \ {s}
  /\ learned' = [x \in DOMAIN learned |->
       IF x = s THEN Restrict(learned[x], DOMAIN learned[x] \ {"script"})
                ELSE learned[x]]
  /\ UNCHANGED <<createVars, master, routes, life, sharded, late, callVars>>

\* register_reconnect_listener: both caches lose the server.
OnReconnect(s) ==
  /\ s \in events /\ s # Changed
  /\ events' = events \ {s}
  /\ Forget({s})
  /\ UNCHANGED <<createVars, master, routes, life, sharded, callVars>>

\* on_cluster_change: clear_all_script_caches, clear_all_slave_info.
OnClusterChange ==
  /\ Changed \in events
  /\ events' = events \ {Changed}
  /\ Forget(DOMAIN learned)
  /\ UNCHANGED <<createVars, master, routes, life, sharded, callVars>>

-----------------------------------------------------------------------------
(* The callers: load_scripts of a batch, and synced_eval                     *)

\* The entry is looked up once; a hit needs nothing from the server.
Look(c, slot, i) ==
  LET server == get_write_entry(slot) IN
  /\ phase = "ready"
  /\ pc[c] = "new"
  /\ pc' = [pc EXCEPT ![c] = IF Known(server, i) THEN "use" ELSE "ask"]
  /\ entry' = [entry EXCEPT ![c] = [server |-> server, slot |-> slot]]
  /\ item' = [item EXCEPT ![c] = i]
  /\ UNCHANGED <<createVars, redisVars, cacheVars, fact>>

\* SCRIPT LOAD or INFO runs; once more if its connection is lost before the
\* answer and fred may try again.
Ask(c) ==
  /\ \/ pc[c] = "ask"
     \/ pc[c] = "store" /\ fred.connection.max_command_attempts > 1
  /\ LET server == Target(entry[c].server, entry[c].slot) IN
       fact' = [fact EXCEPT ![c] = <<server, life[server]>>]
  /\ pc' = [pc EXCEPT ![c] = "store"]
  /\ UNCHANGED <<createVars, redisVars, cacheVars, entry, item>>

\* Mutant: what an error leaves unknown is stored as an answer.
AskFailsStores(c) ==
  /\ pc[c] = "ask"
  /\ pc' = [pc EXCEPT ![c] = "done"]
  /\ learned' = Insert(learned, entry[c].server, Insert(<<>>, item[c], fact[c]))
  /\ UNCHANGED <<createVars, redisVars, late, entry, item, fact>>

\* The call ends with an error before the server has run the command, or with
\* fred's timeout, if it has one, after that.
AskFails(c) ==
  /\ \/ pc[c] = "ask"
     \/ pc[c] = "store" /\ fred.perf.default_command_timeout > 0
  /\ pc' = [pc EXCEPT ![c] = "done"]
  /\ UNCHANGED <<createVars, redisVars, cacheVars, entry, item, fact>>

\* cache_scripts, set_slave_info: after the await, under the server's name.
Store(c) ==
  LET server == entry[c].server
      stale  == fact[c][2] # life[fact[c][1]]
  IN
  /\ pc[c] = "store"
  /\ pc' = [pc EXCEPT ![c] = "use"]
  /\ learned' = Insert(learned, server,
       Insert(IF server \in DOMAIN learned THEN learned[server] ELSE <<>>,
              item[c], fact[c]))
  /\ late' = IF stale THEN late \cup {<<server, item[c]>>} ELSE late \ {<<server, item[c]>>}
  /\ UNCHANGED <<createVars, redisVars, entry, item, fact>>

\* The command itself.  synced_eval forgets the replica count when another
\* number of them answered.
Use(c) ==
  LET server == entry[c].server IN
  /\ pc[c] = "use"
  /\ pc' = [pc EXCEPT ![c] = "done"]
  /\ \/ UNCHANGED cacheVars
     \/ /\ item[c] = "info" /\ Known(server, "info")
        /\ learned' = [learned EXCEPT ![server] = Restrict(@, DOMAIN @ \ {"info"})]
        /\ late' = late \ {<<server, "info">>}
  /\ UNCHANGED <<createVars, redisVars, entry, item, fact>>

-----------------------------------------------------------------------------
create == Configure \/ Connect \/ Probe \/ Subscribe

Next ==
  \/ create
  \/ shutdown
  \/ Reroute
  \/ OnClusterChange
  \/ \E s \in Servers : Restart(s) \/ OnReconnect(s) \/ \E to \in Servers : Failover(s, to)
  \/ \E c \in Calls :
       \/ \E slot \in Slots, i \in Items : Look(c, slot, i)
       \/ Ask(c)
       \/ AskFails(c)
       \/ Store(c)
       \/ Use(c)

Spec == Init /\ [][Next]_vars

-----------------------------------------------------------------------------
(* Properties                                                                *)

TypeOK ==
  /\ phase \in {"new", "configured", "connected", "probed", "ready", "failed", "shutdown"}
  /\ config \in Raw \cup {try_from(c) : c \in {x \in Raw : Accepted(x)}}
  /\ fred # None => fred.server.hosts # <<>>
  /\ publish_command \in {"none", "publish", "spublish"}
  /\ {pool, subscriber, sharded} \subseteq BOOLEAN
  /\ {master, routes} \subseteq [Slots -> Servers]
  /\ life \in [Servers -> Nat]
  /\ events \subseteq Servers \cup {Changed}
  /\ \A s \in DOMAIN learned : \A i \in DOMAIN learned[s] :
       i \in Items /\ learned[s][i] \in Servers \X Nat
  /\ late \subseteq (DOMAIN learned) \X Items
  /\ pc \in [Calls -> {"new", "ask", "store", "use", "done"}]

\* register_reconnect_listener and on_cluster_change (what is kept of a server
\* is dropped when it reconnects, lest an EVALSHA finds no script): once fred's
\* events have been handled and its routing table is Redis's, what the cache
\* holds for the write entry of a slot is true, now, of the server that a
\* command for the slot reaches.  Only an answer overtaken by a restart while
\* it was on its way may be wrong.
CacheFollows ==
  phase = "ready" /\ events = {} /\ routes = master =>
    \A slot \in Slots, i \in Items :
      LET server == get_write_entry(slot) IN
      Known(server, i) /\ <<server, i>> \notin late =>
        learned[server][i] = <<Destination(slot), life[Destination(slot)]>>
==============================================================================
