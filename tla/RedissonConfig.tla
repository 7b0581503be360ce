--------------------------- MODULE RedissonConfig ----------------------------
(***************************************************************************)
(* The configuration (config/mod.rs): the record a configuration file is   *)
(* read into, the one the program uses, and what fred is told.  Fields     *)
(* that nothing branches on (names, passwords, the database, delays) are   *)
(* left out; names are in lower case already.                              *)
(***************************************************************************)
EXTENDS Sequences, Naturals

\* RedisConfig::default, for a server at host.
Default(host) ==
  [mode |-> "standalone", host |-> host, nodes |-> <<>>,
   command_timeout_ms |-> 3000, connect_timeout_secs |-> 5,
   max_command_attempts |-> 3, pool_size |-> 5, retry_attempts |-> 4,
   sharded_subscription_mode |-> "auto", read_mode |-> "slave",
   use_script_cache |-> TRUE, check_lock_synced_slaves |-> TRUE]

ServerModes == {"standalone", "cluster", "sentinel"}
ReadModes == {"slave", "master", "master_slave"}
ShardedSubscriptionModes == {"auto", "on", "off"}

\* The records that try_from does not refuse.
Accepted(c) ==
  /\ c.mode \in ServerModes
  /\ c.mode # "standalone" => c.nodes # <<>>
  /\ c.sharded_subscription_mode \in ShardedSubscriptionModes
  /\ c.read_mode \in ReadModes

\* try_from of an accepted record: one list of servers, according to the mode.
\* Those of sentinel mode are the sentinels.
try_from(c) ==
  [mode |-> c.mode,
   servers |-> IF c.mode = "standalone" THEN <<c.host>> ELSE c.nodes,
   command_timeout |-> c.command_timeout_ms,
   connect_timeout |-> c.connect_timeout_secs,
   max_command_attempts |-> c.max_command_attempts,
   pool_size |-> c.pool_size,
   retry_attempts |-> c.retry_attempts,
   sharded_subscription_mode |-> c.sharded_subscription_mode,
   read_mode |-> c.read_mode,
   use_script_cache |-> c.use_script_cache,
   check_lock_synced_slaves |-> c.check_lock_synced_slaves]

-----------------------------------------------------------------------------
(* What fred is told.  Its own defaults are external: a timeout of 0 is none. *)

FredCommandTimeout == 0
FredConnectionTimeout == 10

\* Redis Cluster has no databases to choose from.
build_fred_config(config) ==
  [server |-> CASE config.mode = "standalone" -> "centralized"
                [] config.mode = "cluster" -> "clustered"
                [] config.mode = "sentinel" -> "sentinel",
   hosts |-> config.servers,
   selects_database |-> config.mode # "cluster"]

\* A timeout of 0 leaves fred's default in place.
build_perf_config(config) ==
  [default_command_timeout |->
     IF config.command_timeout > 0 THEN config.command_timeout ELSE FredCommandTimeout]

build_connection_config(config) ==
  [connection_timeout |->
     IF config.connect_timeout > 0 THEN config.connect_timeout ELSE FredConnectionTimeout,
   max_command_attempts |-> config.max_command_attempts]
==============================================================================
