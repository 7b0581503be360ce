------------------------ MODULE ConnectionManagerProofs ------------------------
(***************************************************************************)
(* What holds of ConnectionManager for every configuration, every number   *)
(* of servers, slots and callers, and every length of life: its types,     *)
(* and, unless there are sentinels, that the two caches follow what fred   *)
(* reports of the servers.                                                 *)
(***************************************************************************)
EXTENDS ConnectionManager, TLAPS

\* A configuration that try_from made.
Made(c) == \E raw \in Raw : Accepted(raw) /\ c = try_from(raw)

\* create is past the pool.
Up == phase \in {"connected", "probed", "ready", "shutdown"}

CreateTypes ==
  /\ phase \in {"new", "configured", "connected", "probed", "ready", "failed", "shutdown"}
  /\ publish_command \in {"none", "publish", "spublish"}
  /\ pool \in BOOLEAN /\ subscriber \in BOOLEAN /\ sharded \in BOOLEAN
  /\ config \in Raw \/ Made(config)
  /\ phase = "new" => config \in Raw
  /\ phase \notin {"new", "failed"} => Made(config)
  /\ fred = None \/ fred.server.hosts # <<>>
  /\ Up => fred # None /\ fred.server = build_fred_config(config)

RedisTypes ==
  /\ master \in [Slots -> Servers] /\ routes \in [Slots -> Servers]
  /\ life \in [Servers -> Nat]
  /\ events \subseteq Servers \cup {Changed}

CacheTypes ==
  /\ \A s, i : Known(s, i) => i \in Items /\ learned[s][i] \in Servers \X Nat
  /\ late \subseteq (DOMAIN learned) \X Items

CallTypes ==
  /\ pc \in [Calls -> {"new", "ask", "store", "use", "done"}]
  /\ DOMAIN entry = Calls /\ DOMAIN item = Calls /\ DOMAIN fact = Calls
  /\ phase \notin {"ready", "shutdown"} => \A c \in Calls : pc[c] = "new"
  /\ \A c \in Calls : pc[c] # "new" =>
       /\ item[c] \in Items /\ entry[c].slot \in Slots
       /\ IsCluster => entry[c].server \in Servers
  /\ \A c \in Calls : pc[c] = "store" =>
       fact[c] = <<fact[c][1], fact[c][2]>> /\ fact[c][1] \in Servers /\ fact[c][2] \in Nat

TInv == CreateTypes /\ RedisTypes /\ CacheTypes /\ CallTypes

-----------------------------------------------------------------------------
(* The configuration, and the caches as maps of pairs                        *)

\* Whatever try_from accepts names a server, and the first one is the host of a
\* standalone configuration.
LEMMA MadeFacts ==
  ASSUME NEW c, Made(c)
  PROVE  /\ c.servers # <<>>
         /\ c.mode \in ServerModes
         /\ \E raw \in Raw : /\ Accepted(raw) /\ c = try_from(raw) /\ c.mode = raw.mode
                             /\ c.mode = "standalone" => c.servers = <<raw.host>>
<1>1. PICK raw \in Raw : Accepted(raw) /\ c = try_from(raw)
  BY DEF Made
<1>2. /\ c.mode = raw.mode /\ raw.mode \in ServerModes
      /\ c.servers = IF raw.mode = "standalone" THEN <<raw.host>> ELSE raw.nodes
  BY <1>1 DEF try_from, Accepted
<1>3. raw.mode # "standalone" => raw.nodes # <<>>
  BY <1>1 DEF Accepted
<1> QED
  BY <1>1, <1>2, <1>3

\* What is known after an answer was stored.
LEMMA StoreFacts ==
  ASSUME NEW c \in Calls, Store(c)
  PROVE  LET server == entry[c].server IN
         /\ \A s, i : Known(s, i)' <=> Known(s, i) \/ (s = server /\ i = item[c])
         /\ \A s, i : Known(s, i)' =>
              learned'[s][i] = IF s = server /\ i = item[c] THEN fact[c] ELSE learned[s][i]
         /\ DOMAIN learned' = DOMAIN learned \cup {server}
<1> DEFINE server == entry[c].server
           old == IF server \in DOMAIN learned THEN learned[server] ELSE <<>>
<1>1. learned' = Insert(learned, server, Insert(old, item[c], fact[c]))
  BY DEF Store
<1>2. /\ DOMAIN Insert(old, item[c], fact[c]) = DOMAIN old \cup {item[c]}
      /\ \A i \in DOMAIN old \cup {item[c]} :
           Insert(old, item[c], fact[c])[i] = IF i = item[c] THEN fact[c] ELSE old[i]
  BY DEF Insert
<1>3. /\ DOMAIN learned' = DOMAIN learned \cup {server}
      /\ \A s \in DOMAIN learned \cup {server} :
           learned'[s] = IF s = server THEN Insert(old, item[c], fact[c]) ELSE learned[s]
  BY <1>1 DEF Insert
<1>4. /\ server \in DOMAIN learned => old = learned[server]
      /\ server \notin DOMAIN learned => DOMAIN old = {}
  OBVIOUS
<1> HIDE DEF server, old
<1>5. ASSUME NEW s, NEW i
      PROVE  /\ Known(s, i)' <=> Known(s, i) \/ (s = server /\ i = item[c])
             /\ Known(s, i)' => learned'[s][i] = IF s = server /\ i = item[c]
                                                  THEN fact[c] ELSE learned[s][i]
  <2>1. CASE s = server
    BY <1>2, <1>3, <1>4, <2>1 DEF Known
  <2>2. CASE s # server
    BY <1>3, <2>2 DEF Known
  <2> QED
    BY <2>1, <2>2
<1> QED
  BY <1>3, <1>5 DEF server

\* What is known after servers were forgotten.
LEMMA ForgetFacts ==
  ASSUME NEW servers, Forget(servers)
  PROVE  /\ \A s, i : Known(s, i)' <=> Known(s, i) /\ s \notin servers
         /\ \A s, i : Known(s, i)' => learned'[s][i] = learned[s][i]
         /\ DOMAIN learned' = DOMAIN learned \ servers
<1>1. /\ DOMAIN learned' = DOMAIN learned \ servers
      /\ \A s \in DOMAIN learned \ servers : learned'[s] = learned[s]
  BY DEF Forget, Restrict
<1> QED
  BY <1>1 DEF Known

\* What is known after a command was run.
LEMMA UseFacts ==
  ASSUME NEW c \in Calls, Use(c)
  PROVE  \/ learned' = learned /\ late' = late
         \/ LET server == entry[c].server IN
            /\ \A s, i : Known(s, i)' <=> Known(s, i) /\ ~(s = server /\ i = "info")
            /\ \A s, i : Known(s, i)' => learned'[s][i] = learned[s][i]
            /\ DOMAIN learned' = DOMAIN learned
            /\ late' = late \ {<<server, "info">>}
<1> DEFINE server == entry[c].server
<1>1. CASE learned' = learned /\ late' = late
  BY <1>1
<1>2. CASE /\ Known(server, "info")
           /\ learned' = [learned EXCEPT ![server] =
                            Restrict(learned[server], DOMAIN learned[server] \ {"info"})]
           /\ late' = late \ {<<server, "info">>}
  <2>1. server \in DOMAIN learned
    BY <1>2 DEF Known
  <2> DEFINE rest == Restrict(learned[server], DOMAIN learned[server] \ {"info"})
  <2>2. /\ DOMAIN rest = DOMAIN learned[server] \ {"info"}
        /\ \A i \in DOMAIN rest : rest[i] = learned[server][i]
    BY DEF Restrict
  <2>3. /\ DOMAIN learned' = DOMAIN learned
        /\ \A s \in DOMAIN learned : learned'[s] = IF s = server THEN rest ELSE learned[s]
    BY <1>2
  <2> HIDE DEF rest, server
  <2>4. ASSUME NEW s, NEW i
        PROVE  /\ Known(s, i)' <=> Known(s, i) /\ ~(s = server /\ i = "info")
               /\ Known(s, i)' => learned'[s][i] = learned[s][i]
    <3>1. CASE s = server
      BY <2>1, <2>2, <2>3, <3>1 DEF Known
    <3>2. CASE s # server
      BY <2>3, <3>2 DEF Known
    <3> QED
      BY <3>1, <3>2
  <2> QED
    BY <1>2, <2>3, <2>4 DEF server
<1> QED
  BY <1>1, <1>2 DEF Use, cacheVars

-----------------------------------------------------------------------------
(* The types                                                                 *)

\* create and shutdown.
LEMMA CreateStep == ASSUME TInv, create \/ shutdown PROVE TInv'
<1>1. UNCHANGED <<redisVars, cacheVars, callVars>>
  BY DEF create, shutdown, Configure, Connect, Probe, Subscribe
<1>2. RedisTypes' /\ CacheTypes'
  BY <1>1 DEF TInv, RedisTypes, CacheTypes, Known, redisVars, cacheVars
<1>3. CreateTypes'
  <2>1. CASE Configure
    <3>1. CASE Accepted(config)
      <4>1. /\ phase' = "configured" /\ config' = try_from(config) /\ config \in Raw
            /\ UNCHANGED <<fred, publish_command, pool, subscriber, sharded>>
        BY <2>1, <3>1 DEF Configure, TInv, CreateTypes, redisVars
      <4>2. Made(config)'
        BY <3>1, <4>1 DEF Made
      <4> QED
        BY <4>1, <4>2 DEF TInv, CreateTypes, Up
    <3>2. CASE ~Accepted(config)
      <4>1. /\ phase' = "failed" /\ config \in Raw
            /\ UNCHANGED <<config, fred, publish_command, pool, subscriber, sharded>>
        BY <2>1, <3>2 DEF Configure, TInv, CreateTypes, redisVars
      <4> QED
        BY <4>1 DEF TInv, CreateTypes, Up
    <3> QED
      BY <3>1, <3>2
  <2>2. CASE Connect
    <3>1. /\ Made(config) /\ phase' \in {"connected", "failed"}
          /\ pool' \in BOOLEAN
          /\ UNCHANGED <<config, publish_command, subscriber, sharded>>
          /\ fred' = [server |-> build_fred_config(config),
                      perf |-> build_perf_config(config),
                      connection |-> build_connection_config(config)]
      BY <2>2 DEF Connect, TInv, CreateTypes, redisVars
    <3>2. fred'.server = build_fred_config(config)
      BY <3>1
    <3>3. fred'.server.hosts # <<>>
      BY <3>1, <3>2, MadeFacts DEF build_fred_config
    <3>4. fred' # None
      BY <3>1 DEF None
    <3>5. Made(config)'
      BY <3>1 DEF Made
    <3>6. build_fred_config(config)' = build_fred_config(config)
      BY <3>1 DEF build_fred_config
    <3> QED
      BY <3>1, <3>2, <3>3, <3>4, <3>5, <3>6 DEF TInv, CreateTypes, Up
  <2>3. CASE Probe
    <3>1. /\ phase = "connected" /\ phase' = "probed"
          /\ publish_command' \in {"publish", "spublish"}
          /\ UNCHANGED <<config, fred, pool, subscriber, sharded>>
      BY <2>3 DEF Probe, redisVars
    <3>2. Made(config)' <=> Made(config)
      BY <3>1 DEF Made
    <3>3. build_fred_config(config)' = build_fred_config(config)
      BY <3>1 DEF build_fred_config
    <3> QED
      BY <3>1, <3>2, <3>3 DEF TInv, CreateTypes, Up
  <2>4. CASE Subscribe \/ shutdown
    <3>1. /\ phase \in {"probed", "ready"} /\ phase' \in {"ready", "failed", "shutdown"}
          /\ subscriber' \in BOOLEAN /\ pool' \in BOOLEAN
          /\ UNCHANGED <<config, fred, publish_command, sharded>>
      BY <2>4 DEF Subscribe, shutdown, redisVars, TInv, CreateTypes
    <3>2. Made(config)' <=> Made(config)
      BY <3>1 DEF Made
    <3>3. build_fred_config(config)' = build_fred_config(config)
      BY <3>1 DEF build_fred_config
    <3> QED
      BY <3>1, <3>2, <3>3 DEF TInv, CreateTypes, Up
  <2> QED
    BY <2>1, <2>2, <2>3, <2>4 DEF create
<1>4. CallTypes'
  <2>1. phase' \in {"ready", "shutdown"} => fred' = fred
    BY DEF create, shutdown, Configure, Connect, Probe, Subscribe
  <2>2. phase \in {"ready", "shutdown"} => phase' = "shutdown"
    BY DEF create, shutdown, Configure, Connect, Probe, Subscribe
  <2> QED
    BY <1>1, <2>1, <2>2 DEF TInv, CallTypes, callVars, IsCluster
<1> QED
  BY <1>2, <1>3, <1>4 DEF TInv

\* A step that leaves the configuration and what fred was told alone.
LEMMA CreateKept ==
  ASSUME CreateTypes, UNCHANGED createVars, sharded' = sharded
  PROVE  CreateTypes' /\ (IsCluster' <=> IsCluster)
<1>1. Made(config)' <=> Made(config)
  BY DEF createVars, Made
<1>2. build_fred_config(config)' = build_fred_config(config)
  BY DEF createVars, build_fred_config
<1> QED
  BY <1>1, <1>2 DEF CreateTypes, createVars, Up, IsCluster

\* What happens in Redis, and what fred makes of it.
LEMMA RedisStep ==
  ASSUME TInv,
         \/ Reroute \/ OnClusterChange
         \/ \E s \in Servers : Restart(s) \/ OnReconnect(s) \/ \E to \in Servers : Failover(s, to)
  PROVE  TInv'
<1>1. /\ UNCHANGED createVars /\ sharded' = sharded /\ UNCHANGED callVars
  BY DEF Reroute, OnClusterChange, Restart, OnReconnect, Failover
<1>2. CreateTypes' /\ (IsCluster' <=> IsCluster)
  BY <1>1, CreateKept DEF TInv
<1>3. CallTypes'
  BY <1>1, <1>2 DEF TInv, CallTypes, callVars, createVars
<1>4. RedisTypes'
  <2>1. CASE Reroute \/ OnClusterChange \/ \E s \in Servers : OnReconnect(s)
    BY <2>1 DEF Reroute, OnClusterChange, OnReconnect, TInv, RedisTypes
  <2>2. ASSUME NEW s \in Servers, Restart(s) PROVE RedisTypes'
    BY <2>2 DEF Restart, TInv, RedisTypes
  <2>3. ASSUME NEW s \in Servers, NEW to \in Servers, Failover(s, to) PROVE RedisTypes'
    BY <2>3 DEF Failover, TInv, RedisTypes
  <2> QED
    BY <2>1, <2>2, <2>3
<1>5. CacheTypes'
  <2>1. CASE UNCHANGED cacheVars
    BY <2>1 DEF TInv, CacheTypes, Known, cacheVars
  <2>2. ASSUME NEW servers, Forget(servers) PROVE CacheTypes'
    <3>1. \A s, i : Known(s, i)' => i \in Items /\ learned'[s][i] \in Servers \X Nat
      BY <2>2, ForgetFacts DEF TInv, CacheTypes
    <3>2. ASSUME NEW x \in late' PROVE x \in (DOMAIN learned') \X Items
      <4>1. x \in (DOMAIN learned) \X Items /\ x[1] \notin servers
        BY <2>2, <3>2 DEF Forget, TInv, CacheTypes
      <4>2. DOMAIN learned' = DOMAIN learned \ servers
        BY <2>2, ForgetFacts
      <4> QED
        BY <4>1, <4>2
    <3> QED
      BY <3>1, <3>2 DEF CacheTypes
  <2> QED
    BY <2>1, <2>2 DEF Reroute, OnClusterChange, Restart, OnReconnect, Failover
<1> QED
  BY <1>2, <1>3, <1>4, <1>5 DEF TInv

\* The callers.
LEMMA CallStep ==
  ASSUME TInv, NEW c \in Calls,
         \/ \E slot \in Slots, i \in Items : Look(c, slot, i)
         \/ Ask(c) \/ AskFails(c) \/ Store(c) \/ Use(c)
  PROVE  TInv'
<1>1. UNCHANGED createVars /\ UNCHANGED redisVars
  BY DEF Look, Ask, AskFails, Store, Use
<1>2. CreateTypes' /\ (IsCluster' <=> IsCluster) /\ RedisTypes'
  BY <1>1, CreateKept DEF TInv, RedisTypes, redisVars
<1>3. CASE UNCHANGED cacheVars
  <2>1. CacheTypes'
    BY <1>3 DEF TInv, CacheTypes, Known, cacheVars
  <2>2. CallTypes'
    <3>1. ASSUME NEW slot \in Slots, NEW i \in Items, Look(c, slot, i) PROVE CallTypes'
      <4>1. /\ phase' = "ready" /\ fact' = fact
            /\ \E l \in {"use", "ask"} : pc' = [pc EXCEPT ![c] = l]
            /\ entry' = [entry EXCEPT ![c] = [server |-> get_write_entry(slot), slot |-> slot]]
            /\ item' = [item EXCEPT ![c] = i]
        BY <1>1, <3>1 DEF Look, createVars
      <4>2. IsCluster => get_write_entry(slot) \in Servers
        BY DEF get_write_entry, TInv, RedisTypes
      <4> QED
        BY <1>2, <4>1, <4>2 DEF TInv, CallTypes
    <3>2. CASE Ask(c)
      <4> DEFINE server == Target(entry[c].server, entry[c].slot)
      <4>1. /\ pc[c] # "new" /\ pc' = [pc EXCEPT ![c] = "store"] /\ phase' = phase
            /\ fact' = [fact EXCEPT ![c] = <<server, life[server]>>]
            /\ UNCHANGED <<entry, item>>
        BY <1>1, <3>2 DEF Ask, createVars
      <4>2. server \in Servers /\ life[server] \in Nat
        BY <4>1 DEF Target, Destination, TInv, CallTypes, RedisTypes
      <4> HIDE DEF server
      <4> QED
        BY <1>2, <4>1, <4>2 DEF TInv, CallTypes
    <3>3. CASE AskFails(c) \/ Store(c) \/ Use(c)
      <4>1. /\ pc[c] # "new" /\ pc' \in {[pc EXCEPT ![c] = "done"], [pc EXCEPT ![c] = "use"]}
            /\ UNCHANGED <<entry, item, fact, phase>>
        BY <1>1, <3>3 DEF AskFails, Store, Use, createVars
      <4> QED
        BY <1>2, <4>1 DEF TInv, CallTypes
    <3> QED
      BY <3>1, <3>2, <3>3
  <2> QED
    BY <1>2, <2>1, <2>2 DEF TInv
<1>4. CASE Store(c) \/ Use(c)
  <2>1. CallTypes'
    <3>1. /\ pc[c] # "new" /\ pc' \in {[pc EXCEPT ![c] = "done"], [pc EXCEPT ![c] = "use"]}
          /\ UNCHANGED <<entry, item, fact, phase>>
      BY <1>1, <1>4 DEF Store, Use, createVars
    <3> QED
      BY <1>2, <3>1 DEF TInv, CallTypes
  <2>2. CASE Store(c)
    <3> DEFINE server == entry[c].server
    <3>1. pc[c] = "store" /\ item[c] \in Items /\ fact[c] \in Servers \X Nat
      <4>1. pc[c] = "store"
        BY <2>2 DEF Store
      <4>2. item[c] \in Items
        BY <4>1 DEF TInv, CallTypes
      <4>3. /\ fact[c] = <<fact[c][1], fact[c][2]>>
            /\ fact[c][1] \in Servers /\ fact[c][2] \in Nat
        BY <4>1 DEF TInv, CallTypes
      <4> QED
        BY <4>1, <4>2, <4>3
    <3>2. late' \subseteq late \cup {<<server, item[c]>>}
      BY <2>2 DEF Store
    <3>3. /\ \A s, i : Known(s, i)' <=> Known(s, i) \/ (s = server /\ i = item[c])
          /\ \A s, i : Known(s, i)' =>
               learned'[s][i] = IF s = server /\ i = item[c] THEN fact[c] ELSE learned[s][i]
          /\ DOMAIN learned' = DOMAIN learned \cup {server}
      BY <2>2, StoreFacts
    <3> HIDE DEF server
    <3>4. \A s, i : Known(s, i)' => i \in Items /\ learned'[s][i] \in Servers \X Nat
      BY <3>1, <3>3 DEF TInv, CacheTypes
    <3>5. late' \subseteq (DOMAIN learned') \X Items
      BY <3>1, <3>2, <3>3 DEF TInv, CacheTypes
    <3>6. CacheTypes'
      BY <3>4, <3>5 DEF CacheTypes
    <3> QED
      BY <1>2, <2>1, <3>6 DEF TInv
  <2>3. CASE Use(c)
    <3>1. CacheTypes'
      <4>1. CASE learned' = learned /\ late' = late
        BY <4>1 DEF TInv, CacheTypes, Known
      <4>2. CASE ~(learned' = learned /\ late' = late)
        BY <2>3, <4>2, UseFacts DEF TInv, CacheTypes
      <4> QED
        BY <4>1, <4>2
    <3> QED
      BY <1>2, <2>1, <3>1 DEF TInv
  <2> QED
    BY <1>4, <2>2, <2>3
<1> QED
  BY <1>3, <1>4 DEF Look, Ask, AskFails

\* The types hold.
LEMMA TInvHolds == Spec => []TInv
<1>1. Init => TInv
  <2> SUFFICES ASSUME Init PROVE TInv
    OBVIOUS
  <2>1. master \in [Slots -> Servers]
    <3>1. CASE config.mode = "standalone"
      BY <3>1, ManagerAssumption DEF Init
    <3>2. CASE config.mode # "standalone"
      BY <3>2, ManagerAssumption DEF Init
    <3> QED
      BY <3>1, <3>2
  <2>2. RedisTypes
    BY <2>1 DEF Init, RedisTypes
  <2>3. CreateTypes
    BY DEF Init, CreateTypes, Up
  <2>4. CacheTypes
    BY DEF Init, CacheTypes, Known
  <2>5. CallTypes
    BY DEF Init, CallTypes
  <2> QED
    BY <2>2, <2>3, <2>4, <2>5 DEF TInv
<1>2. TInv /\ [Next]_vars => TInv'
  <2> SUFFICES ASSUME TInv, [Next]_vars PROVE TInv'
    OBVIOUS
  <2>1. CASE UNCHANGED vars
    <3>1. CreateTypes' /\ (IsCluster' <=> IsCluster)
      BY <2>1, CreateKept DEF vars, redisVars, TInv
    <3> QED
      BY <2>1, <3>1 DEF vars, createVars, redisVars, cacheVars, callVars, TInv, RedisTypes,
                        CacheTypes, CallTypes, Known
  <2> QED
    BY <2>1, CreateStep, RedisStep, CallStep DEF Next
<1> QED
  BY <1>1, <1>2, PTL DEF Spec

\* Every variable of the manager keeps its type, and no cache holds anything but
\* what some server once answered.
THEOREM TypeCorrect == Spec => []TypeOK
<1>1. TInv => TypeOK
  <2> SUFFICES ASSUME TInv PROVE TypeOK
    OBVIOUS
  <2>1. config \in Raw \cup {try_from(c) : c \in {x \in Raw : Accepted(x)}}
    BY DEF TInv, CreateTypes, Made
  <2>2. \A s \in DOMAIN learned : \A i \in DOMAIN learned[s] :
          i \in Items /\ learned[s][i] \in Servers \X Nat
    BY DEF TInv, CacheTypes, Known
  <2>3. {pool, subscriber, sharded} \subseteq BOOLEAN
    BY DEF TInv, CreateTypes
  <2> QED
    BY <2>1, <2>2, <2>3 DEF TInv, CreateTypes, RedisTypes, CacheTypes, CallTypes, TypeOK
<1> QED
  BY <1>1, TInvHolds, PTL

-----------------------------------------------------------------------------
(* What the caches say                                                       *)

\* The first server of the list is a sentinel in sentinel mode, and no server
\* that reconnects has its name.
NoSentinel == \A c \in Raw : c.mode # "sentinel"

\* A standalone server has all slots.
Single ==
  /\ phase = "new" /\ config.mode = "standalone" =>
       \A slot \in Slots : master[slot] = config.host
  /\ phase \notin {"new", "failed"} /\ config.mode = "standalone" =>
       \A slot \in Slots : master[slot] = Head(config.servers)

\* An answer is about the server that the entry names.
Asked ==
  /\ \A c \in Calls : pc[c] # "new" /\ ~IsCluster => entry[c].server = Head(fred.server.hosts)
  /\ \A c \in Calls : pc[c] = "store" => fact[c][1] = entry[c].server

\* What is known of a server is true of it, unless an event is on its way that
\* will have it forgotten, or it was out of date when it was stored.
Followed ==
  \A s, i : Known(s, i) =>
    \/ <<s, i>> \in late
    \/ s \in events \/ Changed \in events \/ routes # master
    \/ learned[s][i] = <<s, life[s]>>

FInv == TInv /\ Single /\ Asked /\ Followed

\* Outside a cluster there is one server.
LEMMA OneServer ==
  ASSUME NoSentinel, CreateTypes, Single, Up
  PROVE  ~IsCluster => \A slot \in Slots : master[slot] = Head(fred.server.hosts)
<1>1. Made(config) /\ fred.server = build_fred_config(config)
  BY DEF CreateTypes, Up
<1>2. config.mode \in {"standalone", "cluster"}
  <2>1. PICK raw \in Raw : config.mode = raw.mode
    BY <1>1, MadeFacts
  <2> QED
    BY <1>1, <2>1, MadeFacts DEF NoSentinel, ServerModes
<1>3. config.mode = "cluster" => IsCluster
  BY <1>1 DEF build_fred_config, IsCluster
<1>4. fred.server.hosts = config.servers
  BY <1>1 DEF build_fred_config
<1> QED
  BY <1>2, <1>3, <1>4 DEF Single, Up

\* create and shutdown.
LEMMA FollowedInCreate == ASSUME FInv, create \/ shutdown PROVE Single' /\ Asked' /\ Followed'
<1>1. UNCHANGED <<redisVars, cacheVars, callVars>>
  BY DEF create, shutdown, Configure, Connect, Probe, Subscribe
<1>2. Followed'
  BY <1>1 DEF FInv, Followed, Known, redisVars, cacheVars
<1>3. Asked'
  <2>1. phase \in {"ready", "shutdown"} => fred' = fred
    BY DEF create, shutdown, Configure, Connect, Probe, Subscribe
  <2> QED
    BY <1>1, <2>1 DEF FInv, TInv, CallTypes, Asked, callVars, IsCluster
<1>4. Single'
  <2>1. CASE Configure /\ Accepted(config)
    <3>1. /\ phase = "new" /\ phase' = "configured" /\ config' = try_from(config)
          /\ master' = master
      BY <1>1, <2>1 DEF Configure, redisVars
    <3>2. /\ config'.mode = config.mode
          /\ config.mode = "standalone" => config'.servers = <<config.host>>
      BY <3>1 DEF try_from
    <3> QED
      BY <3>1, <3>2 DEF FInv, Single
  <2>2. CASE Configure /\ ~Accepted(config)
    BY <2>2 DEF Configure, Single
  <2>3. CASE Connect \/ Probe \/ Subscribe \/ shutdown
    <3>1. /\ phase \notin {"new", "failed"} /\ phase' # "new" /\ config' = config
          /\ master' = master
      BY <1>1, <2>3 DEF Connect, Probe, Subscribe, shutdown, redisVars
    <3> QED
      BY <3>1 DEF FInv, Single
  <2> QED
    BY <2>1, <2>2, <2>3 DEF create
<1> QED
  BY <1>2, <1>3, <1>4

\* Restarts, failovers and what is done about them.
LEMMA FollowedInRedis ==
  ASSUME NoSentinel, FInv,
         \/ Reroute \/ OnClusterChange
         \/ \E s \in Servers : Restart(s) \/ OnReconnect(s) \/ \E to \in Servers : Failover(s, to)
  PROVE  Single' /\ Asked' /\ Followed'
<1>1. UNCHANGED createVars /\ UNCHANGED callVars
  BY DEF Reroute, OnClusterChange, Restart, OnReconnect, Failover
<1>2. Asked'
  BY <1>1 DEF FInv, Asked, createVars, callVars, IsCluster
<1>3. CASE Reroute
  BY <1>1, <1>2, <1>3 DEF Reroute, FInv, Single, Followed, createVars
<1>4. CASE OnClusterChange
  <2>1. /\ Forget(DOMAIN learned) /\ master' = master
    BY <1>4 DEF OnClusterChange
  <2>2. \A s, i : ~Known(s, i)'
    BY <2>1, ForgetFacts DEF Known
  <2> QED
    BY <1>1, <1>2, <2>1, <2>2 DEF FInv, Single, Followed, createVars
<1>5. ASSUME NEW s \in Servers, Restart(s) PROVE Single' /\ Asked' /\ Followed'
  <2>1. /\ UNCHANGED <<master, routes, learned, late>> /\ events' = events \cup {s}
        /\ life' = [life EXCEPT ![s] = @ + 1] /\ DOMAIN life = Servers
    BY <1>5 DEF Restart, cacheVars, FInv, TInv, RedisTypes
  <2>2. \A t : t # s => life'[t] = life[t]
    BY <2>1
  <2>3. Followed'
    BY <2>1, <2>2 DEF FInv, Followed, Known
  <2> QED
    BY <1>1, <1>2, <2>1, <2>3 DEF FInv, Single, createVars
<1>6. ASSUME NEW s \in Servers, OnReconnect(s) PROVE Single' /\ Asked' /\ Followed'
  <2>1. /\ s # Changed /\ events' = events \ {s} /\ Forget({s})
        /\ UNCHANGED <<master, routes, life>>
    BY <1>6 DEF OnReconnect
  <2>2. /\ \A t, i : Known(t, i)' <=> Known(t, i) /\ t # s
        /\ \A t, i : Known(t, i)' => learned'[t][i] = learned[t][i]
    BY <2>1, ForgetFacts
  <2>3. \A t, i : <<t, i>> \in late /\ t # s => <<t, i>> \in late'
    BY <2>1 DEF Forget
  <2>4. Followed'
    BY <2>1, <2>2, <2>3 DEF FInv, Followed
  <2> QED
    BY <1>1, <1>2, <2>1, <2>4 DEF FInv, Single, createVars
<1>7. ASSUME NEW s \in Servers, NEW to \in Servers, Failover(s, to)
      PROVE  Single' /\ Asked' /\ Followed'
  <2>1. /\ phase = "ready" /\ config.mode # "standalone" /\ routes = master
        /\ s \in Range(master) /\ to \notin Range(master)
        /\ master' = [slot \in Slots |-> IF master[slot] = s THEN to ELSE master[slot]]
    BY <1>7 DEF Failover
  <2>2. IsCluster
    <3>1. Made(config) /\ fred.server = build_fred_config(config)
      BY <2>1 DEF FInv, TInv, CreateTypes, Up
    <3>2. config.mode = "cluster"
      <4>1. PICK raw \in Raw : config.mode = raw.mode
        BY <3>1, MadeFacts
      <4> QED
        BY <2>1, <3>1, <4>1, MadeFacts DEF NoSentinel, ServerModes
    <3> QED
      BY <3>1, <3>2 DEF build_fred_config, IsCluster
  <2>3. routes' = routes
    BY <1>7, <2>2 DEF Failover
  <2>4. PICK slot \in Slots : master[slot] = s
    BY <2>1 DEF Range, FInv, TInv, RedisTypes
  <2>5. master'[slot] = to /\ to # s
    BY <2>1, <2>4 DEF Range, FInv, TInv, RedisTypes
  <2>6. routes' # master'
    BY <2>1, <2>3, <2>4, <2>5
  <2>7. Followed'
    BY <2>6 DEF Followed
  <2>8. Single'
    BY <1>1, <2>1 DEF Single, createVars
  <2> QED
    BY <1>2, <2>7, <2>8
<1> QED
  BY <1>3, <1>4, <1>5, <1>6, <1>7

\* The callers.
LEMMA FollowedInCall ==
  ASSUME NoSentinel, FInv, NEW c \in Calls,
         \/ \E slot \in Slots, i \in Items : Look(c, slot, i)
         \/ Ask(c) \/ AskFails(c) \/ Store(c) \/ Use(c)
  PROVE  Single' /\ Asked' /\ Followed'
<1>1. UNCHANGED createVars /\ UNCHANGED redisVars
  BY DEF Look, Ask, AskFails, Store, Use
<1>2. Single' /\ (IsCluster' <=> IsCluster) /\ fred' = fred
  BY <1>1 DEF FInv, Single, createVars, redisVars, IsCluster
<1>3. Asked'
  <2>1. ASSUME NEW slot \in Slots, NEW i \in Items, Look(c, slot, i) PROVE Asked'
    <3>1. /\ fact' = fact /\ \E l \in {"use", "ask"} : pc' = [pc EXCEPT ![c] = l]
          /\ entry' = [entry EXCEPT ![c] = [server |-> get_write_entry(slot), slot |-> slot]]
      BY <2>1 DEF Look
    <3>2. ~IsCluster => get_write_entry(slot) = Head(fred.server.hosts)
      BY DEF get_write_entry
    <3> QED
      BY <1>2, <3>1, <3>2 DEF FInv, Asked, TInv, CallTypes
  <2>2. CASE Ask(c)
    <3> DEFINE server == Target(entry[c].server, entry[c].slot)
    <3>1. /\ pc[c] # "new" /\ pc' = [pc EXCEPT ![c] = "store"]
          /\ fact' = [fact EXCEPT ![c] = <<server, life[server]>>] /\ entry' = entry
      BY <2>2 DEF Ask
    <3>2. Up /\ entry[c].slot \in Slots
      BY <3>1 DEF FInv, TInv, CallTypes, Up
    <3>3. server = entry[c].server
      BY <3>1, <3>2, OneServer DEF Target, Destination, FInv, TInv, Asked
    <3> HIDE DEF server
    <3> QED
      BY <1>2, <3>1, <3>3 DEF FInv, Asked, TInv, CallTypes
  <2>3. CASE AskFails(c) \/ Store(c) \/ Use(c)
    <3>1. /\ pc[c] # "new" /\ pc' \in {[pc EXCEPT ![c] = "done"], [pc EXCEPT ![c] = "use"]}
          /\ UNCHANGED <<entry, fact>>
      BY <2>3 DEF AskFails, Store, Use
    <3> QED
      BY <1>2, <3>1 DEF FInv, Asked, TInv, CallTypes
  <2> QED
    BY <2>1, <2>2, <2>3
<1>4. Followed'
  <2>1. CASE UNCHANGED cacheVars
    BY <1>1, <2>1 DEF FInv, Followed, Known, redisVars, cacheVars
  <2>2. CASE Store(c)
    <3> DEFINE server == entry[c].server
               pair == <<server, item[c]>>
    <3>1. /\ \A s, i : Known(s, i)' <=> Known(s, i) \/ (s = server /\ i = item[c])
          /\ \A s, i : Known(s, i)' =>
               learned'[s][i] = IF s = server /\ i = item[c] THEN fact[c] ELSE learned[s][i]
      BY <2>2, StoreFacts
    <3>2. late' = IF fact[c][2] # life[fact[c][1]] THEN late \cup {pair} ELSE late \ {pair}
      BY <2>2 DEF Store
    <3>3. fact[c] = <<server, fact[c][2]>>
      BY <2>2 DEF Store, FInv, TInv, CallTypes, Asked
    <3>4. \A s, i : ~(s = server /\ i = item[c]) => (<<s, i>> \in late' <=> <<s, i>> \in late)
      BY <3>2
    <3>5. fact[c] = <<server, life[server]>> \/ <<server, item[c]>> \in late'
      BY <3>2, <3>3
    <3> HIDE DEF server, pair
    <3>6. ASSUME NEW s, NEW i, Known(s, i)', ~(<<s, i>> \in late')
          PROVE  \/ s \in events \/ Changed \in events \/ routes # master
                 \/ learned'[s][i] = <<s, life[s]>>
      <4>1. CASE s = server /\ i = item[c]
        BY <3>1, <3>5, <3>6, <4>1
      <4>2. CASE ~(s = server /\ i = item[c])
        BY <3>1, <3>4, <3>6, <4>2 DEF FInv, Followed
      <4> QED
        BY <4>1, <4>2
    <3> QED
      BY <1>1, <3>6 DEF Followed, redisVars
  <2>3. CASE Use(c)
    <3>1. CASE learned' = learned /\ late' = late
      BY <1>1, <3>1 DEF FInv, Followed, Known, redisVars
    <3>2. CASE ~(learned' = learned /\ late' = late)
      <4> DEFINE server == entry[c].server
      <4>1. /\ \A s, i : Known(s, i)' <=> Known(s, i) /\ ~(s = server /\ i = "info")
            /\ \A s, i : Known(s, i)' => learned'[s][i] = learned[s][i]
            /\ late' = late \ {<<server, "info">>}
        BY <2>3, <3>2, UseFacts
      <4> HIDE DEF server
      <4>2. \A s, i : ~(s = server /\ i = "info") /\ <<s, i>> \in late => <<s, i>> \in late'
        BY <4>1
      <4> QED
        BY <1>1, <4>1, <4>2 DEF FInv, Followed, redisVars
    <3> QED
      BY <3>1, <3>2
  <2> QED
    BY <2>1, <2>2, <2>3 DEF Look, Ask, AskFails
<1> QED
  BY <1>2, <1>3, <1>4

\* The invariant of the caches.
LEMMA FInvHolds == ASSUME NoSentinel PROVE Spec => []FInv
<1>1. Init => Single /\ Asked /\ Followed
  BY DEF Init, Single, Asked, Followed, Known
<1>2. FInv /\ [Next]_vars => (Single /\ Asked /\ Followed)'
  <2> SUFFICES ASSUME FInv, [Next]_vars PROVE Single' /\ Asked' /\ Followed'
    OBVIOUS
  <2>1. CASE UNCHANGED vars
    BY <2>1 DEF vars, createVars, redisVars, cacheVars, callVars, FInv, Single, Asked,
                Followed, Known, IsCluster
  <2> QED
    BY <2>1, FollowedInCreate, FollowedInRedis, FollowedInCall DEF Next
<1> QED
  BY <1>1, <1>2, TInvHolds, PTL DEF Spec, FInv

\* register_reconnect_listener and on_cluster_change: without sentinels, once
\* fred's events are handled, whatever a cache holds for the entry of a slot is
\* true of the server that a command for the slot reaches, but for an answer
\* that a restart overtook.
THEOREM CachesFollow == ASSUME NoSentinel PROVE Spec => []CacheFollows
<1>1. FInv => CacheFollows
  <2> SUFFICES ASSUME FInv, phase = "ready", events = {}, routes = master,
                      NEW slot \in Slots, NEW i \in Items,
                      Known(get_write_entry(slot), i), <<get_write_entry(slot), i>> \notin late
               PROVE  learned[get_write_entry(slot)][i]
                        = <<Destination(slot), life[Destination(slot)]>>
    BY DEF CacheFollows
  <2>1. get_write_entry(slot) = Destination(slot)
    BY OneServer DEF get_write_entry, Destination, FInv, TInv, Up
  <2> QED
    BY <2>1 DEF FInv, Followed
<1> QED
  BY <1>1, FInvHolds, PTL
================================================================================
