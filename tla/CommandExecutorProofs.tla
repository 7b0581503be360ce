------------------------ MODULE CommandExecutorProofs ------------------------
(***************************************************************************)
(* What holds of CommandExecutor for every set of calls, keys, nodes and   *)
(* caches: the fallback of a command that a server does not know ends, and *)
(* a write that returned Ok left nothing old in a cache.                   *)
(***************************************************************************)
EXTENDS CommandExecutor, TLAPS

-----------------------------------------------------------------------------
(* The inductive invariant                                                   *)

\* The names a command may be sent under.
Names(c) == {"none", Name(CommandOf[c].variant), PipelineName(CommandOf[c])}

CallTypes ==
  /\ pc \in [Calls -> {"new", "sent", "replied", "evicting", "done"}]
  /\ request \in [Calls -> UNION {Names(c) : c \in Calls}]
  /\ \A c \in Calls : request[c] \in Names(c)
  /\ sends \in [Calls -> Nat]
  /\ result \in [Calls -> {"none", "ok", "error", "null"}]
  /\ todo \in [Calls -> SUBSET Instances]
  /\ unsupported \subseteq DOMAIN Downgrade
  /\ losses \in 0 .. MaxLosses

StoreTypes ==
  /\ wrote \in [Calls -> Nat]
  /\ store \in [Keys -> Nat]
  /\ old \subseteq Nodes

\* What a map of keys to versions is.
Versioned(map) == DOMAIN map \subseteq Keys /\ \A k \in DOMAIN map : map[k] \in Nat

CacheTypes ==
  /\ registered \subseteq Instances
  /\ DOMAIN cache = Instances /\ \A i \in Instances : Versioned(cache[i])
  /\ DOMAIN reading = Instances /\ \A i \in Instances : Versioned(reading[i])
  /\ late \subseteq Instances \X Keys

\* An entry that became old did so while its cache was registered.
Listed ==
  \A i \in Instances : \A k \in DOMAIN cache[i] :
    <<i, k>> \notin late /\ cache[i][k] # store[k] => i \in registered

\* A name that a server may not know is a first attempt, and a call has a result
\* only at its end, an error only after a loss.
Attempt(c) ==
  /\ sends[c] \leq 2
  /\ request[c] \in DOMAIN Downgrade => sends[c] \leq 1
  /\ pc[c] # "done" => result[c] = "none"
  /\ pc[c] # "evicting" => todo[c] = {}
  /\ losses = 0 => result[c] # "error"

\* An entry that is older than a write, and not for a reason of its own, is still
\* to be evicted.
Fresh(c) ==
  /\ wrote[c] \leq store[Key(c)]
  /\ c \notin Pipelined /\ IsWrite(c) =>
       \A i \in Instances : Key(c) \in DOMAIN cache[i] /\ <<i, Key(c)>> \notin late =>
         cache[i][Key(c)] \geq wrote[c] \/ pc[c] = "replied" \/ i \in todo[c]

IInv ==
  /\ CallTypes /\ StoreTypes /\ CacheTypes /\ Listed
  /\ \A c \in Calls : Attempt(c) /\ Fresh(c)

-----------------------------------------------------------------------------
(* Names and keys                                                            *)

\* The key a command is routed by is one of its keys.
LEMMA KeyIsAKey ==
  ASSUME CommandAssumption, NEW c \in Calls
  PROVE  Key(c) \in Keys
<1>1. CommandOf[c].keys \in Seq(Keys) /\ CommandOf[c].keys # <<>>
  BY DEF CommandAssumption
<1>2. Head(CommandOf[c].keys) \in Keys
  BY <1>1
<1>3. Key(c) = Head(CommandOf[c].keys)
  BY <1>1 DEF Key, routing_key
<1> QED
  BY <1>2, <1>3

\* The name used in a pipeline is known to every server, and it is what the
\* fallback leads to.
LEMMA PipelineNameIsOld ==
  ASSUME NEW cmd
  PROVE  /\ PipelineName(cmd) \notin DOMAIN Downgrade
         /\ Name(cmd.variant) \in DOMAIN Downgrade =>
              Downgrade[Name(cmd.variant)] = PipelineName(cmd)
         /\ \A avoid \in SUBSET DOMAIN Downgrade :
              Request(cmd, avoid) \in {Name(cmd.variant), PipelineName(cmd)}
<1>1. DOMAIN Downgrade = {"EVALSHA_RO", "SORT_RO"}
  BY DEF Downgrade
<1>2. \A n \in DOMAIN Downgrade : Downgrade[n] \in {"EVALSHA", "SORT"}
  BY DEF Downgrade
<1> QED
  BY <1>1, <1>2 DEF PipelineName, Request

\* So a name that a server does not know is the first one, and the next one is
\* known.
LEMMA UnknownIsFirst ==
  ASSUME CallTypes, NEW c \in Calls, ~Known(c)
  PROVE  /\ request[c] \in DOMAIN Downgrade
         /\ Downgrade[request[c]] = PipelineName(CommandOf[c])
         /\ Downgrade[request[c]] \notin DOMAIN Downgrade
<1>1. "none" \notin DOMAIN Downgrade
  BY DEF Downgrade
<1>2. request[c] \in Names(c) /\ request[c] \in DOMAIN Downgrade
  BY DEF CallTypes, Known
<1> QED
  BY <1>1, <1>2, PipelineNameIsOld DEF Names

-----------------------------------------------------------------------------
(* Every step keeps the invariant.                                           *)

\* A call is sent under one of its two names.
LEMMA CallStep ==
  ASSUME CommandAssumption, CallTypes, CacheTypes, Next
  PROVE  CallTypes'
<1>1. ASSUME NEW c \in Calls, Send(c) PROVE CallTypes'
  <2>1. request'[c] \in Names(c)
    BY <1>1, PipelineNameIsOld DEF Send, CallTypes, Names
  <2> QED
    BY <1>1, <2>1 DEF Send, Goto, CallTypes
<1>2. ASSUME NEW c \in Calls, Reply(c) PROVE CallTypes'
  BY <1>2 DEF Reply, Goto, CallTypes, Names
<1>3. ASSUME NEW c \in Calls, RefusedReply(c) PROVE CallTypes'
  BY <1>3 DEF RefusedReply, Fail, Finish, Goto, CallTypes, Names
<1>4. ASSUME NEW c \in Calls, Unknown(c) PROVE CallTypes'
  BY <1>4, UnknownIsFirst DEF Unknown, CallTypes, Names
<1>5. ASSUME NEW c \in Calls, Lose(c) PROVE CallTypes'
  <2>1. losses' \in 0 .. MaxLosses
    BY <1>5 DEF Lose, CallTypes, CommandAssumption
  <2> QED
    BY <1>5, <2>1 DEF Lose, Fail, Finish, Goto, CallTypes, Names
<1>6. ASSUME NEW c \in Calls, Return(c) \/ EvictDone(c) PROVE CallTypes'
  BY <1>6 DEF Return, Finish, Goto, EvictDone, CallTypes, Names
<1>7. ASSUME NEW c \in Calls, EvictStart(c) PROVE CallTypes'
  BY <1>7 DEF EvictStart, Goto, CallTypes, Names, CacheTypes
<1>8. ASSUME NEW c \in Calls, NEW i \in Instances, EvictOne(c, i) PROVE CallTypes'
  BY <1>8 DEF EvictOne, CallTypes, Names
<1>9. ASSUME NEW i \in Instances,
             add_client_side_caching(i) \/ remove_client_side_caching(i)
      PROVE  CallTypes'
  BY <1>9
    DEF add_client_side_caching, remove_client_side_caching, CallTypes, Names
<1>10. ASSUME NEW i \in Instances, NEW k \in Keys, FillRead(i, k) \/ FillStore(i, k)
       PROVE  CallTypes'
  BY <1>10 DEF FillRead, FillStore, callVars, CallTypes, Names
<1>11. ASSUME NEW n \in Nodes, Upgrade(n) PROVE CallTypes'
  BY <1>11 DEF Upgrade, callVars, CallTypes, Names
<1> QED
  BY <1>1, <1>2, <1>3, <1>4, <1>5, <1>6, <1>7, <1>8, <1>9, <1>10, <1>11
    DEF Next, Answer, After

\* Versions are numbers.
LEMMA StoreStep ==
  ASSUME CommandAssumption, CallTypes, StoreTypes, Next
  PROVE  StoreTypes'
<1>1. ASSUME NEW c \in Calls, Send(c) \/ RefusedReply(c) \/ Unknown(c)
      PROVE  StoreTypes'
  BY <1>1 DEF Send, Goto, RefusedReply, Fail, Finish, Unknown, StoreTypes
<1>2. ASSUME NEW c \in Calls, Reply(c) PROVE StoreTypes'
  BY <1>2, KeyIsAKey DEF Reply, Goto, Changed, StoreTypes
<1>3. ASSUME NEW c \in Calls, Lose(c) PROVE StoreTypes'
  BY <1>3 DEF Lose, Changed, Fail, Finish, Goto, StoreTypes
<1>4. ASSUME NEW c \in Calls, Return(c) \/ EvictStart(c) \/ EvictDone(c)
      PROVE  StoreTypes'
  BY <1>4 DEF Return, Finish, Goto, EvictStart, EvictDone, StoreTypes
<1>5. ASSUME NEW c \in Calls, NEW i \in Instances, EvictOne(c, i) PROVE StoreTypes'
  BY <1>5 DEF EvictOne, StoreTypes
<1>6. ASSUME NEW i \in Instances,
             add_client_side_caching(i) \/ remove_client_side_caching(i)
      PROVE  StoreTypes'
  BY <1>6 DEF add_client_side_caching, remove_client_side_caching, StoreTypes
<1>7. ASSUME NEW i \in Instances, NEW k \in Keys, FillRead(i, k) \/ FillStore(i, k)
      PROVE  StoreTypes'
  BY <1>7 DEF FillRead, FillStore, callVars, StoreTypes
<1>8. ASSUME NEW n \in Nodes, Upgrade(n) PROVE StoreTypes'
  BY <1>8 DEF Upgrade, callVars, StoreTypes
<1> QED
  BY <1>1, <1>2, <1>3, <1>4, <1>5, <1>6, <1>7, <1>8 DEF Next, Answer, After

\* What a cache holds of a key is a version of it.
LEMMA CacheStep ==
  ASSUME StoreTypes, CacheTypes, Next
  PROVE  CacheTypes'
<1> USE DEF Versioned
<1>1. ASSUME NEW c \in Calls, Send(c) \/ RefusedReply(c) \/ Unknown(c)
      PROVE  CacheTypes'
  BY <1>1 DEF Send, Goto, cacheVars, RefusedReply, Fail, Finish, Unknown, CacheTypes
<1>2. ASSUME NEW c \in Calls, Reply(c) \/ Lose(c) PROVE CacheTypes'
  BY <1>2 DEF Reply, Lose, Stale, CacheTypes
<1>3. ASSUME NEW c \in Calls, Return(c) \/ EvictStart(c) \/ EvictDone(c)
      PROVE  CacheTypes'
  BY <1>3 DEF Return, Finish, cacheVars, Goto, EvictStart, EvictDone, CacheTypes
<1>4. ASSUME NEW c \in Calls, NEW i \in Instances, EvictOne(c, i) PROVE CacheTypes'
  BY <1>4 DEF EvictOne, CacheTypes, Restrict
<1>5. ASSUME NEW i \in Instances,
             add_client_side_caching(i) \/ remove_client_side_caching(i)
      PROVE  CacheTypes'
  BY <1>5 DEF add_client_side_caching, remove_client_side_caching, Stale, CacheTypes
<1>6. ASSUME NEW i \in Instances, NEW k \in Keys, FillRead(i, k) PROVE CacheTypes'
  BY <1>6 DEF FillRead, Insert, callVars, CacheTypes, StoreTypes
<1>7. ASSUME NEW i \in Instances, NEW k \in Keys, FillStore(i, k) PROVE CacheTypes'
  BY <1>7 DEF FillStore, Insert, Restrict, callVars, CacheTypes, StoreTypes
<1>8. ASSUME NEW n \in Nodes, Upgrade(n) PROVE CacheTypes'
  BY <1>8 DEF Upgrade, callVars, cacheVars, CacheTypes
<1> QED
  BY <1>1, <1>2, <1>3, <1>4, <1>5, <1>6, <1>7, <1>8 DEF Next, Answer, After

\* A name is unknown once at most, and only a loss is an error.
LEMMA AttemptStep ==
  ASSUME CommandAssumption, IInv, Next, NEW d \in Calls
  PROVE  Attempt(d)'
<1>1. ASSUME NEW c \in Calls, Reply(c) PROVE Attempt(d)'
  BY <1>1 DEF Reply, Goto, cacheVars, Attempt, IInv, CallTypes, CommandAssumption
<1>2. ASSUME NEW c \in Calls, Send(c) PROVE Attempt(d)'
  BY <1>2 DEF Send, Goto, cacheVars, Attempt, IInv, CallTypes, CommandAssumption
<1>3. ASSUME NEW c \in Calls, RefusedReply(c) PROVE Attempt(d)'
  BY <1>3
    DEF RefusedReply, Fail, cacheVars, Finish, Goto, Attempt, IInv, CallTypes,
        CommandAssumption, Refused
<1>4. ASSUME NEW c \in Calls, Unknown(c) PROVE Attempt(d)'
  <2>1. request'[c] = Downgrade[request[c]]
    BY <1>4 DEF Unknown, IInv, CallTypes
  <2>2. /\ request[c] \in DOMAIN Downgrade
        /\ Downgrade[request[c]] \notin DOMAIN Downgrade
    BY <1>4, UnknownIsFirst DEF Unknown, IInv
  <2> QED
    BY <1>4, <2>1, <2>2 DEF Unknown, Attempt, IInv, CallTypes
<1>5. ASSUME NEW c \in Calls, Lose(c) PROVE Attempt(d)'
  BY <1>5
    DEF Lose, Fail, cacheVars, Finish, Goto, Attempt, IInv, CallTypes,
        CommandAssumption
<1>6. ASSUME NEW c \in Calls, EvictStart(c) PROVE Attempt(d)'
  BY <1>6
    DEF EvictStart, Goto, cacheVars, Attempt, IInv, CallTypes,
        CommandAssumption
<1>7. ASSUME NEW c \in Calls, Return(c) PROVE Attempt(d)'
  BY <1>7
    DEF Return, Finish, cacheVars, Goto, Attempt, IInv, CallTypes,
        CommandAssumption
<1>8. ASSUME NEW c \in Calls, EvictDone(c) PROVE Attempt(d)'
  BY <1>8
    DEF EvictDone, Finish, cacheVars, Goto, Attempt, IInv, CallTypes,
        CommandAssumption
<1>9. ASSUME NEW c \in Calls, NEW i \in Instances, EvictOne(c, i) PROVE Attempt(d)'
  BY <1>9 DEF EvictOne, Attempt, IInv, CallTypes, CommandAssumption
<1>10. ASSUME NEW i \in Instances,
              add_client_side_caching(i) \/ remove_client_side_caching(i)
       PROVE  Attempt(d)'
  BY <1>10
    DEF add_client_side_caching, remove_client_side_caching, Attempt, IInv, CallTypes
<1>11. ASSUME NEW i \in Instances, NEW k \in Keys, FillRead(i, k) \/ FillStore(i, k)
       PROVE  Attempt(d)'
  BY <1>11 DEF FillRead, FillStore, callVars, Attempt, IInv, CallTypes
<1>12. ASSUME NEW n \in Nodes, Upgrade(n) PROVE Attempt(d)'
  BY <1>12
    DEF Upgrade, callVars, cacheVars, Attempt, IInv, CallTypes,
        CommandAssumption
<1> QED
  BY <1>1, <1>2, <1>3, <1>4, <1>5, <1>6, <1>7, <1>8, <1>9, <1>10, <1>11, <1>12
    DEF Next, Answer, After

\* The entries that a change of a key makes old are those of registered caches,
\* or late.
LEMMA ListedStep ==
  ASSUME CommandAssumption, IInv, Next
  PROVE  Listed'
<1> USE DEF Versioned, IInv, Listed, CacheTypes, StoreTypes
<1>1. ASSUME NEW c \in Calls, Send(c) \/ RefusedReply(c) \/ Unknown(c)
      PROVE  Listed'
  BY <1>1 DEF Send, cacheVars, RefusedReply, Unknown
<1>2. ASSUME NEW c \in Calls, Reply(c) \/ Lose(c) PROVE Listed'
  BY <1>2 DEF Reply, Lose, Stale
<1>3. ASSUME NEW c \in Calls, Return(c) \/ EvictStart(c) \/ EvictDone(c)
      PROVE  Listed'
  BY <1>3 DEF Return, cacheVars, EvictStart, EvictDone
<1>4. ASSUME NEW c \in Calls, NEW i \in Instances, EvictOne(c, i) PROVE Listed'
  BY <1>4 DEF EvictOne, Restrict
<1>5. ASSUME NEW i \in Instances,
             add_client_side_caching(i) \/ remove_client_side_caching(i)
      PROVE  Listed'
  BY <1>5 DEF add_client_side_caching, remove_client_side_caching, Stale
<1>6. ASSUME NEW i \in Instances, NEW k \in Keys, FillRead(i, k) PROVE Listed'
  BY <1>6 DEF FillRead
<1>7. ASSUME NEW i \in Instances, NEW k \in Keys, FillStore(i, k) PROVE Listed'
  BY <1>7 DEF FillStore, Insert
<1>8. ASSUME NEW n \in Nodes, Upgrade(n) PROVE Listed'
  BY <1>8 DEF Upgrade, cacheVars
<1> QED
  BY <1>1, <1>2, <1>3, <1>4, <1>5, <1>6, <1>7, <1>8 DEF Next, Answer, After

\* An eviction meets every cache that was registered when the write was done, or
\* the cache has left in between.
LEMMA FreshStep ==
  ASSUME CommandAssumption, IInv, Next, NEW d \in Calls
  PROVE  Fresh(d)'
<1> USE KeyIsAKey
    DEF Versioned, Fresh, IsWrite, Key, IInv, CallTypes, StoreTypes, CacheTypes
<1>1. ASSUME NEW c \in Calls, Send(c) \/ RefusedReply(c) \/ Unknown(c) PROVE Fresh(d)'
  BY <1>1 DEF Send, Goto, cacheVars, RefusedReply, Fail, Finish, Unknown, Attempt
<1>2. ASSUME NEW c \in Calls, Reply(c) PROVE Fresh(d)'
  BY <1>2 DEF Reply, Goto, Changed
<1>3. ASSUME NEW c \in Calls, Lose(c) PROVE Fresh(d)'
  BY <1>3 DEF Lose, Changed, Fail, Finish, Goto
<1>4. ASSUME NEW c \in Calls, Return(c) PROVE Fresh(d)'
  BY <1>4 DEF Return, Finish, cacheVars, Goto, Listed
<1>5. ASSUME NEW c \in Calls, EvictStart(c) PROVE Fresh(d)'
  BY <1>5 DEF EvictStart, Goto, cacheVars, Listed
<1>6. ASSUME NEW c \in Calls, EvictDone(c) PROVE Fresh(d)'
  BY <1>6 DEF EvictDone, Finish, cacheVars, Goto
<1>7. ASSUME NEW c \in Calls, NEW i \in Instances, EvictOne(c, i) PROVE Fresh(d)'
  BY <1>7 DEF EvictOne, Restrict
<1>8. ASSUME NEW i \in Instances, remove_client_side_caching(i) PROVE Fresh(d)'
  BY <1>8 DEF remove_client_side_caching, Stale
<1>9. ASSUME NEW i \in Instances, add_client_side_caching(i) PROVE Fresh(d)'
  BY <1>9 DEF add_client_side_caching
<1>10. ASSUME NEW i \in Instances, NEW k \in Keys, FillRead(i, k) PROVE Fresh(d)'
  BY <1>10 DEF FillRead, callVars
<1>11. ASSUME NEW i \in Instances, NEW k \in Keys, FillStore(i, k) PROVE Fresh(d)'
  BY <1>11 DEF FillStore, Insert, callVars
<1>12. ASSUME NEW n \in Nodes, Upgrade(n) PROVE Fresh(d)'
  BY <1>12 DEF Upgrade, callVars, cacheVars
<1> QED
  BY <1>1, <1>2, <1>3, <1>4, <1>5, <1>6, <1>7, <1>8, <1>9, <1>10, <1>11, <1>12
    DEF Next, Answer, After

-----------------------------------------------------------------------------
(* The theorems                                                              *)

\* IInv holds at first.
LEMMA InitIInv == ASSUME CommandAssumption, Init PROVE IInv
<1>1. CallTypes
  BY DEF Init, CallTypes, Names, CommandAssumption
<1>2. StoreTypes
  BY DEF Init, StoreTypes, CommandAssumption
<1>3. CacheTypes
  <2>1. \A i \in Instances : DOMAIN cache[i] = {} /\ DOMAIN reading[i] = {}
    BY DEF Init
  <2> QED
    BY <2>1 DEF Init, CacheTypes, Versioned
<1>4. ASSUME NEW c \in Calls PROVE Attempt(c) /\ Fresh(c)
  BY KeyIsAKey DEF Init, Attempt, Fresh
<1>5. Listed
  BY DEF Init, Listed
<1> QED
  BY <1>1, <1>2, <1>3, <1>4, <1>5 DEF IInv

\* IInv is inductive.
LEMMA IInvHolds == CommandAssumption /\ Spec => []IInv
<1> SUFFICES ASSUME CommandAssumption PROVE Spec => []IInv
  OBVIOUS
<1>1. Init => IInv
  BY InitIInv
<1>2. IInv /\ [Next]_vars => IInv'
  <2> SUFFICES ASSUME IInv, [Next]_vars PROVE IInv'
    OBVIOUS
  <2>1. CASE Next
    <3>1. CallTypes' /\ StoreTypes' /\ CacheTypes' /\ Listed'
      BY <2>1, CallStep, StoreStep, CacheStep, ListedStep DEF IInv
    <3>2. ASSUME NEW c \in Calls PROVE Attempt(c)' /\ Fresh(c)'
      BY <2>1, AttemptStep, FreshStep
    <3> QED
      BY <3>1, <3>2 DEF IInv
  <2>2. CASE UNCHANGED vars
    BY <2>2
       DEF vars, callVars, cacheVars, IInv, CallTypes, StoreTypes, CacheTypes,
           Versioned, Names, Listed, Attempt, Fresh, Key, IsWrite
  <2> QED
    BY <2>1, <2>2
<1> QED
  BY <1>1, <1>2, PTL DEF Spec

\* Every variable keeps its type, whichever commands are called.
THEOREM TypeCorrect == ASSUME CommandAssumption PROVE Spec => []TypeOK
<1>1. IInv => TypeOK
  BY DEF IInv, TypeOK, CallTypes, StoreTypes, CacheTypes, Versioned, Names
<1> QED
  BY <1>1, IInvHolds, PTL

\* RedisCommand::execute: no command fails because a server does not know its
\* name, and every command is sent under at most two names.
THEOREM FallbackEnds == ASSUME CommandAssumption PROVE Spec => []NeverUnknown
<1>1. IInv => NeverUnknown
  BY DEF IInv, Attempt, NeverUnknown
<1> QED
  BY <1>1, IInvHolds, PTL

\* async0: once a write returned Ok, a cache holds a value of its key from before
\* the write only if it stored it when it was old already, or was not registered
\* while it was old; whatever caches register, leave, come back and fill
\* themselves meanwhile.
THEOREM EvictionIsComplete == ASSUME CommandAssumption PROVE Spec => []FreshAfterOk
<1>1. IInv => FreshAfterOk
  <2> SUFFICES ASSUME IInv, NEW c \in Calls \ Pipelined, result[c] = "ok", IsWrite(c),
                      NEW i \in Instances, Key(c) \in DOMAIN cache[i],
                      <<i, Key(c)>> \notin late
               PROVE  cache[i][Key(c)] \geq wrote[c]
    BY DEF FreshAfterOk
  <2>1. pc[c] = "done" /\ todo[c] = {}
    BY DEF IInv, Attempt
  <2> QED
    BY <2>1 DEF IInv, Fresh
<1> QED
  BY <1>1, IInvHolds, PTL
=============================================================================
