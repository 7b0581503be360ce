----------------------- MODULE RedisQueueBatchProofs ------------------------
(***************************************************************************)
(* What holds of RedisQueueBatch for every number of calls, nodes, clients *)
(* of the pool and other users, and for every option: the types, the state *)
(* lock, that no caller is orphaned, and what a batch can rely on as long  *)
(* as all it sends takes one connection, which does not break.  Nothing in *)
(* the code makes that so: pool.next() hands out another client each time, *)
(* as the run rq_round_robin shows.                                        *)
(***************************************************************************)
EXTENDS RedisQueueBatch, SequenceLemmas

-----------------------------------------------------------------------------
(* Any pool: types and the state lock.                                       *)

\* The batch has a slot once a command was sent, and takes it along.
Slotted ==
  /\ slot = NoNode => entries = <<>> /\ \A c \in Callers : pc[c] # "open"
  /\ phase \in {"taken", "waiting"} => target # NoNode

TypeInv == CallTypes /\ BatchTypes /\ ExecTypes /\ RedisTypes /\ LockHeld /\ Slotted

Txns == [open : BOOLEAN, dirty : BOOLEAN, items : Seq(Values)]

\* What is fixed about a pool.
LEMMA PoolFacts ==
  ASSUME ConfigAssumption, RedisTypes
  PROVE  /\ \A c \in Commands : Conn(NodeOf[c]) \in Connections
         /\ \A n \in Nodes : Conn(n) \in Connections
         /\ PoolNext => turn' \in Clients
         /\ \A c \in Callers : c \in Commands /\ c \in Values /\ c # Nobody
<1>1. PoolNext => turn' \in Clients
  <2> SUFFICES ASSUME PoolNext PROVE turn' \in Clients
    OBVIOUS
  <2>1. PoolSize \in Nat /\ PoolSize > 0 /\ turn \in Int
    BY DEF ConfigAssumption, RedisTypes, Clients
  <2>2. turn' = (turn + 1) % PoolSize
    BY DEF PoolNext
  <2> QED
    BY <2>1, <2>2 DEF Clients
<1>2. \A n \in Nodes : Conn(n) \in Connections
  BY DEF RedisTypes, Conn, Connections
<1>3. \A c \in Commands : NodeOf[c] \in Nodes
  BY DEF ConfigAssumption
<1>4. \A c \in Callers : c \in Commands /\ c \in Values /\ c # Nobody
  BY NullAssumption DEF Callers, Values, Nobody
<1> QED
  BY <1>1, <1>2, <1>3, <1>4

\* A connection that is used, is late or breaks, or not.
LEMMA WireTypes ==
  ASSUME ConfigAssumption, RedisTypes, NEW k \in Connections
  PROVE  /\ Use(k) => turn' \in Clients /\ used' \subseteq Connections
         /\ InTime \/ Late \/ Break(k) =>
              /\ timeouts' \in 0 .. MaxTimeouts /\ losses' \in 0 .. MaxLosses
              /\ lost' \subseteq Connections
<1>1. MaxTimeouts \in Nat /\ MaxLosses \in Nat
  BY DEF ConfigAssumption
<1>2. /\ timeouts \in 0 .. MaxTimeouts /\ losses \in 0 .. MaxLosses
      /\ used \subseteq Connections /\ lost \subseteq Connections
  BY DEF RedisTypes
<1>3. Use(k) => turn' \in Clients /\ used' \subseteq Connections
  BY <1>2, PoolFacts DEF Use
<1> QED
  BY <1>1, <1>2, <1>3 DEF InTime, Late, Break

\* The transaction of one connection changes.
LEMMA SetTypes ==
  ASSUME RedisTypes, NEW k \in Connections
  PROVE  /\ \A t \in Txns : Set(k, t) => txn' \in [Connections -> Txns]
         /\ NoTxn \in Txns /\ NewTxn \in Txns
         /\ [txn[k] EXCEPT !.dirty = txn[k].open] \in Txns
         /\ \A v \in Values : [txn[k] EXCEPT !.items = Append(txn[k].items, v)] \in Txns
<1>1. txn \in [Connections -> Txns]
  BY DEF RedisTypes, Txns
<1>2. NoTxn \in Txns /\ NewTxn \in Txns
  BY DEF NoTxn, NewTxn, Txns
<1>3. txn[k] \in Txns
  BY <1>1
<1>4. [txn[k] EXCEPT !.dirty = txn[k].open] \in Txns
  BY <1>3 DEF Txns
<1>5. ASSUME NEW v \in Values
      PROVE  [txn[k] EXCEPT !.items = Append(txn[k].items, v)] \in Txns
  <2> DEFINE more == Append(txn[k].items, v)
  <2>1. more \in Seq(Values)
    BY <1>3 DEF Txns
  <2> HIDE DEF more
  <2>2. [txn[k] EXCEPT !.items = more] \in Txns
    BY <1>3, <2>1 DEF Txns
  <2> QED
    BY <2>2 DEF more
<1> HIDE DEF Txns
<1> QED
  BY <1>1, <1>2, <1>4, <1>5 DEF Set

\* The transactions of Redis and its log after it received or refused a command.
LEMMA ReceiveTypes ==
  ASSUME RedisTypes, NEW k \in Connections, NEW v \in Values, Receive(k, v) \/ Refuse(k)
  PROVE  txn' \in [Connections -> Txns] /\ log' \in Seq(Values)
<1>1. log \in Seq(Values) /\ txn \in [Connections -> Txns]
  BY DEF RedisTypes, Txns
<1>2. Append(log, v) \in Seq(Values)
  BY <1>1
<1>3. \/ UNCHANGED txn /\ log' = Append(log, v)
      \/ /\ log' = log
         /\ \/ Set(k, [txn[k] EXCEPT !.items = Append(txn[k].items, v)])
            \/ Set(k, [txn[k] EXCEPT !.dirty = txn[k].open])
  BY DEF Receive, Refuse
<1> QED
  BY <1>1, <1>2, <1>3, SetTypes

\* A caller that fails gives the lock back.
LEMMA FailTypes ==
  ASSUME ConfigAssumption, CallTypes, LockHeld, NEW c \in Callers, CallFails(c),
         holder \in {c, Nobody}
  PROVE  /\ pc' \in [Commands -> {"new", "indexed", "locked", "open", "queued", "returned"}]
         /\ answer' \in [Commands -> Answers]
         /\ holder' \in Callers \cup {Nobody}
         /\ LockHeld'
<1>1. c \in Commands /\ Nobody \notin Callers
  BY NullAssumption DEF Callers, Nobody
<1>2. Failure("failed") \in Answers
  BY DEF Failure, Answers, Values
<1>3. pc' = [pc EXCEPT ![c] = "returned"] /\ answer' = [answer EXCEPT ![c] = Failure("failed")]
      /\ holder' = Nobody
  BY DEF CallFails
<1>4. \A d \in Callers : d \in Commands
  BY DEF Callers
<1>5. LockHeld'
  BY <1>1, <1>3, <1>4 DEF LockHeld, CallTypes
<1> QED
  BY <1>1, <1>2, <1>3, <1>5 DEF CallTypes

\* EXEC and WAIT answer with replies.
LEMMA AnswerTypes ==
  ASSUME NEW r \in Replies, NEW i \in Nat \ {0}
  PROVE  ExecAnswer(r, i) \in Answers /\ ExecAnswer(r, i).tag # "none"
<1>1. CASE r.tag = "array"
  <2>1. r.items \in Seq(Values)
    BY <1>1 DEF Replies
  <2>2. i <= Len(r.items) => r.items[i] \in Values
    BY <2>1
  <2> QED
    BY <1>1, <2>2 DEF ExecAnswer, Answers, Ok, Failure, Values
<1>2. CASE r.tag # "array"
  BY <1>2 DEF ExecAnswer, Answers, Failure, Values
<1> QED
  BY <1>1, <1>2

\* The state of the lock in between.
LEMMA HolderFacts ==
  ASSUME LockHeld, NEW c \in Callers, pc[c] \in {"locked", "open"}
  PROVE  holder = c /\ \A d \in Callers \ {c} : pc[d] \notin {"locked", "open"}
BY DEF LockHeld

\* The steps of async0 keep the types.
LEMMA CallTypeStep ==
  ASSUME ConfigAssumption, TypeInv, NEW c \in Callers, FetchIndex(c) \/ Call(c)
  PROVE  CallTypes' /\ BatchTypes' /\ ExecTypes' /\ RedisTypes' /\ LockHeld'
<1>1. CallTypes /\ BatchTypes /\ ExecTypes /\ RedisTypes /\ LockHeld /\ Slotted
  BY DEF TypeInv
<1>2. /\ c \in Commands /\ c \in Values /\ c # Nobody
      /\ Conn(NodeOf[c]) \in Connections /\ NodeOf[c] \in Nodes
      /\ \A d \in Callers : d \in Commands
  BY <1>1, PoolFacts DEF ConfigAssumption
<1>3. CASE FetchIndex(c)
  <2>1. CallTypes' /\ LockHeld'
    BY <1>1, <1>2, <1>3 DEF FetchIndex, CallTypes, BatchTypes, LockHeld
  <2>2. BatchTypes'
    BY <1>1, <1>3 DEF FetchIndex, BatchTypes
  <2>3. ExecTypes' /\ RedisTypes'
    BY <1>1, <1>3 DEF FetchIndex, ExecTypes, RedisTypes, execVars, redisVars, histVars
  <2> QED
    BY <2>1, <2>2, <2>3
<1>4. CASE Lock(c)
  <2>1. ExecTypes' /\ RedisTypes'
    BY <1>1, <1>4 DEF Lock, ExecTypes, RedisTypes, execVars, redisVars, histVars
  <2>2. UNCHANGED <<idx, executed, next_index, slot, entries>>
    BY <1>4 DEF Lock
  <2>3. CASE is_wait_command(c)
    <3>1. CallFails(c) /\ holder = Nobody
      BY <1>4, <2>3 DEF Lock
    <3>2. /\ pc' \in [Commands -> {"new", "indexed", "locked", "open", "queued", "returned"}]
          /\ answer' \in [Commands -> Answers]
          /\ holder' \in Callers \cup {Nobody} /\ LockHeld'
      BY <1>1, <3>1, FailTypes
    <3> QED
      BY <1>1, <2>1, <2>2, <3>2 DEF CallTypes, BatchTypes
  <2>4. CASE ~is_wait_command(c)
    <3>1. /\ pc' \in {[pc EXCEPT ![c] = "locked"], [pc EXCEPT ![c] = "open"]}
          /\ holder' = c /\ answer' = answer /\ holder = Nobody
      BY <1>4, <2>4 DEF Lock
    <3>2. CallTypes' /\ BatchTypes'
      BY <1>1, <1>2, <2>2, <3>1 DEF CallTypes, BatchTypes
    <3>3. \A d \in Callers : pc[d] \notin {"locked", "open"}
      BY <1>1, <3>1, NullAssumption DEF LockHeld, Callers, Nobody
    <3>4. LockHeld'
      BY <1>1, <1>2, <3>1, <3>3 DEF LockHeld, CallTypes
    <3> QED
      BY <2>1, <3>2, <3>4
  <2> QED
    BY <2>3, <2>4
<1>5. CASE SendMulti(c)
  <2> DEFINE k == Conn(NodeOf[c])
  <2>1. /\ UNCHANGED <<idx, executed, next_index, entries, log, strays, unheard>>
        /\ slot' = NodeOf[c] /\ holder = c /\ k \in Connections
        /\ Use(k) /\ (InTime \/ Late \/ Break(k))
        /\ UNCHANGED txn \/ Set(k, NewTxn) \/ Set(k, NoTxn)
        /\ CallFails(c) \/ Opened(c)
    BY <1>1, <1>2, <1>5, HolderFacts DEF SendMulti
  <2>2. ExecTypes'
    BY <1>1, <1>5 DEF SendMulti, ExecTypes, execVars
  <2>3. RedisTypes'
    <3> HIDE DEF k
    <3>1. txn' \in [Connections -> Txns]
      BY <1>1, <2>1, SetTypes DEF RedisTypes, Txns
    <3>2. /\ turn' \in Clients /\ used' \subseteq Connections
          /\ timeouts' \in 0 .. MaxTimeouts /\ losses' \in 0 .. MaxLosses
          /\ lost' \subseteq Connections
      BY <1>1, <2>1, WireTypes
    <3> QED
      BY <1>1, <2>1, <3>1, <3>2 DEF RedisTypes, Txns
  <2>4. CASE Opened(c)
    <3>1. CallTypes' /\ BatchTypes'
      BY <1>1, <1>2, <2>1, <2>4 DEF Opened, CallTypes, BatchTypes
    <3>2. LockHeld'
      BY <1>1, <1>2, <2>1, <2>4 DEF Opened, LockHeld, CallTypes
    <3> QED
      BY <2>2, <2>3, <3>1, <3>2
  <2>5. CASE CallFails(c)
    <3>1. /\ pc' \in [Commands -> {"new", "indexed", "locked", "open", "queued", "returned"}]
          /\ answer' \in [Commands -> Answers]
          /\ holder' \in Callers \cup {Nobody} /\ LockHeld'
      BY <1>1, <2>1, <2>5, FailTypes
    <3>2. CallTypes' /\ BatchTypes'
      BY <1>1, <1>2, <2>1, <3>1 DEF CallTypes, BatchTypes
    <3> QED
      BY <2>2, <2>3, <3>1, <3>2
  <2> QED
    BY <2>1, <2>4, <2>5
<1>6. CASE SendCommand(c)
  <2> DEFINE k == Conn(NodeOf[c])
  <2>1. /\ UNCHANGED <<idx, answer, executed, next_index, slot, strays, unheard>>
        /\ Use(k) /\ holder = c /\ k \in Connections
        /\ \/ Receive(k, c) /\ InTime
           \/ Break(k) /\ Set(k, NoTxn) /\ log' = Append(log, c)
        /\ entries' = Append(entries, c) /\ pc' = [pc EXCEPT ![c] = "queued"]
        /\ holder' = Nobody
    BY <1>1, <1>2, <1>6, HolderFacts DEF SendCommand
  <2>2. ExecTypes'
    BY <1>1, <1>6 DEF SendCommand, ExecTypes, execVars
  <2>3. RedisTypes'
    <3> HIDE DEF k
    <3>1. txn' \in [Connections -> Txns] /\ log' \in Seq(Values)
      <4>1. Append(log, c) \in Seq(Values)
        BY <1>1, <1>2 DEF RedisTypes
      <4> QED
        BY <1>1, <1>2, <2>1, <4>1, SetTypes, ReceiveTypes
    <3>2. /\ turn' \in Clients /\ used' \subseteq Connections
          /\ timeouts' \in 0 .. MaxTimeouts /\ losses' \in 0 .. MaxLosses
          /\ lost' \subseteq Connections
      BY <1>1, <2>1, WireTypes
    <3> QED
      BY <1>1, <2>1, <3>1, <3>2 DEF RedisTypes, Txns
  <2>4. CallTypes' /\ BatchTypes'
    BY <1>1, <1>2, <2>1 DEF CallTypes, BatchTypes
  <2>5. LockHeld'
    BY <1>1, <1>2, <2>1, NullAssumption DEF LockHeld, CallTypes, Callers, Nobody
  <2> QED
    BY <2>2, <2>3, <2>4, <2>5
<1>7. CASE SendCommandFails(c)
  <2> DEFINE k == Conn(NodeOf[c])
  <2>1. /\ CallFails(c) /\ holder = c /\ k \in Connections
        /\ UNCHANGED <<idx, executed, next_index, slot, entries, unheard>>
        /\ Use(k) /\ (InTime \/ Late \/ Break(k)) /\ strays' \in {strays, strays \cup {c}}
        /\ \/ Refuse(k) \/ Receive(k, c)
           \/ Set(k, NoTxn) /\ log' \in {log, Append(log, c)}
    BY <1>1, <1>2, <1>7, HolderFacts DEF SendCommandFails
  <2>2. ExecTypes'
    BY <1>1, <1>7 DEF SendCommandFails, ExecTypes, execVars
  <2>3. /\ pc' \in [Commands -> {"new", "indexed", "locked", "open", "queued", "returned"}]
        /\ answer' \in [Commands -> Answers]
        /\ holder' \in Callers \cup {Nobody} /\ LockHeld'
    BY <1>1, <2>1, FailTypes
  <2>4. RedisTypes'
    <3> HIDE DEF k
    <3>1. txn' \in [Connections -> Txns] /\ log' \in Seq(Values)
      <4>1. log \in Seq(Values) /\ Append(log, c) \in Seq(Values)
        BY <1>1, <1>2 DEF RedisTypes
      <4> QED
        BY <1>1, <1>2, <2>1, <4>1, SetTypes, ReceiveTypes
    <3>2. /\ turn' \in Clients /\ used' \subseteq Connections
          /\ timeouts' \in 0 .. MaxTimeouts /\ losses' \in 0 .. MaxLosses
          /\ lost' \subseteq Connections
      BY <1>1, <2>1, WireTypes
    <3> QED
      BY <1>1, <1>2, <2>1, <3>1, <3>2 DEF RedisTypes, Txns
  <2>5. CallTypes' /\ BatchTypes'
    BY <1>1, <2>1, <2>3 DEF CallTypes, BatchTypes
  <2> QED
    BY <2>2, <2>3, <2>4, <2>5
<1> QED
  BY <1>3, <1>4, <1>5, <1>6, <1>7 DEF Call

\* So do those of execute_async and discard_async.
LEMMA ExecTypeStep ==
  ASSUME ConfigAssumption, TypeInv,
         DiscardClaim \/ DiscardDrain \/ ExecuteClaim \/ Executor \/ ExecuteTimeout
  PROVE  CallTypes' /\ BatchTypes' /\ ExecTypes' /\ RedisTypes' /\ LockHeld'
<1>1. /\ CallTypes /\ BatchTypes /\ ExecTypes /\ RedisTypes /\ LockHeld /\ Slotted
      /\ SyncSlaves \in Nat /\ MaxLosses \in Nat
  BY DEF TypeInv, ConfigAssumption
<1>2. \A why \in {"discarded", "closed"} : Failure(why) \in Answers
  BY DEF Failure, Answers, Values
<1>3. CASE DiscardClaim \/ ExecuteClaim
  <2>1. UNCHANGED <<pc, idx, answer, next_index, slot, entries, holder, taken, execReply,
                    synced, target, redisVars, histVars>>
        /\ executed' = TRUE
        /\ phase' \in {phase, "refused", "claimed"}
        /\ discard' \in {discard, "refused", "claimed"}
    BY <1>3 DEF DiscardClaim, ExecuteClaim, callVars
  <2>2. CallTypes' /\ LockHeld' /\ BatchTypes' /\ RedisTypes'
    BY <1>1, <2>1 DEF CallTypes, LockHeld, BatchTypes, RedisTypes, redisVars, histVars
  <2>3. ExecTypes'
    BY <1>1, <2>1 DEF ExecTypes
  <2> QED
    BY <2>2, <2>3
<1>4. CASE DiscardDrain
  <2>1. CallTypes' /\ LockHeld'
    BY <1>1, <1>2, <1>4 DEF DiscardDrain, CallTypes, LockHeld
  <2>2. BatchTypes' /\ RedisTypes'
    BY <1>1, <1>4 DEF DiscardDrain, BatchTypes, RedisTypes, redisVars, histVars
  <2>3. ExecTypes'
    BY <1>1, <1>4 DEF DiscardDrain, ExecTypes
  <2> QED
    BY <2>1, <2>2, <2>3
<1>5. CASE ExecuteTake
  <2>1. CallTypes' /\ LockHeld' /\ RedisTypes'
    BY <1>1, <1>5 DEF ExecuteTake, CallTypes, LockHeld, RedisTypes, callVars, redisVars,
                         histVars
  <2>2. BatchTypes' /\ ExecTypes'
    BY <1>1, <1>5 DEF ExecuteTake, BatchTypes, ExecTypes
  <2> QED
    BY <2>1, <2>2
<1>6. CASE SendExec
  <2> DEFINE k == Conn(target)
             items == txn[k].items
  <2>1. CallTypes' /\ LockHeld' /\ BatchTypes'
    BY <1>1, <1>6 DEF SendExec, CallTypes, LockHeld, BatchTypes, callVars, batchVars
  <2>2. k \in Connections /\ items \in Seq(Values)
    <3>1. target \in Nodes
      BY <1>1, <1>6 DEF SendExec, Slotted, ExecTypes
    <3>2. k \in Connections
      BY <1>1, <3>1, PoolFacts
    <3> HIDE DEF k
    <3> QED
      BY <1>1, <3>2 DEF RedisTypes
  <2>3. /\ Use(k) /\ Set(k, NoTxn) /\ (InTime \/ Late \/ Break(k))
        /\ log' \in {log, log \o items}
        /\ \/ execReply' = ErrorReply
           \/ \E failing \in SUBSET DOMAIN items :
                execReply' = ArrayReply(Spoilt(items, failing))
        /\ unheard' \in {unheard, TRUE} /\ strays' = strays
    BY <1>6 DEF SendExec
  <2> HIDE DEF k, items
  <2>4. ASSUME NEW failing \in SUBSET DOMAIN items PROVE Spoilt(items, failing) \in Seq(Values)
    BY <2>2 DEF Spoilt, Values
  <2>5. execReply' \in Replies
    BY <2>3, <2>4 DEF ErrorReply, ArrayReply, Replies
  <2>6. ExecTypes'
    BY <1>1, <1>6, <2>5 DEF SendExec, ExecTypes
  <2>7. RedisTypes'
    <3>1. log' \in Seq(Values)
      <4>1. log \in Seq(Values)
        BY <1>1 DEF RedisTypes
      <4>2. log \o items \in Seq(Values)
        BY <2>2, <4>1
      <4> QED
        BY <2>3, <4>1, <4>2
    <3>2. txn' \in [Connections -> Txns]
      BY <1>1, <2>2, <2>3, SetTypes
    <3>3. /\ turn' \in Clients /\ used' \subseteq Connections
          /\ timeouts' \in 0 .. MaxTimeouts /\ losses' \in 0 .. MaxLosses
          /\ lost' \subseteq Connections
      BY <1>1, <2>2, <2>3, WireTypes
    <3> QED
      BY <1>1, <2>3, <3>1, <3>2, <3>3 DEF RedisTypes, Txns
  <2> QED
    BY <2>1, <2>6, <2>7
<1>7. CASE SendWait
  <2> DEFINE k == Conn(target)
  <2>1. CallTypes' /\ LockHeld' /\ BatchTypes'
    BY <1>1, <1>7 DEF SendWait, CallTypes, LockHeld, BatchTypes, callVars, batchVars
  <2>2. /\ k \in Connections /\ turn' \in Clients
        /\ UNCHANGED <<log, timeouts, losses, used, lost, strays, unheard>>
    BY <1>1, <1>7, PoolFacts DEF SendWait, Slotted, ExecTypes, histVars
  <2>3. synced' \in 0 .. SyncSlaves
    BY <1>1, <1>7 DEF SendWait, extract_synced_slaves, StatusReply, ErrorReply, IntegerReply
  <2>4. ExecTypes'
    BY <1>1, <1>7, <2>3 DEF SendWait, ExecTypes
  <2>5. \/ txn' = txn
        \/ Set(k, [txn[k] EXCEPT !.items = Append(txn[k].items, Null)])
    BY <1>7 DEF SendWait
  <2> HIDE DEF k
  <2>6. RedisTypes'
    <3>1. txn' \in [Connections -> Txns]
      BY <1>1, <2>2, <2>5, SetTypes DEF RedisTypes, Txns, Values
    <3> QED
      BY <1>1, <2>2, <3>1 DEF RedisTypes, Txns
  <2> QED
    BY <2>1, <2>4, <2>6
<1>8. CASE Distribute
  <2>1. LockHeld' /\ BatchTypes' /\ ExecTypes' /\ RedisTypes'
    BY <1>1, <1>8 DEF Distribute, LockHeld, BatchTypes, ExecTypes, RedisTypes, batchVars,
                      redisVars, histVars
  <2>2. ASSUME NEW c \in Commands PROVE answer'[c] \in Answers
    <3>1. CASE c \notin Range(taken)
      BY <1>1, <1>8, <3>1 DEF Distribute, CallTypes
    <3>2. CASE c \in Range(taken) /\ SkipResult
      BY <1>8, <3>2 DEF Distribute, Ok, Answers, Values
    <3>3. CASE c \in Range(taken) /\ ~SkipResult
      <4> DEFINE i == CHOOSE i \in DOMAIN taken : taken[i] = c
      <4>1. i \in DOMAIN taken
        BY <3>3 DEF Range
      <4>2. DOMAIN taken = 1 .. Len(taken) /\ Len(taken) \in Nat
        BY <1>1 DEF ExecTypes
      <4>3. answer'[c] = ExecAnswer(execReply, i)
        BY <1>8, <3>3 DEF Distribute
      <4> HIDE DEF i
      <4> QED
        BY <1>1, <4>1, <4>2, <4>3, AnswerTypes DEF ExecTypes
    <3> QED
      BY <3>1, <3>2, <3>3
  <2>3. CallTypes'
    <3>1. \E f : answer' = [c \in Commands |-> f[c]]
      <4> DEFINE f == [c \in Commands |->
             IF c \notin Range(taken) THEN answer[c]
             ELSE IF SkipResult THEN Ok(Null)
             ELSE ExecAnswer(execReply, CHOOSE i \in DOMAIN taken : taken[i] = c)]
      <4>1. answer' = f
        BY <1>8 DEF Distribute
      <4>2. f = [c \in Commands |-> f[c]]
        OBVIOUS
      <4> HIDE DEF f
      <4> QED
        BY <4>1, <4>2
    <3>2. answer' \in [Commands -> Answers]
      BY <2>2, <3>1
    <3> QED
      BY <1>1, <1>8, <3>2 DEF Distribute, CallTypes
  <2> QED
    BY <2>1, <2>3
<1>9. CASE ExecuteTimeout
  <2>1. LockHeld' /\ BatchTypes' /\ ExecTypes' /\ RedisTypes'
    BY <1>1, <1>9 DEF ExecuteTimeout, LockHeld, BatchTypes, ExecTypes, RedisTypes, batchVars,
                      redisVars, histVars
  <2>2. CallTypes'
    BY <1>1, <1>2, <1>9 DEF ExecuteTimeout, CallTypes
  <2> QED
    BY <2>1, <2>2
<1> QED
  BY <1>3, <1>4, <1>5, <1>6, <1>7, <1>8, <1>9 DEF Executor

\* And the commands of other users, and a connection that breaks by itself.
LEMMA PoolTypeStep ==
  ASSUME ConfigAssumption, TypeInv,
         (\E f \in Foreign : ForeignCommand(f)) \/ (\E k \in Connections : Disconnect(k))
  PROVE  CallTypes' /\ BatchTypes' /\ ExecTypes' /\ RedisTypes' /\ LockHeld'
<1>1. CallTypes /\ BatchTypes /\ ExecTypes /\ RedisTypes /\ LockHeld
  BY DEF TypeInv
<1>2. ASSUME NEW f \in Foreign, ForeignCommand(f)
      PROVE  CallTypes' /\ BatchTypes' /\ ExecTypes' /\ RedisTypes' /\ LockHeld'
  <2>1. f \in Commands /\ f \notin Callers /\ f \in Values /\ Conn(NodeOf[f]) \in Connections
    BY <1>1, PoolFacts DEF ConfigAssumption, Callers, Values
  <2>2. CallTypes' /\ BatchTypes' /\ ExecTypes' /\ LockHeld'
    BY <1>1, <1>2, <2>1 DEF ForeignCommand, CallTypes, BatchTypes, ExecTypes, LockHeld,
         Callers, batchVars, execVars
  <2>3. /\ Receive(Conn(NodeOf[f]), f) /\ turn' \in Clients
        /\ strays' \in {strays, strays \cup {f}}
        /\ UNCHANGED <<timeouts, losses, used, lost, unheard>>
    BY <1>1, <1>2, PoolFacts DEF ForeignCommand
  <2>4. txn' \in [Connections -> Txns] /\ log' \in Seq(Values)
    BY <1>1, <2>1, <2>3, ReceiveTypes
  <2>5. RedisTypes'
    BY <1>1, <2>1, <2>3, <2>4 DEF RedisTypes, Txns
  <2> QED
    BY <2>2, <2>5
<1>3. ASSUME NEW k \in Connections, Disconnect(k)
      PROVE  CallTypes' /\ BatchTypes' /\ ExecTypes' /\ RedisTypes' /\ LockHeld'
  <2>1. CallTypes' /\ BatchTypes' /\ ExecTypes' /\ LockHeld'
    BY <1>1, <1>3 DEF Disconnect, CallTypes, BatchTypes, ExecTypes, LockHeld, callVars,
         batchVars, execVars
  <2>2. /\ Break(k) /\ Set(k, NoTxn) /\ log' = log
        /\ UNCHANGED <<turn, used, strays, unheard>>
    BY <1>3 DEF Disconnect, Lose
  <2>3. txn' \in [Connections -> Txns]
    BY <1>1, <2>2, SetTypes
  <2>4. RedisTypes'
    BY <1>1, <2>2, <2>3, WireTypes DEF RedisTypes, Txns
  <2> QED
    BY <2>1, <2>4
<1> QED
  BY <1>2, <1>3

\* The slot is taken before the first command is sent, and kept.
LEMMA SlottedStep ==
  ASSUME ConfigAssumption, TypeInv, [Next]_vars
  PROVE  Slotted'
<1>1. Slotted /\ CallTypes /\ BatchTypes /\ LockHeld /\ ExecTypes
  BY DEF TypeInv
<1>2. UNCHANGED <<slot, entries, pc, phase, target>> => Slotted'
  BY <1>1 DEF Slotted
<1>3. ASSUME NEW c \in Callers, SendMulti(c) PROVE Slotted'
  <2>1. slot' # NoNode /\ UNCHANGED <<phase, target>>
    BY <1>3 DEF SendMulti, ConfigAssumption, Callers, execVars
  <2> QED
    BY <1>1, <2>1 DEF Slotted
<1>4. ASSUME NEW c \in Callers, FetchIndex(c) \/ Lock(c) \/ SendCommand(c) \/ SendCommandFails(c)
      PROVE  Slotted'
  <2>1. UNCHANGED <<slot, phase, target>> /\ c \in Commands /\ \A d \in Callers : d \in Commands
    BY <1>4 DEF FetchIndex, Lock, SendCommand, SendCommandFails, execVars, Callers
  <2> SUFFICES ASSUME slot = NoNode
               PROVE  entries' = <<>> /\ \A d \in Callers : pc'[d] # "open"
    BY <1>1, <2>1 DEF Slotted
  <2>2. entries = <<>> /\ \A d \in Callers : pc[d] # "open"
    BY <1>1 DEF Slotted
  <2>3. ~SendCommand(c) /\ ~SendCommandFails(c)
    BY <2>2 DEF SendCommand, SendCommandFails
  <2>4. \A d \in Callers : pc'[d] # "open"
    <3>1. \E s \in {"indexed", "locked", "returned"} : pc' = [pc EXCEPT ![c] = s]
      BY <1>4, <2>2, <2>3 DEF FetchIndex, Lock, CallFails
    <3> QED
      BY <1>1, <2>1, <2>2, <3>1 DEF CallTypes
  <2> QED
    BY <1>4, <2>2, <2>3, <2>4 DEF FetchIndex, Lock
<1>5. ASSUME DiscardClaim \/ DiscardDrain \/ ExecuteClaim \/ SendExec \/ SendWait \/ Distribute
             \/ ExecuteTimeout
      PROVE  Slotted'
  <2>1. /\ UNCHANGED <<slot, pc, target>> /\ entries' \in {entries, <<>>}
        /\ phase' \in {"taken", "waiting"} => phase \in {"taken", "waiting"}
    BY <1>5 DEF DiscardClaim, DiscardDrain, ExecuteClaim, SendExec, SendWait, Distribute,
                ExecuteTimeout, callVars, batchVars
  <2> QED
    BY <1>1, <2>1 DEF Slotted
<1>6. CASE ExecuteTake
  <2>1. /\ UNCHANGED <<slot, pc>> /\ entries' = <<>> /\ target' = slot
        /\ phase' = "taken" => entries # <<>>
        /\ phase' # "waiting"
    BY <1>6 DEF ExecuteTake, callVars
  <2> QED
    BY <1>1, <2>1 DEF Slotted
<1>7. ASSUME NEW f \in Foreign, ForeignCommand(f) PROVE Slotted'
  <2>1. UNCHANGED <<slot, entries, phase, target>> /\ \A c \in Callers : pc'[c] = pc[c]
    BY <1>1, <1>7 DEF ForeignCommand, Callers, CallTypes, batchVars, execVars
  <2> QED
    BY <1>1, <2>1 DEF Slotted
<1>8. ASSUME NEW k \in Connections, Disconnect(k) PROVE Slotted'
  BY <1>2, <1>8 DEF Disconnect, callVars, batchVars, execVars
<1>9. UNCHANGED vars => Slotted'
  BY <1>2 DEF vars, callVars, batchVars, execVars
<1> QED
  BY <1>3, <1>4, <1>5, <1>6, <1>7, <1>8, <1>9 DEF Next, Call, Executor

\* The types, the lock and the slot in every reachable state.
LEMMA TypeInvariance ==
  ASSUME ConfigAssumption
  PROVE  Spec => []TypeInv
<1>1. Init => TypeInv
  <2> SUFFICES ASSUME Init PROVE TypeInv
    OBVIOUS
  <2>1. CallTypes /\ LockHeld
    BY NullAssumption DEF Init, CallTypes, LockHeld, NoAnswer, Answers, Values, Callers, Nobody
  <2>2. BatchTypes /\ Slotted
    <3>1. executed \in BOOLEAN /\ next_index \in Nat /\ slot \in Nodes \cup {NoNode}
          /\ holder \in Callers \cup {Nobody}
      BY DEF Init
    <3>2. entries = <<>> /\ phase = "idle" /\ \A c \in Callers : pc[c] = "new"
      BY DEF Init, Callers
    <3>3. entries \in Seq(Callers)
      BY <3>2
    <3> QED
      BY <3>1, <3>2, <3>3 DEF BatchTypes, Slotted
  <2>3. ExecTypes
    BY DEF Init, ExecTypes, ConfigAssumption, StatusReply, Replies
  <2>4. RedisTypes
    <3>1. NoTxn \in [open : BOOLEAN, dirty : BOOLEAN, items : Seq(Values)]
          /\ <<>> \in Seq(Values)
      BY DEF NoTxn
    <3>2. 0 \in Clients /\ MaxTimeouts \in Nat /\ MaxLosses \in Nat
      BY DEF Clients, ConfigAssumption
    <3>3. /\ turn = 0 /\ txn = [k \in Connections |-> NoTxn] /\ log = <<>>
          /\ timeouts = 0 /\ losses = 0
          /\ used = {} /\ lost = {} /\ strays = {} /\ unheard = FALSE
      BY DEF Init
    <3>4. {used, lost} \subseteq SUBSET Connections /\ strays \subseteq Commands
      BY <3>3
    <3>5. txn \in [Connections -> [open : BOOLEAN, dirty : BOOLEAN, items : Seq(Values)]]
      BY <3>1, <3>3
    <3>6. log \in Seq(Values) /\ turn \in Clients /\ unheard \in BOOLEAN
      BY <3>1, <3>2, <3>3
    <3>7. timeouts \in 0 .. MaxTimeouts /\ losses \in 0 .. MaxLosses
      BY <3>2, <3>3
    <3> QED
      BY <3>4, <3>5, <3>6, <3>7 DEF RedisTypes
  <2> QED
    BY <2>1, <2>2, <2>3, <2>4 DEF TypeInv
<1>2. TypeInv /\ [Next]_vars => TypeInv'
  <2> SUFFICES ASSUME TypeInv, [Next]_vars PROVE TypeInv'
    OBVIOUS
  <2>1. CASE UNCHANGED vars
    <3>1. CallTypes' /\ LockHeld' /\ BatchTypes'
      BY <2>1 DEF TypeInv, CallTypes, LockHeld, BatchTypes, vars, callVars, batchVars
    <3>2. ExecTypes' /\ RedisTypes'
      BY <2>1 DEF TypeInv, ExecTypes, RedisTypes, vars, execVars, redisVars, histVars
    <3> QED
      BY <3>1, <3>2, SlottedStep DEF TypeInv
  <2> QED
    BY <2>1, CallTypeStep, ExecTypeStep, PoolTypeStep, SlottedStep DEF Next, TypeInv
<1> QED
  BY <1>1, <1>2, PTL DEF Spec

\* What an EXEC leaves for the response list, sorted: values, nothing undefined.
LEMMA SortedValues ==
  ASSUME NEW r \in Replies, NEW indexes \in Seq(Nat)
  PROVE  sort_by_index(collect_exec_indexed(r, indexes)) \in Seq(Values)
<1> DEFINE s == collect_exec_indexed(r, indexes)
<1>1. PICK m \in Nat : /\ s = [i \in 1 .. m |-> [index |-> indexes[i], val |-> r.items[i]]]
                       /\ \A i \in 1 .. m : indexes[i] \in Nat /\ r.items[i] \in Values
  <2>1. CASE r.tag = "array"
    <3> DEFINE k == IF Len(indexes) <= Len(r.items) THEN Len(indexes) ELSE Len(r.items)
    <3>1. r.items \in Seq(Values)
      BY <2>1 DEF Replies
    <3>2. k \in Nat /\ \A i \in 1 .. k : indexes[i] \in Nat /\ r.items[i] \in Values
      BY <3>1
    <3>3. s = [i \in 1 .. k |-> [index |-> indexes[i], val |-> r.items[i]]]
      BY <2>1 DEF collect_exec_indexed
    <3> QED
      BY <3>2, <3>3
  <2>2. CASE r.tag # "array"
    <3>1. s = <<>>
      BY <2>2 DEF collect_exec_indexed
    <3>2. <<>> = [i \in 1 .. 0 |-> [index |-> indexes[i], val |-> r.items[i]]]
      OBVIOUS
    <3>3. \A i \in 1 .. 0 : FALSE
      OBVIOUS
    <3> QED
      BY <3>1, <3>2, <3>3
  <2> QED
    BY <2>1, <2>2
<1> HIDE DEF s
<1> DEFINE key == [k \in 1 .. m |-> indexes[k]]
<1>2. key \in [1 .. m -> Nat] /\ DOMAIN s = 1 .. m /\ Len(s) = m
  BY <1>1
<1>3. \A k \in 1 .. m : s[k].index = key[k] /\ s[k].val \in Values
  BY <1>1
<1> HIDE DEF key
<1>4. \A k \in 1 .. m : place(s, k) = Cardinality(Upto(key, k))
  <2> SUFFICES ASSUME NEW k \in 1 .. m PROVE place(s, k) = Cardinality(Upto(key, k))
    OBVIOUS
  <2>1. {j \in DOMAIN s : \/ s[j].index < s[k].index
                          \/ s[j].index = s[k].index /\ j \leq k} = Upto(key, k)
    BY <1>2, <1>3 DEF Upto
  <2> QED
    BY <2>1 DEF place
<1>5. \A i \in 1 .. m : \E k \in DOMAIN s : place(s, k) = i
  <2>1. \A i \in 1 .. m : \E k \in 1 .. m : Cardinality(Upto(key, k)) = i
    BY <1>2, PlacesAreTaken
  <2> QED
    BY <1>2, <1>4, <2>1
<1> DEFINE at(i) == CHOOSE k \in DOMAIN s : place(s, k) = i
<1>6. \A i \in 1 .. m : at(i) \in DOMAIN s
  BY <1>5
<1>7. sort_by_index(s) = [i \in 1 .. m |-> s[at(i)].val]
  BY <1>2 DEF sort_by_index
<1> HIDE DEF at
<1>8. \A i \in 1 .. m : s[at(i)].val \in Values
  BY <1>2, <1>3, <1>6
<1> QED
  BY <1>7, <1>8 DEF s

\* Only handing out the replies makes responses.
LEMMA ResponseTypes ==
  ASSUME ConfigAssumption, TypeInv, responses \in Seq(Values), [Next]_vars
  PROVE  responses' \in Seq(Values)
<1>1. CASE Distribute
  <2>1. /\ execReply \in Replies /\ taken \in Seq(Callers)
        /\ idx \in [Commands -> Nat] /\ \A c \in Callers : c \in Commands
    BY DEF TypeInv, ExecTypes, CallTypes, Callers
  <2>2. [i \in DOMAIN taken |-> idx[taken[i]]] \in Seq(Nat)
    BY <2>1
  <2>3. sort_by_index(collect_exec_indexed(execReply, [i \in DOMAIN taken |-> idx[taken[i]]]))
          \in Seq(Values)
    BY <2>1, <2>2, SortedValues
  <2>4. <<>> \in Seq(Values)
    OBVIOUS
  <2> QED
    BY <1>1, <2>3, <2>4, Zenon DEF Distribute
<1>2. ASSUME NEW c \in Callers, FetchIndex(c) \/ Call(c) PROVE responses' = responses
  BY <1>2 DEF FetchIndex, Call, Lock, SendMulti, SendCommand, SendCommandFails, execVars
<1>3. DiscardClaim \/ DiscardDrain \/ ExecuteClaim \/ ExecuteTimeout => responses' = responses
  BY DEF DiscardClaim, DiscardDrain, ExecuteClaim, ExecuteTimeout, execVars
<1>4. ASSUME Executor, ~Distribute PROVE responses' = responses
  BY <1>4 DEF Executor, ExecuteTake, SendExec, SendWait
<1>5. ASSUME NEW f \in Foreign, ForeignCommand(f) PROVE responses' = responses
  BY <1>5 DEF ForeignCommand, execVars
<1>6. ASSUME NEW k \in Connections, Disconnect(k) PROVE responses' = responses
  BY <1>6 DEF Disconnect, execVars
<1>7. UNCHANGED vars => responses' = responses
  BY DEF vars, execVars
<1> QED
  BY <1>1, <1>2, <1>3, <1>4, <1>5, <1>6, <1>7 DEF Next

\* The types of RedisQueueBatch, and that the lock on BatchState is held by
\* exactly the call that talks to Redis: no error path of async0 keeps it.
THEOREM LockIsHeldByTheTalker ==
  ASSUME ConfigAssumption
  PROVE  Spec => []TypeOK
<1>1. Init => responses \in Seq(Values)
  BY DEF Init
<1>2. TypeInv /\ responses \in Seq(Values) /\ [Next]_vars => (responses \in Seq(Values))'
  BY ResponseTypes
<1>3. TypeInv /\ responses \in Seq(Values) => TypeOK
  BY DEF TypeInv, TypeOK
<1> QED
  BY <1>1, <1>2, <1>3, TypeInvariance, PTL DEF Spec

-----------------------------------------------------------------------------
(* No caller is orphaned.                                                    *)

\* A step of async0: its own caller is queued only together with its sender.
LEMMA CallKeepsSenders ==
  ASSUME TypeInv, NoOrphan, NEW c \in Callers, FetchIndex(c) \/ Call(c)
  PROVE  NoOrphan'
<1>1. /\ pc \in [Commands -> {"new", "indexed", "locked", "open", "queued", "returned"}]
      /\ answer \in [Commands -> Answers] /\ entries \in Seq(Callers)
      /\ c \in Commands /\ \A d \in Callers : d \in Commands
  BY DEF TypeInv, CallTypes, BatchTypes, Callers
<1>2. phase' = phase /\ taken' = taken
  BY DEF FetchIndex, Call, Lock, SendMulti, SendCommand, SendCommandFails, execVars
<1>3. CASE SendCommand(c)
  <2>1. /\ pc' = [pc EXCEPT ![c] = "queued"] /\ answer' = answer
        /\ entries' = Append(entries, c)
    BY <1>3 DEF SendCommand
  <2>2. Range(entries') = Range(entries) \cup {c}
    BY <1>1, <2>1, RangeOfAppend
  <2> QED
    BY <1>1, <1>2, <2>1, <2>2 DEF NoOrphan
<1>4. CASE FetchIndex(c) \/ Lock(c) \/ SendMulti(c) \/ SendCommandFails(c)
  <2>1. entries' = entries
    BY <1>4 DEF FetchIndex, Lock, SendMulti, SendCommandFails
  <2>2. \E s \in {"indexed", "locked", "open", "returned"} : pc' = [pc EXCEPT ![c] = s]
    BY <1>4 DEF FetchIndex, Lock, SendMulti, SendCommandFails, CallFails, Opened
  <2>3. answer' = answer \/ answer' = [answer EXCEPT ![c] = Failure("failed")]
    BY <1>4 DEF FetchIndex, Lock, SendMulti, SendCommandFails, CallFails, Opened
  <2>4. pc'[c] # "queued" /\ \A d \in Callers \ {c} : pc'[d] = pc[d] /\ answer'[d] = answer[d]
    BY <1>1, <2>2, <2>3
  <2> QED
    BY <1>2, <2>1, <2>4 DEF NoOrphan
<1> QED
  BY <1>3, <1>4 DEF Call

\* Every way in which execute_async and discard_async let go of a sender
\* answers it or drops it unsent.
LEMMA ExecKeepsSenders ==
  ASSUME TypeInv, NoOrphan,
         DiscardClaim \/ DiscardDrain \/ ExecuteClaim \/ Executor \/ ExecuteTimeout
  PROVE  NoOrphan'
<1>1. /\ pc' = pc /\ \A d \in Callers : d \in Commands
      /\ answer \in [Commands -> Answers] /\ taken \in Seq(Callers) /\ execReply \in Replies
  BY DEF TypeInv, CallTypes, ExecTypes, Callers, DiscardClaim, DiscardDrain, ExecuteClaim,
         Executor, ExecuteTake, SendExec, SendWait, Distribute, ExecuteTimeout, callVars
<1>2. CASE DiscardClaim \/ ExecuteClaim
  BY <1>1, <1>2 DEF NoOrphan, DiscardClaim, ExecuteClaim, callVars
<1>3. CASE DiscardDrain
  <2>1. \A d \in Callers : answer'[d] = IF d \in Range(entries) THEN Failure("discarded")
                                                             ELSE answer[d]
    BY <1>1, <1>3 DEF DiscardDrain
  <2>2. Failure("discarded") # NoAnswer
    BY DEF Failure, NoAnswer
  <2> QED
    BY <1>1, <1>3, <2>1, <2>2 DEF DiscardDrain, NoOrphan
<1>4. CASE ExecuteTake
  <2>1. entries = <<>> => Range(entries) = {}
    BY RangeOfEmpty
  <2> QED
    BY <1>1, <1>4, <2>1 DEF ExecuteTake, NoOrphan, callVars
<1>5. CASE SendExec \/ SendWait
  BY <1>1, <1>5 DEF SendExec, SendWait, NoOrphan, callVars, batchVars
<1>6. CASE Distribute
  <2>1. entries' = entries
    BY <1>6 DEF Distribute, batchVars
  <2>2. \A d \in Callers : d \notin Range(taken) => answer'[d] = answer[d]
    BY <1>1, <1>6 DEF Distribute
  <2>3. ASSUME NEW d \in Callers, d \in Range(taken) PROVE answer'[d] # NoAnswer
    <3> DEFINE i == CHOOSE j \in DOMAIN taken : taken[j] = d
    <3>1. answer'[d] = IF SkipResult THEN Ok(Null) ELSE ExecAnswer(execReply, i)
      BY <1>1, <1>6, <2>3 DEF Distribute
    <3>2. i \in DOMAIN taken
      BY <2>3 DEF Range
    <3>3. DOMAIN taken = 1 .. Len(taken) /\ Len(taken) \in Nat
      BY <1>1
    <3> HIDE DEF i
    <3>4. i \in Nat \ {0}
      BY <3>2, <3>3
    <3>5. ExecAnswer(execReply, i).tag # "none"
      BY <1>1, <3>4, AnswerTypes
    <3>6. Ok(Null).tag # "none"
      BY DEF Ok
    <3>7. NoAnswer.tag = "none"
      BY DEF NoAnswer
    <3> QED
      BY <3>1, <3>5, <3>6, <3>7
  <2> QED
    BY <1>1, <2>1, <2>2, <2>3, <1>6 DEF Distribute, NoOrphan
<1>7. CASE ExecuteTimeout
  <2>1. \A d \in Callers : answer'[d] = IF d \in Range(taken) THEN Failure("closed")
                                                           ELSE answer[d]
    BY <1>1, <1>7 DEF ExecuteTimeout
  <2>2. Failure("closed") # NoAnswer
    BY DEF Failure, NoAnswer
  <2> QED
    BY <1>1, <1>7, <2>1, <2>2 DEF ExecuteTimeout, NoOrphan, batchVars
<1> QED
  BY <1>2, <1>3, <1>4, <1>5, <1>6, <1>7 DEF Executor

\* On any pool, with refused commands, late replies, lost connections, a
\* discard and a timeout: the sender of a call that waits is never forgotten
\* without being dropped, so the caller hears something.
THEOREM NobodyIsOrphaned ==
  ASSUME ConfigAssumption
  PROVE  Spec => []NoOrphan
<1>1. Init => NoOrphan
  BY DEF Init, NoOrphan, Callers
<1>2. TypeInv /\ NoOrphan /\ [Next]_vars => NoOrphan'
  <2> SUFFICES ASSUME TypeInv, NoOrphan, [Next]_vars PROVE NoOrphan'
    OBVIOUS
  <2>1. ASSUME NEW f \in Foreign, ForeignCommand(f) PROVE NoOrphan'
    BY <2>1 DEF ForeignCommand, NoOrphan, TypeInv, CallTypes, Callers, batchVars, execVars
  <2>2. ASSUME NEW k \in Connections, Disconnect(k) PROVE NoOrphan'
    BY <2>2 DEF Disconnect, NoOrphan, callVars, batchVars, execVars
  <2>3. CASE UNCHANGED vars
    BY <2>3 DEF NoOrphan, vars, callVars, batchVars, execVars
  <2> QED
    BY <2>1, <2>2, <2>3, CallKeepsSenders, ExecKeepsSenders DEF Next
<1> QED
  BY <1>1, <1>2, TypeInvariance, PTL DEF Spec

-----------------------------------------------------------------------------
(* What a batch can rely on while all it sends takes one connection, which   *)
(* does not break: then the MULTI of that connection holds what its callers  *)
(* wait for, between whatever else Redis received there.                     *)

Talking == \E c \in Callers : pc[c] = "open"

\* Who waits: a sender is in the entries or was taken, never both, and has no
\* answer while an EXEC may still bring one; a stray has none.
Senders ==
  /\ \A c \in Callers : c \in Range(entries) \/ c \in Range(taken) => pc[c] = "queued"
  /\ \A c \in Callers : c \in Range(entries) => c \notin Range(taken)
  /\ \A c \in Callers :
       \/ c \in Range(entries) \/ pc[c] \in {"new", "indexed", "locked", "open"}
       \/ c \in Range(taken) /\ phase \in {"taken", "waiting", "answering"}
       => answer[c] = NoAnswer
  /\ \A c \in Callers : c \in strays => pc[c] = "returned"
  /\ \A c \in Callers : pc[c] = "locked" => entries = <<>>
  /\ phase \in {"idle", "refused", "claimed"} => taken = <<>>

\* Transaction t holds the commands s, in order unless something strayed into it.
Holds(t, s, others) ==
  /\ t.open
  /\ Range(s) \subseteq Range(t.items)
  /\ Range(t.items) \cap Callers \subseteq Range(s) \cup others
  /\ Len(s) <= Len(t.items)
  /\ others = {} => t.items = s

\* The MULTI is open while the batch counts on it, and holds what it sent.
InMulti ==
  /\ Talking \/ entries # <<>> \/ phase = "taken" => used # {} /\ \A k \in used : txn[k].open
  /\ phase = "taken" => entries = <<>> /\ ~Talking /\ \A k \in used : Holds(txn[k], taken, strays)
  /\ phase \in {"idle", "refused", "claimed"} /\ (Talking \/ entries # <<>>)
       => \A k \in used : Holds(txn[k], entries, strays)

\* Redis ran no command of the batch, or those that were taken and what strayed.
Skipped == Range(log) \cap Callers = {}
Executed ==
  /\ Range(taken) \subseteq Range(log)
  /\ Range(log) \cap Callers \subseteq Range(taken) \cup strays

\* The array of EXEC has a reply for every sender, its own if nothing strayed in.
Answered ==
  /\ execReply.tag = "array"
  /\ Len(taken) <= Len(execReply.items)
  /\ strays = {} => \A i \in 1 .. Len(taken) : execReply.items[i] \in {taken[i], Null}

Ran ==
  /\ phase \in {"idle", "refused", "claimed", "taken"} => Skipped
  /\ phase \in {"waiting", "answering"} =>
       \/ Executed /\ Answered
       \/ execReply = ErrorReply /\ (Skipped \/ (Executed /\ unheard))
  /\ Skipped \/ Executed

\* What the callers were told about it.
Told ==
  /\ strays = {} => \A c \in Callers :
       answer[c].val # Null => answer[c].val = c /\ c \in Range(log)
  /\ phase = "ok" =>
       \/ \A c \in Range(taken) : answer[c].tag = "ok"
       \/ (\A c \in Range(taken) : answer[c].tag = "failed") /\ (Skipped \/ unheard)
  /\ phase = "err" => \A c \in Range(taken) : answer[c].tag = "closed"

Kept == InMulti /\ Ran /\ Told
PInv == TypeInv /\ Senders /\ (Intact => Kept)

-----------------------------------------------------------------------------
\* A batch that is still intact was so before, and used no other connection.
LEMMA IntactBefore ==
  ASSUME Intact', used \subseteq used', lost \subseteq lost'
  PROVE  Intact
BY DEF Intact

\* The connection it uses next is the one it used, and does not break.
LEMMA SameConnection ==
  ASSUME Intact', NEW k, Use(k), lost \subseteq lost'
  PROVE  /\ Intact /\ used' = {k} /\ used \subseteq {k}
         /\ ~Break(k)
<1>1. used' = used \cup {k}
  BY DEF Use
<1>2. used' = {k} /\ used \subseteq {k} /\ k \notin lost'
  BY <1>1 DEF Intact
<1> QED
  BY <1>1, <1>2, IntactBefore DEF Break

\* A reply in time, a late one and a break only add to what broke.
LEMMA WireGrows ==
  ASSUME NEW k, InTime \/ Late \/ Break(k)
  PROVE  lost \subseteq lost'
BY DEF InTime, Late, Break

\* What a step of async0 does to its caller and to the queues.
LEMMA CallEffect ==
  ASSUME TypeInv, Senders, NEW c \in Callers, FetchIndex(c) \/ Call(c)
  PROVE  /\ UNCHANGED <<phase, taken, execReply, unheard>>
         /\ used \subseteq used' /\ lost \subseteq lost'
         /\ pc[c] \in {"new", "indexed", "locked", "open"}
         /\ \/ /\ entries' = entries /\ answer' = answer /\ strays' = strays
               /\ \E s \in {"indexed", "locked", "open"} :
                    pc' = [pc EXCEPT ![c] = s] /\ (s = "locked" => entries = <<>>)
            \/ /\ entries' = entries /\ answer' = [answer EXCEPT ![c] = Failure("failed")]
               /\ pc' = [pc EXCEPT ![c] = "returned"] /\ strays' \in {strays, strays \cup {c}}
            \/ /\ entries' = Append(entries, c) /\ answer' = answer /\ strays' = strays
               /\ pc[c] = "open" /\ pc' = [pc EXCEPT ![c] = "queued"]
<1>1. CASE FetchIndex(c)
  BY <1>1 DEF FetchIndex, execVars, histVars
<1>2. CASE Lock(c)
  <2>1. /\ UNCHANGED <<phase, taken, execReply, unheard, used, lost, entries, strays>>
        /\ pc[c] = "indexed"
    BY <1>2 DEF Lock, execVars, histVars
  <2> QED
    BY <1>2, <2>1 DEF Lock, CallFails
<1>3. CASE SendMulti(c)
  <2> DEFINE k == Conn(NodeOf[c])
  <2>1. /\ UNCHANGED <<phase, taken, execReply, unheard, entries, strays>>
        /\ pc[c] = "locked" /\ Use(k) /\ (InTime \/ Late \/ Break(k))
        /\ CallFails(c) \/ Opened(c)
    BY <1>3 DEF SendMulti, execVars
  <2> HIDE DEF k
  <2>2. used \subseteq used' /\ lost \subseteq lost'
    BY <2>1, WireGrows DEF Use
  <2> QED
    BY <2>1, <2>2 DEF CallFails, Opened
<1>4. CASE SendCommand(c)
  <2> DEFINE k == Conn(NodeOf[c])
  <2>1. /\ UNCHANGED <<phase, taken, execReply, unheard, strays, answer>>
        /\ pc[c] = "open" /\ Use(k) /\ (InTime \/ Break(k))
        /\ entries' = Append(entries, c) /\ pc' = [pc EXCEPT ![c] = "queued"]
    BY <1>4 DEF SendCommand, execVars
  <2> HIDE DEF k
  <2>2. used \subseteq used' /\ lost \subseteq lost'
    BY <2>1, WireGrows DEF Use
  <2> QED
    BY <2>1, <2>2
<1>5. CASE SendCommandFails(c)
  <2> DEFINE k == Conn(NodeOf[c])
  <2>1. /\ UNCHANGED <<phase, taken, execReply, unheard, entries>>
        /\ pc[c] = "open" /\ Use(k) /\ (InTime \/ Late \/ Break(k)) /\ CallFails(c)
        /\ strays' \in {strays, strays \cup {c}}
    BY <1>5 DEF SendCommandFails, execVars
  <2> HIDE DEF k
  <2>2. used \subseteq used' /\ lost \subseteq lost'
    BY <2>1, WireGrows DEF Use
  <2> QED
    BY <2>1, <2>2 DEF CallFails
<1> QED
  BY <1>1, <1>2, <1>3, <1>4, <1>5 DEF Call

\* A step of async0 keeps what is said of the senders, and the answers of the
\* callers that were taken.
LEMMA CallSenders ==
  ASSUME TypeInv, Senders, NEW c \in Callers, FetchIndex(c) \/ Call(c)
  PROVE  /\ Senders'
         /\ strays \subseteq strays'
         /\ \A d \in Range(taken) : answer'[d] = answer[d]
         /\ \A d \in Callers : answer'[d] = answer[d] \/ answer'[d].val = Null
<1> DEFINE Fails == /\ entries' = entries
                    /\ answer' = [answer EXCEPT ![c] = Failure("failed")]
                    /\ pc' = [pc EXCEPT ![c] = "returned"]
                    /\ strays' \in {strays, strays \cup {c}}
           Moves == /\ entries' = entries /\ answer' = answer /\ strays' = strays
                    /\ \E s \in {"indexed", "locked", "open"} :
                         pc' = [pc EXCEPT ![c] = s] /\ (s = "locked" => entries = <<>>)
           Sends == /\ entries' = Append(entries, c) /\ answer' = answer /\ strays' = strays
                    /\ pc[c] = "open" /\ pc' = [pc EXCEPT ![c] = "queued"]
<1>1. /\ UNCHANGED <<phase, taken>>
      /\ pc[c] \in {"new", "indexed", "locked", "open"}
      /\ Moves \/ Fails \/ Sends
  BY CallEffect
<1>2. /\ Senders /\ entries \in Seq(Callers) /\ LockHeld
      /\ pc \in [Commands -> {"new", "indexed", "locked", "open", "queued", "returned"}]
      /\ answer \in [Commands -> Answers] /\ taken \in Seq(Callers)
      /\ c \in Commands /\ \A d \in Callers : d \in Commands
  BY DEF TypeInv, CallTypes, BatchTypes, ExecTypes, Callers
<1>3. c \notin Range(entries) /\ c \notin Range(taken) /\ answer[c] = NoAnswer
  BY <1>1, <1>2 DEF Senders
<1>4. Failure("failed").val = Null
  BY DEF Failure
<1>5. \A d \in Callers \ {c} : pc'[d] = pc[d] /\ answer'[d] = answer[d]
  BY <1>1, <1>2
<1>6. answer'[c].val = Null
  BY <1>1, <1>2, <1>3, <1>4 DEF NoAnswer
<1>7. \A d \in Range(taken) : d \in Callers \ {c}
  BY <1>2, <1>3, RangeOfSeq
<1>8. strays \subseteq strays'
  BY <1>1
<1>9. Senders'
  <2>1. CASE Moves
    <3>1. /\ entries' = entries /\ taken' = taken /\ phase' = phase /\ strays' = strays
          /\ answer' = answer /\ pc'[c] \in {"indexed", "locked", "open"}
          /\ pc'[c] = "locked" => entries = <<>>
      BY <1>1, <1>2, <2>1
    <3>2. c \notin strays
      BY <1>1, <1>2 DEF Senders
    <3> HIDE DEF Moves, Fails, Sends
    <3> QED
      BY <1>2, <1>3, <1>5, <3>1, <3>2 DEF Senders
  <2>2. CASE Fails
    <3>1. /\ entries' = entries /\ taken' = taken /\ phase' = phase
          /\ strays' \subseteq strays \cup {c} /\ pc'[c] = "returned"
      BY <1>1, <1>2, <2>2
    <3> HIDE DEF Moves, Fails, Sends
    <3> QED
      BY <1>2, <1>3, <1>5, <3>1 DEF Senders
  <2>3. CASE Sends
    <3>1. /\ Range(entries') = Range(entries) \cup {c}
          /\ taken' = taken /\ phase' = phase /\ strays' = strays
      BY <1>1, <1>2, <2>3, RangeOfAppend
    <3>2. pc'[c] = "queued" /\ answer'[c] = NoAnswer /\ c \notin strays
      BY <1>1, <1>2, <1>3, <2>3 DEF Senders
    <3>3. \A d \in Callers : pc'[d] # "locked"
      BY <1>2, <1>5, <2>3, <3>2, HolderFacts
    <3> HIDE DEF Moves, Fails, Sends
    <3> QED
      BY <1>2, <1>3, <1>5, <3>1, <3>2, <3>3 DEF Senders
  <2> QED
    BY <1>1, <2>1, <2>2, <2>3
<1> QED
  BY <1>5, <1>6, <1>7, <1>8, <1>9

\* execute_async, discard_async, other users and broken connections keep what
\* is said of the senders.
LEMMA OtherSenders ==
  ASSUME TypeInv, Senders,
         \/ DiscardClaim \/ DiscardDrain \/ ExecuteClaim \/ Executor \/ ExecuteTimeout
         \/ \E f \in Foreign : ForeignCommand(f)
         \/ \E k \in Connections : Disconnect(k)
  PROVE  Senders'
<1>1. /\ answer \in [Commands -> Answers] /\ \A c \in Callers : c \in Commands
      /\ pc \in [Commands -> {"new", "indexed", "locked", "open", "queued", "returned"}]
      /\ entries \in Seq(Callers) /\ taken \in Seq(Callers)
      /\ \A f \in Foreign : f \notin Callers
  BY DEF TypeInv, CallTypes, BatchTypes, ExecTypes, Callers
<1>2. CASE DiscardClaim
  BY <1>2 DEF DiscardClaim, Senders, callVars, histVars
<1>3. CASE DiscardDrain
  <2>1. /\ entries' = <<>> /\ UNCHANGED <<pc, phase, taken, strays>>
        /\ \A c \in Callers : answer'[c] = IF c \in Range(entries) THEN Failure("discarded")
                                                                ELSE answer[c]
    BY <1>1, <1>3 DEF DiscardDrain, histVars
  <2>2. \A c \in Callers : c \in Range(taken) => answer'[c] = answer[c]
    BY <2>1 DEF Senders
  <2>3. Range(entries') = {}
    BY <2>1, RangeOfEmpty
  <2> QED
    BY <2>1, <2>2, <2>3 DEF Senders
<1>4. CASE ExecuteClaim
  BY <1>4 DEF ExecuteClaim, Senders, callVars, histVars
<1>5. CASE ExecuteTake
  <2>1. /\ UNCHANGED <<pc, answer, strays>> /\ phase = "claimed"
        /\ phase' = (IF entries = <<>> THEN "ok" ELSE "taken")
        /\ taken' = entries /\ entries' = <<>> /\ taken = <<>>
    BY <1>5 DEF ExecuteTake, callVars, histVars, Senders
  <2>2. Range(entries') = {} /\ Range(taken) = {}
    BY <2>1, RangeOfEmpty
  <2> QED
    BY <2>1, <2>2 DEF Senders
<1>6. CASE SendExec \/ SendWait
  <2>1. UNCHANGED <<pc, answer, entries, taken, strays>>
    BY <1>6 DEF SendExec, SendWait, callVars, batchVars, histVars
  <2>2. phase \in {"taken", "waiting"} /\ phase' \in {"waiting", "answering"}
    BY <1>6 DEF SendExec, SendWait
  <2> QED
    BY <2>1, <2>2 DEF Senders
<1>7. CASE Distribute \/ ExecuteTimeout
  <2>1. UNCHANGED <<pc, entries, taken, strays>> /\ phase' \in {"ok", "err"}
    BY <1>7 DEF Distribute, ExecuteTimeout, batchVars, histVars
  <2>2. \A c \in Callers : c \notin Range(taken) => answer'[c] = answer[c]
    BY <1>1, <1>7 DEF Distribute, ExecuteTimeout
  <2> QED
    BY <2>1, <2>2 DEF Senders
<1>8. ASSUME NEW f \in Foreign, ForeignCommand(f) PROVE Senders'
  <2>1. UNCHANGED <<answer, entries, taken, phase>> /\ pc' = [pc EXCEPT ![f] = "returned"]
    BY <1>8 DEF ForeignCommand, batchVars, execVars
  <2>2. \A c \in Callers : pc'[c] = pc[c] /\ (c \in strays' => c \in strays)
    BY <1>1, <1>8 DEF ForeignCommand
  <2> QED
    BY <2>1, <2>2 DEF Senders
<1>9. ASSUME NEW k \in Connections, Disconnect(k) PROVE Senders'
  BY <1>9 DEF Disconnect, Senders, callVars, batchVars, execVars
<1> QED
  BY <1>2, <1>3, <1>4, <1>5, <1>6, <1>7, <1>8, <1>9 DEF Executor

\* One more command in a MULTI: it strayed there, or its sender is kept.
LEMMA HoldsMore ==
  ASSUME NEW t \in Txns, NEW s \in Seq(Callers), NEW v \in Values, NEW others,
         Holds(t, s, others)
  PROVE  /\ Holds([t EXCEPT !.items = Append(t.items, v)], s, others \cup {v})
         /\ v \in Callers => Holds([t EXCEPT !.items = Append(t.items, v)], Append(s, v), others)
<1> DEFINE more == Append(t.items, v)
<1>1. t.items \in Seq(Values) /\ t.open
  BY DEF Txns, Holds
<1>2. /\ Range(more) = Range(t.items) \cup {v} /\ Len(more) = Len(t.items) + 1
      /\ Len(t.items) \in Nat /\ Len(s) \in Nat
  BY <1>1, RangeOfAppend
<1>3. v \in Callers => Range(Append(s, v)) = Range(s) \cup {v} /\ Len(Append(s, v)) = Len(s) + 1
  BY RangeOfAppend
<1>4. others = {} => Append(s, v) = more
  BY DEF Holds
<1> HIDE DEF more
<1> DEFINE u == [t EXCEPT !.items = more]
<1>5. u.open /\ u.items = more
  BY <1>1 DEF Txns
<1> HIDE DEF u
<1>6. Holds(u, s, others \cup {v})
  BY <1>1, <1>2, <1>5 DEF Holds
<1>7. v \in Callers => Holds(u, Append(s, v), others)
  <2> SUFFICES ASSUME v \in Callers PROVE Holds(u, Append(s, v), others)
    OBVIOUS
  <2> DEFINE l == Append(s, v)
  <2>1. Range(l) = Range(s) \cup {v} /\ Len(l) = Len(s) + 1 /\ (others = {} => l = more)
    BY <1>3, <1>4
  <2> HIDE DEF l
  <2>2. Holds(u, l, others)
    BY <1>1, <1>2, <1>5, <2>1 DEF Holds
  <2> QED
    BY <2>2 DEF l
<1> QED
  BY <1>6, <1>7 DEF u, more

\* The transaction of connection k changes.
LEMMA SetAt ==
  ASSUME RedisTypes, NEW k \in Connections, NEW t, Set(k, t)
  PROVE  txn'[k] = t /\ \A l \in Connections \ {k} : txn'[l] = txn[l]
BY DEF RedisTypes, Set

\* A step of async0 keeps what is said of the MULTI, and runs nothing.
LEMMA CallInMulti ==
  ASSUME ConfigAssumption, TypeInv, Senders, InMulti, Intact',
         NEW c \in Callers, FetchIndex(c) \/ Call(c)
  PROVE  InMulti' /\ log' = log
<1>1. /\ Senders /\ InMulti /\ entries \in Seq(Callers) /\ taken \in Seq(Callers)
      /\ LockHeld /\ RedisTypes
      /\ pc \in [Commands -> {"new", "indexed", "locked", "open", "queued", "returned"}]
      /\ c \in Commands /\ c \in Values /\ \A d \in Callers : d \in Commands
      /\ phase' = phase /\ taken' = taken /\ lost \subseteq lost'
      /\ Conn(NodeOf[c]) \in Connections
      /\ \A l \in Connections : txn[l] \in Txns
  BY CallEffect, PoolFacts DEF TypeInv, CallTypes, BatchTypes, ExecTypes, RedisTypes, Txns
<1>2. CASE FetchIndex(c)
  <2>1. pc' = [pc EXCEPT ![c] = "indexed"] /\ UNCHANGED <<entries, txn, log, used, strays>>
    BY <1>2 DEF FetchIndex, redisVars, histVars
  <2>2. Talking' => Talking
    BY <1>1, <2>1 DEF Talking
  <2> QED
    BY <1>1, <2>1, <2>2 DEF InMulti, Holds
<1>3. CASE Lock(c)
  <2>1. holder = Nobody /\ UNCHANGED <<entries, txn, log, used, strays>>
    BY <1>3 DEF Lock, redisVars, histVars
  <2>2. \A d \in Callers : pc[d] \notin {"locked", "open"}
    BY <1>1, <2>1, NullAssumption DEF LockHeld, Callers, Nobody
  <2>3. pc' = [pc EXCEPT ![c] = "returned"]
        \/ pc' = [pc EXCEPT ![c] = IF entries = <<>> THEN "locked" ELSE "open"]
    BY <1>3 DEF Lock, CallFails
  <2>4. Talking' => entries # <<>>
    BY <1>1, <2>2, <2>3 DEF Talking
  <2> QED
    BY <1>1, <2>1, <2>4 DEF InMulti, Holds
<1>4. CASE SendMulti(c)
  <2> DEFINE k == Conn(NodeOf[c])
  <2>1. /\ pc[c] = "locked" /\ entries = <<>> /\ UNCHANGED <<entries, log, strays>>
        /\ holder = c /\ Use(k)
        /\ \/ txn[k].open /\ UNCHANGED txn /\ CallFails(c)
           \/ ~txn[k].open /\ Set(k, NewTxn)
           \/ Break(k)
    BY <1>1, <1>4, HolderFacts DEF SendMulti, Senders
  <2>2. k \in Connections
    BY <1>1
  <2> HIDE DEF k
  <2>3. used' = {k} /\ used \subseteq {k} /\ ~Break(k)
    BY <1>1, <2>1, SameConnection
  <2>4. ~Talking
    BY <1>1, <2>1 DEF LockHeld, Talking
  <2>5. CASE txn[k].open /\ UNCHANGED txn /\ CallFails(c)
    <3>1. ~Talking'
      BY <1>1, <2>4, <2>5 DEF Talking, CallFails
    <3>2. phase = "taken" => used = {k}
      BY <1>1, <2>3 DEF InMulti
    <3> QED
      BY <1>1, <2>1, <2>3, <2>5, <3>1, <3>2 DEF InMulti, Holds
  <2>6. CASE ~txn[k].open /\ Set(k, NewTxn)
    <3>1. txn'[k] = NewTxn
      BY <1>1, <2>2, <2>6, SetAt
    <3>2. phase # "taken"
      BY <1>1, <2>3, <2>6 DEF InMulti
    <3>3. NewTxn.open /\ Holds(NewTxn, <<>>, strays)
      BY RangeOfEmpty DEF NewTxn, Holds
    <3>4. Holds(txn'[k], entries', strays')
      BY <2>1, <3>1, <3>3
    <3> QED
      BY <1>1, <2>1, <2>3, <3>1, <3>2, <3>3, <3>4 DEF InMulti, Holds
  <2> QED
    BY <2>1, <2>3, <2>5, <2>6
<1>5. CASE SendCommand(c)
  <2> DEFINE k == Conn(NodeOf[c])
  <2>1. /\ pc[c] = "open" /\ holder = c /\ Use(k) /\ strays' = strays
        /\ Receive(k, c) \/ Break(k)
        /\ entries' = Append(entries, c) /\ pc' = [pc EXCEPT ![c] = "queued"]
    BY <1>1, <1>5, HolderFacts DEF SendCommand
  <2>2. k \in Connections
    BY <1>1
  <2> HIDE DEF k
  <2>3. used' = {k} /\ used \subseteq {k} /\ ~Break(k)
    BY <1>1, <2>1, SameConnection
  <2>4. Talking
    BY <2>1 DEF Talking
  <2>5. used = {k} /\ txn[k].open /\ phase # "taken"
    BY <1>1, <2>3, <2>4 DEF InMulti
  <2>6. log' = log /\ txn'[k] = [txn[k] EXCEPT !.items = Append(txn[k].items, c)]
    BY <1>1, <2>1, <2>2, <2>3, <2>5, SetAt DEF Receive
  <2>7. txn'[k].open
    BY <1>1, <2>2, <2>5, <2>6 DEF Txns
  <2>8. phase \in {"idle", "refused", "claimed"} => Holds(txn'[k], entries', strays')
    <3> SUFFICES ASSUME phase \in {"idle", "refused", "claimed"}
                 PROVE  Holds(txn'[k], entries', strays')
      OBVIOUS
    <3>1. Holds(txn[k], entries, strays)
      BY <1>1, <2>4, <2>5 DEF InMulti
    <3>2. txn[k] \in Txns
      BY <1>1, <2>2
    <3>3. Holds([txn[k] EXCEPT !.items = Append(txn[k].items, c)], Append(entries, c), strays)
      BY <1>1, <3>1, <3>2, HoldsMore
    <3> QED
      BY <2>1, <2>6, <3>3
  <2> QED
    BY <1>1, <2>3, <2>5, <2>6, <2>7, <2>8 DEF InMulti, Holds
<1>6. CASE SendCommandFails(c)
  <2> DEFINE k == Conn(NodeOf[c])
  <2>1. /\ pc[c] = "open" /\ Use(k) /\ entries' = entries
        /\ pc' = [pc EXCEPT ![c] = "returned"]
        /\ \/ Refuse(k) /\ strays' = strays
           \/ Break(k)
           \/ Receive(k, c) /\ strays' = strays \cup {c}
    BY <1>6 DEF SendCommandFails, CallFails
  <2>2. k \in Connections
    BY <1>1
  <2> HIDE DEF k
  <2>3. used' = {k} /\ used \subseteq {k} /\ ~Break(k)
    BY <1>1, <2>1, SameConnection
  <2>4. Talking
    BY <2>1 DEF Talking
  <2>5. used = {k} /\ txn[k].open /\ phase # "taken" /\ txn[k] \in Txns
    BY <1>1, <2>2, <2>3, <2>4 DEF InMulti
  <2>6. CASE Refuse(k) /\ strays' = strays
    <3>1. log' = log /\ txn'[k] = [txn[k] EXCEPT !.dirty = txn[k].open]
      BY <1>1, <2>2, <2>6, SetAt DEF Refuse
    <3>2. txn'[k].open /\ txn'[k].items = txn[k].items
      BY <2>5, <3>1 DEF Txns
    <3>3. Holds(txn[k], entries, strays) => Holds(txn'[k], entries', strays')
      BY <2>1, <2>6, <3>2 DEF Holds
    <3> QED
      BY <1>1, <2>1, <2>3, <2>4, <2>5, <2>6, <3>1, <3>2, <3>3 DEF InMulti, Holds
  <2>7. CASE Receive(k, c) /\ strays' = strays \cup {c}
    <3>1. log' = log /\ txn'[k] = [txn[k] EXCEPT !.items = Append(txn[k].items, c)]
      BY <1>1, <2>2, <2>5, <2>7, SetAt DEF Receive
    <3>2. txn'[k].open
      BY <2>5, <3>1 DEF Txns
    <3>3. Holds(txn[k], entries, strays) => Holds(txn'[k], entries', strays')
      <4>1. Holds(txn[k], entries, strays) =>
              Holds([txn[k] EXCEPT !.items = Append(txn[k].items, c)], entries, strays \cup {c})
        BY <1>1, <2>5, HoldsMore
      <4> QED
        BY <2>1, <2>7, <3>1, <4>1
    <3> QED
      BY <1>1, <2>1, <2>3, <2>4, <2>5, <2>7, <3>1, <3>2, <3>3 DEF InMulti, Holds
  <2> QED
    BY <2>1, <2>3, <2>6, <2>7
<1> QED
  BY <1>2, <1>3, <1>4, <1>5, <1>6 DEF Call

\* Where Redis runs none of the callers' commands, and no answer of a caller that
\* was taken changes, what is said of the run and of the answers stays.
LEMMA NothingRan ==
  ASSUME Ran, Told, UNCHANGED <<phase, taken, execReply, unheard>>,
         Range(log') \cap Callers = Range(log) \cap Callers,
         Range(log) \subseteq Range(log'),
         strays \subseteq strays',
         taken \in Seq(Callers),
         \A d \in Range(taken) : answer'[d] = answer[d],
         \A d \in Callers : answer'[d] = answer[d] \/ answer'[d].val = Null
  PROVE  Ran' /\ Told'
<1>1. /\ Skipped' <=> Skipped
      /\ Executed => Executed'
  BY DEF Skipped, Executed
<1>2. Answered => Answered'
  BY DEF Answered
<1>3. Ran'
  <2>1. phase' \in {"waiting", "answering"} =>
          \/ Executed' /\ Answered'
          \/ execReply' = ErrorReply /\ (Skipped' \/ (Executed' /\ unheard'))
    BY <1>1, <1>2 DEF Ran
  <2> QED
    BY <1>1, <2>1 DEF Ran
<1>4. Told'
  <2>1. strays' = {} => \A c \in Callers :
          answer'[c].val # Null => answer'[c].val = c /\ c \in Range(log')
    BY DEF Told
  <2> QED
    BY <1>1, <2>1 DEF Told
<1> QED
  BY <1>3, <1>4

\* discard_async tells the senders; the MULTI stays open.
LEMMA DiscardStep ==
  ASSUME TypeInv, Senders, Kept, DiscardClaim \/ DiscardDrain
  PROVE  Kept'
<1>1. /\ InMulti /\ Ran /\ Told /\ taken \in Seq(Callers)
      /\ answer \in [Commands -> Answers] /\ \A c \in Callers : c \in Commands
      /\ LockHeld
  BY DEF Kept, TypeInv, CallTypes, ExecTypes, Callers
<1>2. UNCHANGED <<pc, phase, taken, execReply, log, txn, used, strays, unheard>>
  BY DEF DiscardClaim, DiscardDrain, callVars, redisVars, histVars
<1>3. Talking' = Talking
  BY <1>2 DEF Talking
<1>4. CASE UNCHANGED <<entries, answer>>
  <2>1. InMulti'
    BY <1>1, <1>2, <1>3, <1>4 DEF InMulti, Holds
  <2>2. Ran' /\ Told'
    BY <1>1, <1>2, <1>4, NothingRan
  <2> QED
    BY <2>1, <2>2 DEF Kept
<1>5. CASE DiscardDrain
  <2>1. /\ entries' = <<>> /\ holder = Nobody
        /\ \A c \in Callers : answer'[c] = IF c \in Range(entries) THEN Failure("discarded")
                                                                ELSE answer[c]
    BY <1>1, <1>5 DEF DiscardDrain
  <2>2. ~Talking
    BY <1>1, <2>1, NullAssumption DEF LockHeld, Talking, Callers, Nobody
  <2>3. InMulti'
    BY <1>1, <1>2, <1>3, <2>1, <2>2 DEF InMulti, Holds
  <2>4. \A c \in Range(taken) : answer'[c] = answer[c]
    BY <1>1, <2>1, RangeOfSeq DEF Senders
  <2>5. \A c \in Callers : answer'[c] = answer[c] \/ answer'[c].val = Null
    BY <2>1 DEF Failure
  <2>6. Ran' /\ Told'
    BY <1>1, <1>2, <2>4, <2>5, NothingRan
  <2> QED
    BY <2>3, <2>6 DEF Kept
<1> QED
  BY <1>4, <1>5 DEF DiscardClaim, callVars

\* execute_async takes the batch, and waits after its EXEC.
LEMMA ExecuteStep ==
  ASSUME ConfigAssumption, TypeInv, Senders, Kept, Intact',
         ExecuteClaim \/ ExecuteTake \/ SendWait
  PROVE  Kept'
<1>1. /\ InMulti /\ Ran /\ Told /\ LockHeld /\ RedisTypes
      /\ entries \in Seq(Callers) /\ taken \in Seq(Callers)
      /\ UNCHANGED <<pc, answer, execReply, log, used, strays, unheard>>
  BY DEF Kept, TypeInv, BatchTypes, ExecTypes, ExecuteClaim, ExecuteTake, SendWait,
         callVars, batchVars, redisVars, histVars
<1>2. Talking' = Talking
  BY <1>1 DEF Talking
<1>3. CASE ExecuteClaim
  <2>1. /\ UNCHANGED <<entries, taken, txn>>
        /\ phase = "idle" /\ phase' \in {"refused", "claimed"}
    BY <1>3 DEF ExecuteClaim, redisVars
  <2>2. InMulti'
    BY <1>1, <1>2, <2>1 DEF InMulti, Holds
  <2>3. Ran' /\ Told'
    BY <1>1, <2>1 DEF Ran, Told, Skipped, Executed
  <2> QED
    BY <2>2, <2>3 DEF Kept
<1>4. CASE ExecuteTake
  <2>1. /\ UNCHANGED txn /\ holder = Nobody /\ phase = "claimed"
        /\ phase' = (IF entries = <<>> THEN "ok" ELSE "taken")
        /\ taken' = entries /\ entries' = <<>>
    BY <1>4 DEF ExecuteTake, redisVars
  <2>2. ~Talking
    BY <1>1, <2>1, NullAssumption DEF LockHeld, Talking, Callers, Nobody
  <2>3. entries # <<>> =>
          used # {} /\ \A k \in used : txn[k].open /\ Holds(txn[k], entries, strays)
    BY <1>1, <2>1 DEF InMulti
  <2>4. InMulti'
    BY <1>1, <1>2, <2>1, <2>2, <2>3 DEF InMulti, Holds
  <2>5. Skipped /\ Skipped'
    BY <1>1, <2>1 DEF Ran, Skipped
  <2>6. Ran'
    BY <2>1, <2>5 DEF Ran
  <2>7. Told'
    <3>1. entries = <<>> => Range(taken') = {}
      BY <2>1, RangeOfEmpty
    <3> QED
      BY <1>1, <2>1, <3>1 DEF Told
  <2> QED
    BY <2>4, <2>6, <2>7 DEF Kept
<1>5. CASE SendWait
  <2>1. UNCHANGED <<entries, taken>> /\ phase = "waiting" /\ phase' = "answering"
    BY <1>5 DEF SendWait, batchVars
  <2>2. Ran' /\ Told'
    BY <1>1, <2>1 DEF Ran, Told, Skipped, Executed, Answered
  <2>3. \A l \in used : txn[l].open => txn'[l].open
    <3> DEFINE k == Conn(target)
    <3>1. txn' = txn \/ Set(k, [txn[k] EXCEPT !.items = Append(txn[k].items, Null)])
      BY <1>5 DEF SendWait
    <3>2. target \in Nodes
      BY <2>1 DEF TypeInv, ExecTypes, Slotted
    <3>3. k \in Connections
      BY <1>1, <3>2, PoolFacts
    <3>4. used \subseteq Connections /\ \A l \in Connections : txn[l] \in Txns
      BY <1>1 DEF RedisTypes, Txns
    <3> HIDE DEF k
    <3>5. CASE Set(k, [txn[k] EXCEPT !.items = Append(txn[k].items, Null)])
      <4>1. txn'[k] = [txn[k] EXCEPT !.items = Append(txn[k].items, Null)]
            /\ \A l \in Connections \ {k} : txn'[l] = txn[l]
        BY <1>1, <3>3, <3>5, SetAt
      <4>2. txn'[k].open = txn[k].open
        BY <3>3, <3>4, <4>1 DEF Txns
      <4> QED
        BY <3>4, <4>1, <4>2
    <3> QED
      BY <3>1, <3>5
  <2>4. InMulti'
    BY <1>1, <1>2, <2>1, <2>3 DEF InMulti
  <2> QED
    BY <2>2, <2>4 DEF Kept
<1> QED
  BY <1>3, <1>4, <1>5

\* The elements of a concatenation.
LEMMA RangeOfBoth ==
  ASSUME NEW s \in Seq(Values), NEW t \in Seq(Values)
  PROVE  Range(s \o t) = Range(s) \cup Range(t)
<1>1. /\ Len(s) \in Nat /\ Len(t) \in Nat
      /\ DOMAIN s = 1 .. Len(s) /\ DOMAIN t = 1 .. Len(t)
      /\ DOMAIN (s \o t) = 1 .. Len(s) + Len(t)
      /\ \A i \in 1 .. Len(s) : (s \o t)[i] = s[i]
      /\ \A i \in 1 .. Len(t) : (s \o t)[Len(s) + i] = t[i]
  OBVIOUS
<1>2. Range(s) \cup Range(t) \subseteq Range(s \o t)
  BY RangeOfConcat
<1>3. ASSUME NEW x \in Range(s \o t) PROVE x \in Range(s) \cup Range(t)
  <2>1. PICK i \in 1 .. Len(s) + Len(t) : x = (s \o t)[i]
    BY <1>1 DEF Range
  <2>2. CASE i <= Len(s)
    BY <1>1, <2>1, <2>2 DEF Range
  <2>3. CASE i > Len(s)
    <3>1. i - Len(s) \in 1 .. Len(t) /\ i = Len(s) + (i - Len(s))
      BY <1>1, <2>1, <2>3
    <3>2. x = t[i - Len(s)]
      BY <1>1, <2>1, <3>1
    <3> QED
      BY <1>1, <3>1, <3>2 DEF Range
  <2> QED
    BY <1>1, <2>1, <2>2, <2>3
<1> QED
  BY <1>2, <1>3

\* The array of EXEC, with a gap for every command that failed inside it.
LEMMA SpoiltFacts ==
  ASSUME NEW items \in Seq(Values), NEW failing \in SUBSET DOMAIN items
  PROVE  /\ Len(Spoilt(items, failing)) = Len(items)
         /\ \A i \in 1 .. Len(items) : Spoilt(items, failing)[i] \in {items[i], Null}
BY DEF Spoilt

\* EXEC runs the whole MULTI, or nothing of it.
LEMMA ExecStep ==
  ASSUME ConfigAssumption, TypeInv, Senders, Kept, Intact', SendExec
  PROVE  Kept'
<1> DEFINE k == Conn(target)
           items == txn[k].items
<1>1. /\ InMulti /\ Ran /\ Told /\ RedisTypes /\ taken \in Seq(Callers)
      /\ phase = "taken" /\ phase' \in {"waiting", "answering"}
      /\ UNCHANGED <<pc, answer, entries, taken, strays>>
      /\ Use(k)
  BY DEF Kept, TypeInv, ExecTypes, SendExec, callVars, batchVars
<1>2. \/ /\ log' = log \o items
         /\ \/ \E failing \in SUBSET DOMAIN items : execReply' = ArrayReply(Spoilt(items, failing))
            \/ execReply' = ErrorReply /\ unheard'
      \/ log' = log /\ execReply' = ErrorReply
  BY DEF SendExec
<1>3. target \in Nodes
  BY <1>1 DEF TypeInv, ExecTypes, Slotted
<1>4. k \in Connections /\ txn[k] \in Txns
  BY <1>1, <1>3, PoolFacts DEF RedisTypes, Txns
<1>5. used' = {k} /\ used \subseteq {k}
  <2>1. lost \subseteq lost'
    BY WireGrows DEF SendExec
  <2> HIDE DEF k
  <2> QED
    BY <1>1, <2>1, SameConnection
<1>6. /\ entries = <<>> /\ ~Talking /\ Holds(txn[k], taken, strays)
      /\ Skipped
  BY <1>1, <1>5 DEF InMulti, Ran
<1>7. /\ Range(taken) \subseteq Range(items)
      /\ Range(items) \cap Callers \subseteq Range(taken) \cup strays
      /\ Len(taken) <= Len(items) /\ (strays = {} => items = taken)
      /\ items \in Seq(Values) /\ log \in Seq(Values)
  BY <1>1, <1>4, <1>6 DEF Holds, Txns, RedisTypes
<1> HIDE DEF items, k
<1>8. InMulti'
  <2>1. ~Talking'
    BY <1>1, <1>6 DEF Talking
  <2> QED
    BY <1>1, <1>6, <2>1 DEF InMulti
<1>9. CASE log' = log /\ execReply' = ErrorReply
  <2>1. Ran'
    BY <1>1, <1>6, <1>9 DEF Ran, Skipped
  <2>2. Told'
    BY <1>1, <1>9 DEF Told
  <2> QED
    BY <1>8, <2>1, <2>2 DEF Kept
<1>10. CASE log' = log \o items
  <2>1. Range(log') = Range(log) \cup Range(items)
    BY <1>7, <1>10, RangeOfBoth
  <2>2. Executed'
    BY <1>1, <1>6, <1>7, <2>1 DEF Executed, Skipped
  <2>3. Told'
    BY <1>1, <2>1 DEF Told
  <2>4. CASE execReply' = ErrorReply /\ unheard'
    <3>1. Ran'
      BY <1>1, <2>2, <2>4 DEF Ran
    <3> QED
      BY <1>8, <2>3, <3>1 DEF Kept
  <2>5. ASSUME NEW failing \in SUBSET DOMAIN items, execReply' = ArrayReply(Spoilt(items, failing))
        PROVE  Kept'
    <3>1. execReply'.tag = "array" /\ execReply'.items = Spoilt(items, failing)
      BY <2>5 DEF ArrayReply
    <3>2. /\ Len(execReply'.items) = Len(items)
          /\ \A i \in 1 .. Len(items) : execReply'.items[i] \in {items[i], Null}
      BY <1>7, <3>1, SpoiltFacts
    <3>3. Len(taken) \in Nat /\ Len(items) \in Nat
      BY <1>1, <1>7
    <3>4. Answered'
      BY <1>1, <1>7, <3>1, <3>2, <3>3 DEF Answered
    <3>5. Ran'
      BY <1>1, <2>2, <3>4 DEF Ran
    <3> QED
      BY <1>8, <2>3, <3>5 DEF Kept
  <2> QED
    BY <1>2, <1>9, <2>4, <2>5
<1> QED
  BY <1>2, <1>9, <1>10

\* The callers get their answers, or lose their senders to the timeout.
LEMMA AnswerStep ==
  ASSUME TypeInv, Senders, Kept, Distribute \/ ExecuteTimeout
  PROVE  Kept'
<1>1. /\ InMulti /\ Ran /\ Told /\ taken \in Seq(Callers)
      /\ answer \in [Commands -> Answers] /\ \A c \in Callers : c \in Commands
      /\ UNCHANGED <<pc, entries, taken, txn, log, execReply, used, strays, unheard>>
      /\ phase' \in {"ok", "err"}
  BY DEF Kept, TypeInv, CallTypes, ExecTypes, Callers, Distribute, ExecuteTimeout, batchVars,
         redisVars, histVars
<1>2. Talking' = Talking
  BY <1>1 DEF Talking
<1>3. InMulti' /\ Ran'
  <2>1. InMulti'
    BY <1>1, <1>2 DEF InMulti
  <2>2. Skipped' \/ Executed'
    BY <1>1 DEF Ran, Skipped, Executed
  <2>3. Ran'
    BY <1>1, <2>2 DEF Ran
  <2> QED
    BY <2>1, <2>3
<1>4. \A c \in Callers : c \notin Range(taken) => answer'[c] = answer[c]
  BY <1>1 DEF Distribute, ExecuteTimeout
<1>5. \A c \in Range(taken) : c \in Callers
  BY <1>1, RangeOfSeq
<1>6. CASE ExecuteTimeout
  <2>1. phase' = "err" /\ \A c \in Range(taken) : answer'[c] = Failure("closed")
    BY <1>1, <1>5, <1>6 DEF ExecuteTimeout
  <2>2. Told'
    BY <1>1, <1>4, <2>1 DEF Told, Failure
  <2> QED
    BY <1>3, <2>2 DEF Kept
<1>7. CASE Distribute
  <2> DEFINE at(c) == CHOOSE i \in DOMAIN taken : taken[i] = c
  <2>1. /\ phase = "answering" /\ phase' = "ok"
        /\ \A c \in Range(taken) :
             answer'[c] = IF SkipResult THEN Ok(Null) ELSE ExecAnswer(execReply, at(c))
    BY <1>1, <1>5, <1>7 DEF Distribute
  <2>2. \A c \in Range(taken) : at(c) \in 1 .. Len(taken) /\ taken[at(c)] = c
    <3>1. \A c \in Range(taken) : \E i \in DOMAIN taken : taken[i] = c
      BY DEF Range
    <3>2. DOMAIN taken = 1 .. Len(taken)
      BY <1>1
    <3> QED
      BY <3>1, <3>2
  <2> HIDE DEF at
  <2>3. CASE SkipResult
    <3>1. \A c \in Range(taken) : answer'[c].tag = "ok" /\ answer'[c].val = Null
      BY <2>1, <2>3 DEF Ok
    <3>2. Told'
      BY <1>1, <1>4, <2>1, <3>1 DEF Told
    <3> QED
      BY <1>3, <3>2 DEF Kept
  <2>4. CASE ~SkipResult /\ Executed /\ Answered
    <3>1. ASSUME NEW c \in Range(taken)
          PROVE  /\ answer'[c].tag = "ok"
                 /\ strays = {} => answer'[c].val \in {c, Null}
      <4>1. at(c) \in 1 .. Len(taken) /\ taken[at(c)] = c /\ Len(taken) \in Nat
        BY <1>1, <2>2
      <4>2. answer'[c] = ExecAnswer(execReply, at(c))
        BY <2>1, <2>4
      <4>3. execReply.tag = "array" /\ at(c) <= Len(execReply.items)
        <5>1. execReply \in Replies
          BY DEF TypeInv, ExecTypes
        <5>2. execReply.items \in Seq(Values)
          BY <2>4, <5>1 DEF Answered, Replies
        <5> QED
          BY <2>4, <4>1, <5>2 DEF Answered
      <4>4. answer'[c] = Ok(execReply.items[at(c)])
        BY <4>2, <4>3 DEF ExecAnswer
      <4> QED
        BY <2>4, <4>1, <4>4 DEF Answered, Ok
    <3>2. Told'
      <4>1. strays' = {} => \A c \in Callers :
              answer'[c].val # Null => answer'[c].val = c /\ c \in Range(log')
        BY <1>1, <1>4, <2>4, <3>1 DEF Told, Executed
      <4> QED
        BY <1>1, <2>1, <3>1, <4>1 DEF Told
    <3> QED
      BY <1>3, <3>2 DEF Kept
  <2>5. CASE ~SkipResult /\ execReply = ErrorReply /\ (Skipped \/ unheard)
    <3>1. \A i : ExecAnswer(execReply, i) = Failure("failed")
      BY <2>5 DEF ExecAnswer, ErrorReply
    <3>2. \A c \in Range(taken) : answer'[c].tag = "failed" /\ answer'[c].val = Null
      BY <2>1, <2>5, <3>1 DEF Failure
    <3>3. Skipped' = Skipped
      BY <1>1 DEF Skipped
    <3>4. Told'
      BY <1>1, <1>4, <2>1, <2>5, <3>2, <3>3 DEF Told
    <3> QED
      BY <1>3, <3>4 DEF Kept
  <2> QED
    BY <1>1, <2>1, <2>3, <2>4, <2>5 DEF Ran
<1> QED
  BY <1>6, <1>7

\* Another user's command strays into the MULTI, or runs beside the batch.
LEMMA ForeignStep ==
  ASSUME ConfigAssumption, TypeInv, Senders, Kept, NEW f \in Foreign, ForeignCommand(f)
  PROVE  Kept'
<1> DEFINE k == Conn(NodeOf[f])
<1>1. /\ InMulti /\ Ran /\ Told /\ RedisTypes
      /\ entries \in Seq(Callers) /\ taken \in Seq(Callers) /\ log \in Seq(Values)
      /\ UNCHANGED <<answer, entries, phase, taken, execReply, used, unheard>>
      /\ pc' = [pc EXCEPT ![f] = "returned"] /\ Receive(k, f)
      /\ strays' = IF txn[k].open THEN strays \cup {f} ELSE strays
  BY DEF Kept, TypeInv, BatchTypes, ExecTypes, RedisTypes, ForeignCommand, batchVars, execVars
<1>2. /\ f \in Commands /\ f \in Values /\ f \notin Callers /\ k \in Connections
      /\ \A l \in Connections : txn[l] \in Txns
      /\ used \subseteq Connections
      /\ pc \in [Commands -> {"new", "indexed", "locked", "open", "queued", "returned"}]
      /\ \A c \in Callers : c \in Commands
  BY <1>1, PoolFacts DEF ConfigAssumption, Callers, Values, RedisTypes, Txns, TypeInv, CallTypes
<1> HIDE DEF k
<1>3. Talking' = Talking
  BY <1>1, <1>2 DEF Talking
<1>4. CASE ~txn[k].open
  <2>1. log' = Append(log, f) /\ txn' = txn /\ strays' = strays
    BY <1>1, <1>4 DEF Receive
  <2>2. Range(log') = Range(log) \cup {f}
    BY <1>1, <1>2, <2>1, RangeOfAppend
  <2>3. Ran' /\ Told'
    BY <1>1, <1>2, <2>1, <2>2, NothingRan
  <2>4. InMulti'
    BY <1>1, <1>3, <2>1 DEF InMulti, Holds
  <2> QED
    BY <2>3, <2>4 DEF Kept
<1>5. CASE txn[k].open
  <2>1. /\ log' = log /\ strays' = strays \cup {f}
        /\ txn'[k] = [txn[k] EXCEPT !.items = Append(txn[k].items, f)]
        /\ \A l \in Connections \ {k} : txn'[l] = txn[l]
    BY <1>1, <1>2, <1>5, SetAt DEF Receive
  <2>2. Ran' /\ Told'
    BY <1>1, <2>1, NothingRan
  <2>3. txn'[k].open
    BY <1>2, <1>5, <2>1 DEF Txns
  <2>4. ASSUME NEW s \in {entries, taken}, NEW l \in used, Holds(txn[l], s, strays)
        PROVE  Holds(txn'[l], s, strays')
    <3>1. CASE l = k
      <4>1. s \in Seq(Callers) /\ txn[k] \in Txns
        BY <1>1, <1>2
      <4>2. Holds([txn[k] EXCEPT !.items = Append(txn[k].items, f)], s, strays \cup {f})
        BY <1>2, <2>4, <3>1, <4>1, HoldsMore
      <4> QED
        BY <2>1, <3>1, <4>2
    <3>2. CASE l # k
      <4>1. txn'[l] = txn[l] /\ strays' # {}
        BY <1>2, <2>1, <2>4, <3>2
      <4> QED
        BY <2>1, <2>4, <4>1 DEF Holds
    <3> QED
      BY <3>1, <3>2
  <2>5. \A l \in used : txn[l].open => txn'[l].open
    BY <1>2, <2>1, <2>3
  <2>6. InMulti'
    <3>1. phase = "taken" => \A l \in used : Holds(txn'[l], taken, strays')
      BY <1>1, <2>4 DEF InMulti
    <3>2. phase \in {"idle", "refused", "claimed"} /\ (Talking \/ entries # <<>>)
            => \A l \in used : Holds(txn'[l], entries, strays')
      BY <1>1, <2>4 DEF InMulti
    <3>3. Talking \/ entries # <<>> \/ phase = "taken" => used # {} /\ \A l \in used : txn'[l].open
      BY <1>1, <2>5 DEF InMulti
    <3>4. phase = "taken" => entries = <<>> /\ ~Talking
      BY <1>1 DEF InMulti
    <3> QED
      BY <1>1, <1>3, <3>1, <3>2, <3>3, <3>4 DEF InMulti, Holds
  <2> QED
    BY <2>2, <2>6 DEF Kept
<1> QED
  BY <1>4, <1>5

\* Another connection breaks.
LEMMA DisconnectStep ==
  ASSUME TypeInv, Kept, Intact', NEW k \in Connections, Disconnect(k)
  PROVE  Kept'
<1>1. /\ InMulti /\ Ran /\ Told /\ RedisTypes /\ taken \in Seq(Callers)
      /\ UNCHANGED <<pc, answer, entries, phase, taken, execReply, log, used, strays, unheard>>
      /\ Set(k, NoTxn) /\ lost' = lost \cup {k}
  BY DEF Kept, TypeInv, ExecTypes, Disconnect, Lose, Break, callVars, batchVars, execVars
<1>2. k \notin used /\ used \subseteq Connections
  BY <1>1 DEF Intact, RedisTypes
<1>3. \A l \in used : txn'[l] = txn[l]
  BY <1>1, <1>2, SetAt
<1>4. Talking' = Talking
  BY <1>1 DEF Talking
<1>5. InMulti'
  BY <1>1, <1>3, <1>4 DEF InMulti, Holds
<1>6. Ran' /\ Told'
  BY <1>1, NothingRan
<1> QED
  BY <1>5, <1>6 DEF Kept

-----------------------------------------------------------------------------
(* The theorems.                                                             *)

\* What the connection is used for and lost for never shrinks.
LEMMA HistoryGrows ==
  ASSUME TypeInv, Senders, [Next]_vars
  PROVE  used \subseteq used' /\ lost \subseteq lost'
<1>1. ASSUME NEW c \in Callers, FetchIndex(c) \/ Call(c)
      PROVE  used \subseteq used' /\ lost \subseteq lost'
  BY <1>1, CallEffect
<1>2. CASE DiscardClaim \/ DiscardDrain \/ ExecuteClaim \/ ExecuteTimeout
  BY <1>2 DEF DiscardClaim, DiscardDrain, ExecuteClaim, ExecuteTimeout, histVars
<1>3. CASE ExecuteTake \/ SendWait \/ Distribute
  BY <1>3 DEF ExecuteTake, SendWait, Distribute, histVars
<1>4. CASE SendExec
  BY <1>4, WireGrows DEF SendExec, Use
<1>5. ASSUME NEW f \in Foreign, ForeignCommand(f) PROVE used' = used /\ lost' = lost
  BY <1>5 DEF ForeignCommand
<1>6. ASSUME NEW k \in Connections, Disconnect(k) PROVE used' = used /\ lost \subseteq lost'
  BY <1>6 DEF Disconnect, Lose, Break
<1>7. CASE UNCHANGED vars
  BY <1>7 DEF vars, histVars
<1> QED
  BY <1>1, <1>2, <1>3, <1>4, <1>5, <1>6, <1>7 DEF Next, Executor

\* The invariant holds in every reachable state.
LEMMA PoolInvariance ==
  ASSUME ConfigAssumption
  PROVE  Spec => []PInv
<1>1. Init /\ TypeInv => PInv
  <2> SUFFICES ASSUME Init, TypeInv PROVE PInv
    OBVIOUS
  <2>1. /\ entries = <<>> /\ taken = <<>> /\ log = <<>> /\ phase = "idle" /\ strays = {}
        /\ \A c \in Callers : pc[c] = "new" /\ answer[c] = NoAnswer
    BY DEF Init, Callers
  <2>2. Range(entries) = {} /\ Range(taken) = {} /\ Range(log) = {}
    BY <2>1, RangeOfEmpty
  <2>3. Senders
    BY <2>1, <2>2 DEF Senders
  <2>4. InMulti
    BY <2>1 DEF InMulti, Talking
  <2>5. Ran
    BY <2>1, <2>2 DEF Ran, Skipped
  <2>6. Told
    BY <2>1 DEF Told, NoAnswer
  <2> QED
    BY <2>3, <2>4, <2>5, <2>6 DEF PInv, Kept
<1>2. PInv /\ TypeInv' /\ [Next]_vars => PInv'
  <2> SUFFICES ASSUME PInv, TypeInv', [Next]_vars PROVE PInv'
    OBVIOUS
  <2>1. TypeInv /\ Senders /\ (Intact' => Intact /\ Kept)
    BY HistoryGrows, IntactBefore DEF PInv
  <2>2. ASSUME NEW c \in Callers, FetchIndex(c) \/ Call(c) PROVE PInv'
    <3>1. Senders'
      BY <2>1, <2>2, CallSenders
    <3>2. ASSUME Intact' PROVE Kept'
      <4>1. InMulti /\ Ran /\ Told /\ taken \in Seq(Callers)
        BY <2>1, <3>2 DEF Kept, TypeInv, ExecTypes
      <4>2. InMulti' /\ log' = log
        BY <2>1, <2>2, <3>2, <4>1, CallInMulti
      <4>3. Ran' /\ Told'
        BY <2>1, <2>2, <4>1, <4>2, CallEffect, CallSenders, NothingRan
      <4> QED
        BY <4>2, <4>3 DEF Kept
    <3> QED
      BY <3>1, <3>2 DEF PInv
  <2>3. CASE DiscardClaim \/ DiscardDrain
    <3>1. Senders' /\ (Intact' => Kept')
      BY <2>1, <2>3, OtherSenders, DiscardStep
    <3> QED
      BY <3>1 DEF PInv
  <2>4. CASE ExecuteClaim \/ Executor \/ ExecuteTimeout
    <3>1. Senders'
      BY <2>1, <2>4, OtherSenders
    <3>2. Intact' => Kept'
      BY <2>1, <2>4, ExecuteStep, ExecStep, AnswerStep DEF Executor
    <3> QED
      BY <3>1, <3>2 DEF PInv
  <2>5. ASSUME NEW f \in Foreign, ForeignCommand(f) PROVE PInv'
    <3>1. Senders' /\ (Intact' => Kept')
      BY <2>1, <2>5, OtherSenders, ForeignStep
    <3> QED
      BY <3>1 DEF PInv
  <2>6. ASSUME NEW k \in Connections, Disconnect(k) PROVE PInv'
    <3>1. Senders' /\ (Intact' => Kept')
      BY <2>1, <2>6, OtherSenders, DisconnectStep
    <3> QED
      BY <3>1 DEF PInv
  <2>7. CASE UNCHANGED vars
    <3>1. Senders'
      BY <2>1, <2>7 DEF Senders, vars, callVars, batchVars, execVars, histVars
    <3>2. ASSUME Intact' PROVE Kept'
      <4>1. InMulti /\ Ran /\ Told /\ taken \in Seq(Callers)
        BY <2>1, <3>2 DEF Kept, TypeInv, ExecTypes
      <4>2. InMulti'
        BY <2>7, <4>1 DEF InMulti, Talking, Holds, vars, callVars, batchVars, execVars,
                          redisVars, histVars
      <4>3. Ran' /\ Told'
        BY <2>7, <4>1, NothingRan DEF vars, callVars, execVars, redisVars, histVars
      <4> QED
        BY <4>2, <4>3 DEF Kept
    <3> QED
      BY <3>1, <3>2 DEF PInv
  <2> QED
    BY <2>2, <2>3, <2>4, <2>5, <2>6, <2>7 DEF Next
<1> QED
  BY <1>1, <1>2, TypeInvariance, PTL DEF Spec

\* The invariant says what the callers may rely on.
LEMMA PInvKeepsPromises ==
  ASSUME PInv
  PROVE  ReplyIsOwn /\ IntactAwaitsExec /\ TransactionAllOrNothing /\ FailedNeverRan
<1>1. /\ Senders /\ (Intact => Ran /\ Told) /\ taken \in Seq(Callers)
      /\ phase \in {"idle", "refused", "claimed", "taken", "waiting", "answering", "ok", "err"}
  BY DEF PInv, Kept, TypeInv, ExecTypes
<1>2. \A c \in Range(taken) : c \in Callers
  BY <1>1, RangeOfSeq
<1>3. ReplyIsOwn
  BY <1>1 DEF Told, ReplyIsOwn
<1>4. IntactAwaitsExec
  <2> SUFFICES ASSUME Intact, NEW c \in Callers,
                      c \in Range(entries) \/ (phase = "taken" /\ c \in Range(taken)),
                      c \in Range(log)
               PROVE  FALSE
    BY DEF IntactAwaitsExec, CommandsAwaitExec
  <2>1. Executed /\ phase # "taken"
    BY <1>1 DEF Ran, Skipped
  <2>2. c \in Range(entries) /\ (c \in Range(taken) \/ c \in strays)
    BY <2>1 DEF Executed
  <2> QED
    BY <1>1, <2>2 DEF Senders
<1>5. TransactionAllOrNothing
  <2> SUFFICES ASSUME Intact, phase \in {"waiting", "answering", "ok"},
                      NEW c \in Range(taken), NEW d \in Range(taken)
               PROVE  /\ c \in Range(log) <=> d \in Range(log)
                      /\ answer[c].tag = answer[d].tag
    BY DEF TransactionAllOrNothing
  <2>1. c \in Range(log) <=> d \in Range(log)
    BY <1>1, <1>2 DEF Ran, Skipped, Executed
  <2>2. CASE phase \in {"waiting", "answering"}
    BY <1>1, <1>2, <2>1, <2>2 DEF Senders
  <2>3. CASE phase = "ok"
    BY <1>1, <2>1, <2>3 DEF Told
  <2> QED
    BY <2>2, <2>3
<1>6. FailedNeverRan
  <2> SUFFICES ASSUME Intact, NEW c \in Callers, c \in Range(log), c \notin strays, ~unheard
               PROVE  answer[c].tag \notin {"failed", "discarded"}
    BY DEF FailedNeverRan
  <2>1. ~Skipped /\ Executed /\ c \in Range(taken)
    BY <1>1 DEF Ran, Skipped, Executed
  <2>2. phase \in {"waiting", "answering", "ok", "err"}
    BY <1>1, <2>1 DEF Ran
  <2>3. CASE phase \in {"waiting", "answering"}
    BY <1>1, <2>1, <2>3 DEF Senders, NoAnswer
  <2>4. CASE phase \in {"ok", "err"}
    BY <1>1, <2>1, <2>4 DEF Told
  <2> QED
    BY <2>2, <2>3, <2>4
<1> QED
  BY <1>3, <1>4, <1>5, <1>6

\* On any pool, whoever else uses it, with late replies, broken connections,
\* refused commands, a discard and a timeout: a batch whose traffic took one
\* connection, with nothing in between, hands every caller its own reply.
THEOREM RepliesAreOwn == ASSUME ConfigAssumption PROVE Spec => []ReplyIsOwn
  BY PInvKeepsPromises, PoolInvariance, PTL

\* There Redis runs nothing before execute_async sends the EXEC.
THEOREM CommandsWait == ASSUME ConfigAssumption PROVE Spec => []IntactAwaitsExec
  BY PInvKeepsPromises, PoolInvariance, PTL

\* There the transaction is atomic, also when replies come too late: all commands
\* ran or none did, and all callers are told the same.
THEOREM TransactionIsAtomic == ASSUME ConfigAssumption PROVE Spec => []TransactionAllOrNothing
  BY PInvKeepsPromises, PoolInvariance, PTL

\* There a command that was reported failed or discarded ran only if a reply was
\* late: its own, or the one of EXEC.
THEOREM FailuresAreTrue == ASSUME ConfigAssumption PROVE Spec => []FailedNeverRan
  BY PInvKeepsPromises, PoolInvariance, PTL
=============================================================================
