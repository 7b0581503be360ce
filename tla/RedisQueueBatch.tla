-------------------------- MODULE RedisQueueBatch ---------------------------
(***************************************************************************)
(* One CommandBatchService in the REDIS_READ_ATOMIC and REDIS_WRITE_ATOMIC *)
(* modes (command_batch_service.rs).  async0 sends its command to Redis at *)
(* once, the first one after a MULTI, while it holds the state lock;       *)
(* execute_async sends the EXEC and hands out its array.  The read mode    *)
(* differs only in using replica connections throughout.                   *)
(*                                                                         *)
(* MULTI, commands, EXEC and WAIT each go to pool.next(): the clients of   *)
(* the pool take turns and serve every user of the connection manager.     *)
(* Redis and fred are external; a transaction is a property of one         *)
(* connection, and lives in Redis.  fred opens a connection that was lost  *)
(* again, and may repeat there what it had sent.                           *)
(***************************************************************************)
EXTENDS BatchReplies

CONSTANTS
  Foreign,      \* the commands other users of the pool send; the rest are calls
  WaitCalls,    \* the calls whose command is WAIT or WAITAOF
  Nodes,        \* masters (or, in the read mode, their replicas)
  NodeOf,       \* the node that owns a command's routing key
  NoNode,       \* the batch has no slot yet
  PoolSize,     \* clients in the pool
  SkipResult,   \* options.skip_result
  SyncSlaves,   \* options.sync_slaves
  MaxTimeouts,  \* bound on replies that come too late
  MaxLosses     \* bound on connections lost

ConfigAssumption ==
  /\ Foreign \subseteq Commands
  /\ WaitCalls \subseteq Commands \ Foreign
  /\ NodeOf \in [Commands -> Nodes]
  /\ NoNode \notin Nodes
  /\ PoolSize \in Nat \ {0}
  /\ SkipResult \in BOOLEAN
  /\ {SyncSlaves, MaxTimeouts, MaxLosses} \subseteq Nat

Callers == Commands \ Foreign
Clients == 0 .. PoolSize - 1
Connections == Clients \X Nodes

\* Nobody holds the tokio Mutex around BatchState.
Nobody == Null

VARIABLES
  pc,          \* each call: "new", "indexed", "locked", "open", "queued", "returned"
  idx, answer,
  executed, next_index, slot, entries,
  holder,      \* the call that holds the lock of BatchState across its awaits
  phase,       \* execute_async
  discard,     \* discard_async
  taken, execReply, synced, responses,
  target,      \* the slot that execute_async took with the entries
  turn,        \* the pool's round-robin counter
  txn,         \* the MULTI state of each connection
  log,         \* what Redis ran, in order
  timeouts, losses,
  \* what happened
  used,        \* the connections that MULTI, commands and EXEC went to
  lost,        \* the connections that broke
  strays,      \* what Redis got beside the commands of the entries
  unheard      \* did EXEC run without its reply being received?

callVars  == <<pc, idx, answer>>
batchVars == <<executed, next_index, slot, entries, holder>>
execVars  == <<phase, discard, taken, execReply, synced, responses, target>>
redisVars == <<turn, txn, log, timeouts, losses>>
histVars  == <<used, lost, strays, unheard>>
vars == <<callVars, batchVars, execVars, redisVars, histVars>>

NoTxn  == [open |-> FALSE, dirty |-> FALSE, items |-> <<>>]
NewTxn == [open |-> TRUE, dirty |-> FALSE, items |-> <<>>]

Init ==
  /\ pc     = [c \in Commands |-> "new"]
  /\ idx    = [c \in Commands |-> 0]
  /\ answer = [c \in Commands |-> NoAnswer]
  /\ executed = FALSE
  /\ next_index = 0
  /\ slot = NoNode
  /\ entries = <<>>
  /\ holder = Nobody
  /\ phase = "idle"
  /\ discard = "idle"
  /\ taken = <<>>
  /\ execReply = StatusReply
  /\ synced = 0
  /\ responses = <<>>
  /\ target = NoNode
  /\ turn = 0
  /\ txn = [k \in Connections |-> NoTxn]
  /\ log = <<>>
  /\ timeouts = 0
  /\ losses = 0
  /\ used = {}
  /\ lost = {}
  /\ strays = {}
  /\ unheard = FALSE

-----------------------------------------------------------------------------
(* pool.next() and the connection to node n behind it.                       *)

Conn(n) == <<turn, n>>
PoolNext == turn' = (turn + 1) % PoolSize

\* The batch uses connection k.
Use(k) == PoolNext /\ used' = used \cup {k}

Set(k, transaction) == txn' = [txn EXCEPT ![k] = transaction]

\* Redis receives command v on connection k: inside a MULTI it is queued,
\* otherwise it runs at once.
Receive(k, v) ==
  IF txn[k].open
  THEN Set(k, [txn[k] EXCEPT !.items = Append(@, v)]) /\ UNCHANGED log
  ELSE log' = Append(log, v) /\ UNCHANGED txn

\* Redis refuses a command; inside a MULTI that dooms the EXEC.
Refuse(k) == Set(k, [txn[k] EXCEPT !.dirty = txn[k].open]) /\ UNCHANGED log

\* The reply comes, it comes too late for fred, or the connection breaks.
InTime == UNCHANGED <<timeouts, losses, lost>>

Late ==
  /\ timeouts < MaxTimeouts
  /\ timeouts' = timeouts + 1
  /\ UNCHANGED <<losses, lost>>

Break(k) ==
  /\ losses < MaxLosses
  /\ losses' = losses + 1
  /\ lost' = lost \cup {k}
  /\ UNCHANGED timeouts

\* It breaks and Redis forgets its MULTI.
Lose(k) == Break(k) /\ Set(k, NoTxn) /\ UNCHANGED log

\* That may happen when nothing is under way on it.
Disconnect(k) ==
  /\ Lose(k)
  /\ UNCHANGED <<callVars, batchVars, execVars, turn, used, strays, unheard>>

-----------------------------------------------------------------------------
(* async0                                                                    *)

FetchIndex(c) ==
  /\ pc[c] = "new"
  /\ pc' = [pc EXCEPT ![c] = "indexed"]
  /\ idx' = [idx EXCEPT ![c] = next_index]
  /\ next_index' = next_index + 1
  /\ UNCHANGED <<answer, executed, slot, entries, holder, execVars, redisVars, histVars>>

\* Mutant: the lock guard outlives the failed call.
CallFailsLocked(c) ==
  /\ pc' = [pc EXCEPT ![c] = "returned"]
  /\ answer' = [answer EXCEPT ![c] = Failure("failed")]
  /\ holder' = c

is_wait_command(c) == c \in WaitCalls

\* A caller returns with an error of its own and releases the lock.
CallFails(c) ==
  /\ pc' = [pc EXCEPT ![c] = "returned"]
  /\ answer' = [answer EXCEPT ![c] = Failure("failed")]
  /\ holder' = Nobody

\* Mutant: MULTI is never sent.
LockNoMulti(c) ==
  /\ pc[c] = "indexed"
  /\ holder = Nobody
  /\ IF is_wait_command(c)
     THEN CallFails(c) /\ UNCHANGED slot
     ELSE /\ pc' = [pc EXCEPT ![c] = "open"]
          /\ holder' = c
          /\ slot' = NodeOf[c]
          /\ UNCHANGED answer
  /\ UNCHANGED <<idx, executed, next_index, entries, execVars, redisVars, histVars>>

\* The state lock; WAIT and WAITAOF are refused under it.
Lock(c) ==
  /\ pc[c] = "indexed"
  /\ holder = Nobody
  /\ IF is_wait_command(c)
     THEN CallFails(c)
     ELSE /\ pc' = [pc EXCEPT ![c] = IF entries = <<>> THEN "locked" ELSE "open"]
          /\ holder' = c
          /\ UNCHANGED answer
  /\ UNCHANGED <<idx, executed, next_index, slot, entries, execVars, redisVars, histVars>>

\* The MULTI of c was answered: its command may follow.
Opened(c) == pc' = [pc EXCEPT ![c] = "open"] /\ UNCHANGED <<answer, holder>>

\* The first command takes the slot of its key and sends MULTI there.  Redis
\* refuses a MULTI inside a MULTI; fred may give up on the connection, or send
\* the MULTI again.
SendMulti(c) ==
  /\ pc[c] = "locked"
  /\ slot' = NodeOf[c]
  /\ LET k == Conn(NodeOf[c])
     IN  /\ Use(k)
         /\ \/ txn[k].open /\ UNCHANGED txn /\ InTime /\ CallFails(c)
            \/ ~txn[k].open /\ Set(k, NewTxn) /\ InTime /\ Opened(c)
            \/ ~txn[k].open /\ Set(k, NewTxn) /\ Late /\ CallFails(c)
            \/ Break(k) /\ Set(k, NoTxn) /\ CallFails(c)
            \/ Break(k) /\ Set(k, NewTxn) /\ Opened(c)
  /\ UNCHANGED <<idx, executed, next_index, entries, execVars, log, strays, unheard>>

\* The command is sent, routed by its own key, and its sender is kept.  The
\* reply, QUEUED or not, is not looked at: when the connection broke and fred
\* sent the command again, it ran at once.
SendCommand(c) ==
  /\ pc[c] = "open"
  /\ LET k == Conn(NodeOf[c])
     IN  /\ Use(k)
         /\ \/ Receive(k, c) /\ InTime
            \/ Break(k) /\ Set(k, NoTxn) /\ log' = Append(log, c)
  /\ entries' = Append(entries, c)
  /\ pc' = [pc EXCEPT ![c] = "queued"]
  /\ holder' = Nobody
  /\ UNCHANGED <<idx, answer, executed, next_index, slot, execVars, strays, unheard>>

\* The command is refused, its connection is lost (a command outside a MULTI
\* may have run), or its reply comes too late: async0 returns the error and
\* keeps no sender.
SendCommandFails(c) ==
  /\ pc[c] = "open"
  /\ LET k == Conn(NodeOf[c])
     IN  /\ Use(k)
         /\ \/ Refuse(k) /\ InTime /\ UNCHANGED strays
            \/ /\ Break(k) /\ Set(k, NoTxn)
               /\ log' = log \/ (~txn[k].open /\ log' = Append(log, c))
               /\ UNCHANGED strays
            \/ Receive(k, c) /\ Late /\ strays' = strays \cup {c}
  /\ CallFails(c)
  /\ UNCHANGED <<idx, executed, next_index, slot, entries, execVars, unheard>>

-----------------------------------------------------------------------------
(* discard_async: the senders are told; Redis is not.                        *)

DiscardClaim ==
  /\ discard = "idle"
  /\ discard' = IF executed THEN "refused" ELSE "claimed"
  /\ executed' = TRUE
  /\ UNCHANGED <<callVars, next_index, slot, entries, holder, phase, taken,
                 execReply, synced, responses, target, redisVars, histVars>>

DiscardDrain ==
  /\ discard = "claimed"
  /\ holder = Nobody
  /\ discard' = "ok"
  /\ answer' = [c \in Commands |-> IF c \in Range(entries)
                                   THEN Failure("discarded") ELSE answer[c]]
  /\ entries' = <<>>
  /\ UNCHANGED <<pc, idx, executed, next_index, slot, holder, phase, taken,
                 execReply, synced, responses, target, redisVars, histVars>>

-----------------------------------------------------------------------------
(* execute_async: execute_redis_based_queue and its inner future.            *)

ExecuteClaim ==
  /\ phase = "idle"
  /\ phase' = IF executed THEN "refused" ELSE "claimed"
  /\ executed' = TRUE
  /\ UNCHANGED <<callVars, next_index, slot, entries, holder, discard, taken,
                 execReply, synced, responses, target, redisVars, histVars>>

ExecuteTake ==
  /\ phase = "claimed"
  /\ holder = Nobody
  /\ phase' = IF entries = <<>> THEN "ok" ELSE "taken"
  /\ taken' = entries
  /\ target' = slot
  /\ entries' = <<>>
  /\ UNCHANGED <<callVars, executed, next_index, slot, holder, discard, execReply,
                 synced, responses, redisVars, histVars>>

\* The array of EXEC: a command that fails inside it does not stop the others,
\* and leaves no value.
Spoilt(items, failing) == [i \in DOMAIN items |-> IF i \in failing THEN Null ELSE items[i]]

\* EXEC runs the transaction of the connection it lands on, if there is one.
\* The reply may be lost, before Redis ran anything or after, or be late.
SendExec ==
  /\ phase = "taken"
  /\ phase' = IF SyncSlaves > 0 THEN "waiting" ELSE "answering"
  /\ LET k == Conn(target)
         items == txn[k].items
     IN  /\ Use(k)
         /\ Set(k, NoTxn)
         /\ \/ /\ txn[k].open /\ ~txn[k].dirty
               /\ log' = log \o items
               /\ \/ /\ InTime
                     /\ \E failing \in SUBSET DOMAIN items :
                          execReply' = ArrayReply(Spoilt(items, failing))
                     /\ UNCHANGED unheard
                  \/ (Late \/ Break(k)) /\ execReply' = ErrorReply /\ unheard' = TRUE
            \/ /\ ~txn[k].open \/ txn[k].dirty
               /\ InTime /\ execReply' = ErrorReply /\ UNCHANGED <<log, unheard>>
            \/ Break(k) /\ execReply' = ErrorReply /\ UNCHANGED <<log, unheard>>
  /\ UNCHANGED <<callVars, batchVars, discard, taken, synced, responses, target, strays>>

\* WAIT or WAITAOF, on whichever connection is next.
SendWait ==
  /\ phase = "waiting"
  /\ phase' = "answering"
  /\ PoolNext
  /\ LET k == Conn(target)
     IN  IF txn[k].open
         THEN /\ Set(k, [txn[k] EXCEPT !.items = Append(@, Null)])
              /\ synced' = extract_synced_slaves(StatusReply)
         ELSE /\ \E r \in {ErrorReply} \cup {IntegerReply(a) : a \in 0 .. SyncSlaves} :
                   synced' = extract_synced_slaves(r)
              /\ UNCHANGED txn
  /\ UNCHANGED <<callVars, batchVars, discard, taken, execReply, responses, target,
                 log, timeouts, losses, histVars>>

\* Mutant: a failed EXEC is swallowed.
DistributeSilent ==
  /\ phase = "answering"
  /\ phase' = "ok"
  /\ answer' = [c \in Commands |->
       IF c \notin Range(taken) \/ execReply.tag # "array" THEN answer[c]
       ELSE IF SkipResult THEN Ok(Null)
       ELSE ExecAnswer(execReply, CHOOSE i \in DOMAIN taken : taken[i] = c)]
  /\ UNCHANGED <<pc, idx, batchVars, discard, taken, execReply, synced, responses,
                 target, redisVars, histVars>>

\* The replies are handed out by position and returned in index order.
Distribute ==
  /\ phase = "answering"
  /\ phase' = "ok"
  /\ answer' = [c \in Commands |->
       IF c \notin Range(taken) THEN answer[c]
       ELSE IF SkipResult THEN Ok(Null)
       ELSE ExecAnswer(execReply, CHOOSE i \in DOMAIN taken : taken[i] = c)]
  /\ responses' = IF SkipResult THEN <<>>
       ELSE sort_by_index(collect_exec_indexed(execReply,
                            [i \in DOMAIN taken |-> idx[taken[i]]]))
  /\ UNCHANGED <<pc, idx, batchVars, discard, taken, execReply, synced, target,
                 redisVars, histVars>>

\* Mutant: a timed out batch keeps the senders it had taken.
ExecuteTimeoutKeep ==
  /\ phase \in {"claimed", "taken", "waiting", "answering"}
  /\ phase' = "err"
  /\ UNCHANGED <<callVars, batchVars, discard, taken, execReply, synced, responses,
                 target, redisVars, histVars>>

\* The timeout around it all: the inner future is dropped where it waits, and
\* with it the senders it had taken, if it had come that far.
ExecuteTimeout ==
  /\ phase \in {"claimed", "taken", "waiting", "answering"}
  /\ phase' = "err"
  /\ answer' = [c \in Commands |-> IF c \in Range(taken) THEN Failure("closed")
                                                         ELSE answer[c]]
  /\ UNCHANGED <<pc, idx, batchVars, discard, taken, execReply, synced, responses,
                 target, redisVars, histVars>>

-----------------------------------------------------------------------------
(* Another user of the pool sends a command.                                 *)

ForeignCommand(f) ==
  /\ pc[f] = "new"
  /\ pc' = [pc EXCEPT ![f] = "returned"]
  /\ LET k == Conn(NodeOf[f])
     IN  /\ Receive(k, f)
         /\ strays' = IF txn[k].open THEN strays \cup {f} ELSE strays
  /\ PoolNext
  /\ UNCHANGED <<idx, answer, batchVars, execVars, timeouts, losses, used, lost, unheard>>

-----------------------------------------------------------------------------
Call(c) == Lock(c) \/ SendMulti(c) \/ SendCommand(c) \/ SendCommandFails(c)
Executor == ExecuteTake \/ SendExec \/ SendWait \/ Distribute

Next ==
  \/ \E c \in Callers : FetchIndex(c) \/ Call(c)
  \/ DiscardClaim \/ DiscardDrain
  \/ ExecuteClaim \/ Executor \/ ExecuteTimeout
  \/ \E f \in Foreign : ForeignCommand(f)
  \/ \E k \in Connections : Disconnect(k)

Spec == Init /\ [][Next]_vars

(* A runnable tokio task is polled and fred bounds the wait for a reply, so  *)
(* a call that has its index, and an execute_async or discard_async that has *)
(* won the batch, keep going.                                                *)
FairSpec ==
  /\ Spec
  /\ \A c \in Callers : WF_vars(Call(c))
  /\ WF_vars(Executor)
  /\ WF_vars(DiscardDrain)

-----------------------------------------------------------------------------
\* The state lock is held exactly by the call that is talking to Redis: every
\* error path of async0 gives it back, and no two calls talk at once.
LockHeld ==
  \A c \in Callers : (holder = c) <=> (pc[c] \in {"locked", "open"})

CallTypes ==
  /\ pc \in [Commands -> {"new", "indexed", "locked", "open", "queued", "returned"}]
  /\ idx \in [Commands -> Nat]
  /\ answer \in [Commands -> Answers]

BatchTypes ==
  /\ executed \in BOOLEAN
  /\ next_index \in Nat
  /\ slot \in Nodes \cup {NoNode}
  /\ entries \in Seq(Callers)
  /\ holder \in Callers \cup {Nobody}

ExecTypes ==
  /\ phase \in {"idle", "refused", "claimed", "taken", "waiting", "answering",
                "ok", "err"}
  /\ discard \in {"idle", "refused", "claimed", "ok"}
  /\ taken \in Seq(Callers)
  /\ execReply \in Replies
  /\ synced \in 0 .. SyncSlaves
  /\ target \in Nodes \cup {NoNode}

RedisTypes ==
  /\ turn \in Clients
  /\ txn \in [Connections -> [open : BOOLEAN, dirty : BOOLEAN, items : Seq(Values)]]
  /\ log \in Seq(Values)
  /\ timeouts \in 0 .. MaxTimeouts
  /\ losses \in 0 .. MaxLosses
  /\ {used, lost} \subseteq SUBSET Connections
  /\ strays \subseteq Commands
  /\ unheard \in BOOLEAN

\* Every variable keeps its type, and the lock is never lost.
TypeOK ==
  CallTypes /\ BatchTypes /\ ExecTypes /\ RedisTypes /\ LockHeld /\ responses \in Seq(Values)

\* No caller is orphaned: a queued call without an answer has its sender in
\* the entries or in a running execute_async.
NoOrphan ==
  \A c \in Callers :
    pc[c] = "queued" /\ answer[c] = NoAnswer =>
      \/ c \in Range(entries)
      \/ c \in Range(taken) /\ phase \in {"taken", "waiting", "answering"}

\* All that the batch sent so far went to one connection, which did not break.
Intact == (\A k, l \in used : k = l) /\ used \cap lost = {}

\* As long as a batch keeps to one connection, and Redis got nothing there beside
\* the commands whose callers wait: no caller is handed the reply of another
\* command, or a reply of a command that Redis did not run; the i-th sender matches
\* the i-th element of the array of EXEC.
ReplyIsOwn ==
  Intact /\ strays = {} =>
    \A c \in Callers :
      answer[c].val # Null => answer[c].val = c /\ c \in Range(log)

\* The comment in execute_redis_based_queue_inner: when EXEC is sent, all commands
\* are inside the MULTI; Redis has run none of those whose callers wait.
CommandsAwaitExec ==
  \A c \in Callers :
    c \in Range(entries) \/ (phase = "taken" /\ c \in Range(taken))
      => c \notin Range(log)

\* That is so as long as the batch keeps to one connection, whoever else uses it
\* and whatever comes late.
IntactAwaitsExec == Intact => CommandsAwaitExec

\* As long as the batch keeps to one connection: once EXEC was answered, or given
\* up, Redis has run all commands of the batch or none, and their callers are all
\* told Ok or all told that it failed.
TransactionAllOrNothing ==
  Intact /\ phase \in {"waiting", "answering", "ok"} =>
    \A c, d \in Range(taken) :
      /\ c \in Range(log) <=> d \in Range(log)
      /\ answer[c].tag = answer[d].tag

\* As long as the batch keeps to one connection: Redis has run a command whose
\* caller was told that it failed or was discarded only if the reply of that
\* command, or the one of EXEC, came too late.
FailedNeverRan ==
  Intact =>
    \A c \in Callers :
      answer[c].tag \in {"failed", "discarded"} /\ c \in Range(log)
        => c \in strays \/ unheard

\* Every call that reached the lock ends up queued or returned: nobody waits
\* for the lock for ever.
CallsGetThrough ==
  \A c \in Callers : (pc[c] = "indexed") ~> (pc[c] \in {"queued", "returned"})

\* Every sender that execute_async took is eventually answered or dropped.
TakenAnswered ==
  \A c \in Callers : (c \in Range(taken)) ~> (answer[c] # NoAnswer)
=============================================================================
