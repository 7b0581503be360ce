------------------------ MODULE InMemoryBatchProofs -------------------------
(***************************************************************************)
(* What holds of InMemoryBatch for every cluster, every set of commands    *)
(* and every option: the safety invariants that the runs check on small    *)
(* instances, from one inductive invariant, and the action property that   *)
(* the queue is drained once.  BatchRefinement builds on it;               *)
(* ResponsesAgree is left to TLC.                                          *)
(***************************************************************************)
EXTENDS InMemoryBatch, SequenceLemmas, FiniteSetTheorems, TLAPS

-----------------------------------------------------------------------------
(* The inductive invariant.                                                  *)

\* The phases in which execute_async has not taken the queue, and in which it
\* has spawned no task.
NotTaken  == {"idle", "refused", "claimed"}
NotJoined == NotTaken \cup {"resolving", "loading"}

\* executed is set by whoever passes the compare-exchange, alone.
OneCloser ==
  /\ ~executed => phase = "idle" /\ discard = "idle"
  /\ phase \in {"idle", "refused"} \/ discard \in {"idle", "refused"}

\* Until then nothing was grouped, sent or answered, except by a discard.
Untouched ==
  phase \in NotTaken =>
    /\ pending = <<>> /\ log = <<>>
    /\ \A n \in Nodes : nodeMap[n] = <<>>
    /\ \A c \in Commands :
         IF discard = "ok" THEN answer[c].tag \in {"none", "discarded"}
                           ELSE answer[c] = NoAnswer

\* Until the join loop no task exists.
NotSpawned ==
  phase \in NotJoined => \A n \in Nodes : task[n] = "none" /\ target[n] = "none"

\* The replies to the pipeline of n without that of the WAIT.
Replied(n) == Len(nodeMap[n]) + (IF Atomic THEN 2 ELSE 0)

\* A plain pipeline, or a cluster in which no slot has moved yet.
Settled == ~Atomic \/ changes = 0

\* Until a slot moves, what was grouped for a node goes there.
Homed ==
  changes = 0 =>
    \A n \in Nodes : \A i \in 1 .. Len(nodeMap[n]) : Destination(nodeMap[n][i]) = n

\* The i-th reply, or, if no slot has moved, the i-th element of the EXEC array,
\* answers the i-th command of the node and comes of running it.
AlignedAt(n) ==
  /\ Len(reply[n]) = Replied(n) + (IF SyncSlaves > 0 THEN 1 ELSE 0)
  /\ ~Atomic => \A i \in 1 .. Len(nodeMap[n]) :
       reply[n][i].tag = "value" =>
         reply[n][i].val = nodeMap[n][i] /\ nodeMap[n][i] \in Range(log)
  /\ Atomic /\ changes = 0 =>
       LET r == reply[n][Replied(n)]
       IN  r.tag = "array" =>
             \A i \in 1 .. Len(nodeMap[n]) :
               i <= Len(r.items) /\ r.items[i] # Null =>
                 r.items[i] = nodeMap[n][i] /\ nodeMap[n][i] \in Range(log)

Aligned == \A n \in Nodes : task[n] = "replied" => AlignedAt(n)

\* The strengthening: ReplyIsOwn needs Aligned, and NoOrphan needs to know that
\* no task runs while commands are grouped.
IInv ==
  /\ TypeOK /\ OneCloser /\ Untouched /\ NotSpawned /\ Homed /\ Aligned
  /\ NoOrphan /\ (Settled => ReplyIsOwn)

-----------------------------------------------------------------------------
(* Lemmas about the replies of Redis and what the task of a node makes of    *)
(* them.                                                                     *)

\* A pipeline ends with one reply more when it carries a WAIT.
LEMMA WaitReplyType ==
  ASSUME NEW w \in WaitReplies
  PROVE  /\ w \in Seq(Replies)
         /\ Len(w) = IF SyncSlaves > 0 THEN 1 ELSE 0
<1>1. SyncSlaves \in Nat
  BY ConfigAssumption
<1>2. CASE SyncSlaves = 0
  BY <1>1, <1>2 DEF WaitReplies
<1>3. CASE SyncSlaves # 0
  <2>1. PICK r \in Replies : w = <<r>>
    BY <1>1, <1>3 DEF WaitReplies, Replies, ErrorReply, AcksReply, IntegerReply
  <2> QED
    BY <2>1, <1>1, <1>3
<1> QED
  BY <1>2, <1>3

\* Taking the reply of the WAIT off leaves the others in place.
LEMMA PopWaitFacts ==
  ASSUME NEW results \in Seq(Replies), NEW k \in Nat,
         Len(results) = k + (IF SyncSlaves > 0 THEN 1 ELSE 0)
  PROVE  /\ PopWait(results) \in Seq(Replies)
         /\ Len(PopWait(results)) = k
         /\ \A i \in 1 .. k : PopWait(results)[i] = results[i] /\ results[i] \in Replies
         /\ k > 0 => SE!Last(PopWait(results)) = results[k]
         /\ SyncSlaves > 0 => SE!Last(results) \in Replies
<1>1. SyncSlaves \in Nat
  BY ConfigAssumption
<1>2. CASE SyncSlaves = 0
  BY <1>1, <1>2 DEF PopWait, SE!Last
<1>3. CASE SyncSlaves # 0
  <2>1. Len(results) = k + 1
    BY <1>1, <1>3
  <2>2. PopWait(results) = SubSeq(results, 1, k)
    BY <1>1, <1>3, <2>1 DEF PopWait, SE!Front
  <2>3. /\ SubSeq(results, 1, k) \in Seq(Replies)
        /\ Len(SubSeq(results, 1, k)) = k
        /\ \A i \in 1 .. k : SubSeq(results, 1, k)[i] = results[i]
    BY <2>1
  <2>4. SE!Last(results) = results[k + 1] /\ results[k + 1] \in Replies
    BY <2>1 DEF SE!Last
  <2> QED
    BY <2>1, <2>2, <2>3, <2>4 DEF SE!Last
<1> QED
  BY <1>1, <1>2, <1>3

\* The acknowledgements read from any reply are a number.
LEMMA SyncedType ==
  ASSUME NEW r \in Replies
  PROVE  extract_synced_slaves(r) \in Nat
BY DEF extract_synced_slaves, Replies

\* A reply of a plain pipeline becomes a value.
LEMMA UnwrapType ==
  ASSUME NEW r \in Replies
  PROVE  unwrap_or_null(r) \in Values
BY DEF unwrap_or_null, Replies, Values

\* Every sender of a transaction is given an answer.
LEMMA ExecAnswerType ==
  ASSUME NEW r \in Replies, NEW i \in Nat \ {0}
  PROVE  ExecAnswer(r, i) \in Answers /\ ExecAnswer(r, i).tag # "none"
<1>1. CASE r.tag = "array"
  <2>1. r.items \in Seq(Values)
    BY <1>1 DEF Replies
  <2>2. i <= Len(r.items) => r.items[i] \in Values
    BY <2>1
  <2> QED
    BY <1>1, <2>2 DEF ExecAnswer, Answers, Ok, Failure, Values
<1>2. CASE r.tag # "array"
  BY <1>2 DEF ExecAnswer, Answers, Failure, Values
<1> QED
  BY <1>1, <1>2

\* The replies of an EXEC pair with indexes.
LEMMA CollectType ==
  ASSUME NEW r \in Replies, NEW indexes \in Seq(Nat)
  PROVE  collect_exec_indexed(r, indexes) \in Seq(Indexed)
<1>1. CASE r.tag = "array"
  <2>1. r.items \in Seq(Values)
    BY <1>1 DEF Replies
  <2> DEFINE m == IF Len(indexes) <= Len(r.items) THEN Len(indexes) ELSE Len(r.items)
  <2>2. /\ m \in Nat
        /\ \A i \in 1 .. m : indexes[i] \in Nat /\ r.items[i] \in Values
    BY <2>1
  <2>3. \A i \in 1 .. m : [index |-> indexes[i], val |-> r.items[i]] \in Indexed
    BY <2>2 DEF Indexed
  <2>4. collect_exec_indexed(r, indexes)
          = [i \in 1 .. m |-> [index |-> indexes[i], val |-> r.items[i]]]
    BY <1>1 DEF collect_exec_indexed
  <2> QED
    BY <2>2, <2>3, <2>4
<1>2. CASE r.tag # "array"
  BY <1>2 DEF collect_exec_indexed
<1> QED
  BY <1>1, <1>2

-----------------------------------------------------------------------------
\* Dropping senders leaves answers that channels can hold.
LEMMA CloseType ==
  ASSUME TypeOK, NEW S
  PROVE  Close(S) \in [Commands -> Answers]
BY DEF TypeOK, CallTypes, Close, Failure, Answers, Values

\* What Redis appends to the log stands beside the commands of the pipeline.
LEMMA OutcomeFacts ==
  ASSUME ExecTypes, RedisTypes, NEW n \in Nodes, NEW ran
  PROVE  LET o == Outcome(n, ran)
         IN  /\ o \in Seq(Values)
             /\ Len(nodeMap[n]) \in Nat
             /\ Len(o) = Len(nodeMap[n])
             /\ \A i \in 1 .. Len(nodeMap[n]) :
                  /\ nodeMap[n][i] \in Commands
                  /\ nodeMap[n][i] \in ran => o[i] = nodeMap[n][i]
                  /\ o[i] # Null => o[i] = nodeMap[n][i]
                  /\ o[i] # Null => o[i] \in Range(log \o o)
             /\ log \o o \in Seq(Values)
             /\ Range(log) \subseteq Range(log \o o)
<1> DEFINE o == Outcome(n, ran)
<1>1. nodeMap[n] \in Seq(Commands)
  BY DEF ExecTypes
<1>2. Len(nodeMap[n]) \in Nat /\ \A i \in 1 .. Len(nodeMap[n]) : nodeMap[n][i] \in Commands
  BY <1>1
<1>3. /\ o \in Seq(Values)
      /\ Len(o) = Len(nodeMap[n])
      /\ DOMAIN o = 1 .. Len(nodeMap[n])
      /\ \A i \in 1 .. Len(nodeMap[n]) :
           o[i] = IF nodeMap[n][i] \in ran THEN nodeMap[n][i] ELSE Null
  BY <1>2 DEF Outcome, Values
<1>4. log \in Seq(Values)
  BY DEF RedisTypes
<1>5. /\ log \o o \in Seq(Values)
      /\ Range(log) \subseteq Range(log \o o)
      /\ Range(o) \subseteq Range(log \o o)
  BY <1>3, <1>4, RangeOfConcat
<1>6. \A i \in 1 .. Len(nodeMap[n]) : o[i] \in Range(o)
  BY <1>3 DEF Range
<1> HIDE DEF o
<1> QED
  BY <1>2, <1>3, <1>5, <1>6 DEF o

\* EXEC answers with the items of the transaction or without any.
LEMMA ExecReplyFacts ==
  ASSUME NEW n \in Nodes, NEW items \in Seq(Values), NEW r \in ExecReplies(n, items)
  PROVE  r \in Replies /\ (r.tag = "array" => r.items = items)
<1>1. r = ArrayReply(items) \/ r = NilReply \/ r = ErrorReply
  BY DEF ExecReplies
<1> QED
  BY <1>1 DEF ArrayReply, NilReply, ErrorReply, Replies

\* The reply of EXEC comes right after those of MULTI and the commands.
LEMMA TransactionReply ==
  ASSUME ExecTypes, TaskTypes, NEW n \in Nodes, NEW r \in Replies, NEW w \in WaitReplies,
         reply' = [reply EXCEPT ![n] = Statuses(Len(nodeMap[n]) + 1) \o <<r>> \o w]
  PROVE  /\ reply' \in [Nodes -> Seq(Replies)]
         /\ \A m \in Nodes \ {n} : reply'[m] = reply[m]
         /\ Len(reply'[n]) = Len(nodeMap[n]) + 2 + (IF SyncSlaves > 0 THEN 1 ELSE 0)
         /\ reply'[n][Len(nodeMap[n]) + 2] = r
<1> DEFINE l     == Len(nodeMap[n])
           front == Statuses(l + 1) \o <<r>>
<1>1. l \in Nat /\ reply \in [Nodes -> Seq(Replies)]
  BY DEF ExecTypes, TaskTypes
<1> HIDE DEF l
<1>2. w \in Seq(Replies) /\ Len(w) = IF SyncSlaves > 0 THEN 1 ELSE 0
  BY WaitReplyType
<1>3. Statuses(l + 1) \in Seq(Replies) /\ Len(Statuses(l + 1)) = l + 1
  BY <1>1 DEF Statuses, StatusReply, Replies
<1>4. front \in Seq(Replies) /\ Len(front) = l + 2 /\ front[l + 2] = r
  <2>1. <<r>> \in Seq(Replies) /\ Len(<<r>>) = 1 /\ <<r>>[1] = r
    OBVIOUS
  <2> QED
    BY <1>1, <1>3, <2>1
<1>5. reply' = [reply EXCEPT ![n] = front \o w]
  BY DEF l
<1> HIDE DEF front
<1>6. /\ front \o w \in Seq(Replies)
      /\ Len(front \o w) = Len(front) + Len(w)
      /\ \A i \in 1 .. Len(front) : (front \o w)[i] = front[i]
  BY <1>2, <1>4, ConcatFacts
<1>7. l + 2 \in 1 .. Len(front)
  BY <1>1, <1>4
<1>8. reply'[n] = front \o w
  BY <1>1, <1>5
<1>9. Len(reply'[n]) = l + 2 + (IF SyncSlaves > 0 THEN 1 ELSE 0) /\ reply'[n][l + 2] = r
  BY <1>2, <1>4, <1>6, <1>7, <1>8
<1> QED
  BY <1>1, <1>5, <1>6, <1>9 DEF l

\* The replies to a pipeline that ran are aligned with its commands.
LEMMA RedisRunFacts ==
  ASSUME ExecTypes, TaskTypes, RedisTypes, Homed, NEW n \in Nodes, RedisRun(n)
  PROVE  /\ reply' \in [Nodes -> Seq(Replies)]
         /\ \A m \in Nodes \ {n} : reply'[m] = reply[m]
         /\ log' \in Seq(Values) /\ Range(log) \subseteq Range(log')
         /\ AlignedAt(n)'
<1> DEFINE cmds == nodeMap[n]
<1>1. nodeMap' = nodeMap /\ Len(cmds) \in Nat /\ reply \in [Nodes -> Seq(Replies)]
  BY DEF RedisRun, ExecTypes, execVars, TaskTypes
<1>2. ASSUME ~Atomic PROVE RedisPipeline(n)
  BY <1>2 DEF RedisRun
<1>3. ASSUME Atomic
      PROVE  \/ ~Split(n) /\ RedisTransaction(n)
             \/ Split(n) /\ RedisSplit(n)
  BY <1>3 DEF RedisRun
<1>4. ASSUME ~Atomic
      PROVE  /\ reply' \in [Nodes -> Seq(Replies)]
             /\ \A m \in Nodes \ {n} : reply'[m] = reply[m]
             /\ log' \in Seq(Values) /\ Range(log) \subseteq Range(log')
             /\ AlignedAt(n)'
  <2>1. PICK ran \in SUBSET {c \in Range(cmds) : Runnable(c)}, w \in WaitReplies :
          /\ log' = log \o Outcome(n, ran)
          /\ reply' = [reply EXCEPT ![n] =
               [i \in 1 .. Len(cmds) |->
                  IF cmds[i] \in ran THEN ValueReply(cmds[i]) ELSE ErrorReply] \o w]
    BY <1>2, <1>4 DEF RedisPipeline
  <2> DEFINE items == [i \in 1 .. Len(cmds) |->
                         IF cmds[i] \in ran THEN ValueReply(cmds[i]) ELSE ErrorReply]
  <2>2. w \in Seq(Replies) /\ Len(w) = IF SyncSlaves > 0 THEN 1 ELSE 0
    BY WaitReplyType
  <2>3. \A i \in 1 .. Len(cmds) : cmds[i] \in Commands
    BY OutcomeFacts
  <2>4. /\ items \in Seq(Replies) /\ Len(items) = Len(cmds)
        /\ \A i \in 1 .. Len(cmds) :
             items[i] = IF cmds[i] \in ran THEN ValueReply(cmds[i]) ELSE ErrorReply
    BY <1>1, <2>3 DEF Replies, ValueReply, ErrorReply
  <2>5. /\ items \o w \in Seq(Replies)
        /\ Len(items \o w) = Len(cmds) + (IF SyncSlaves > 0 THEN 1 ELSE 0)
        /\ \A i \in 1 .. Len(cmds) : (items \o w)[i] = items[i]
    <3> HIDE DEF items, cmds
    <3>1. /\ items \o w \in Seq(Replies)
          /\ Len(items \o w) = Len(items) + Len(w)
          /\ \A i \in 1 .. Len(items) : (items \o w)[i] = items[i]
      BY <2>2, <2>4, ConcatFacts
    <3> QED
      BY <2>2, <2>4, <3>1
  <2>6. reply'[n] = items \o w
    BY <2>1, <1>1
  <2>7. \A i \in 1 .. Len(cmds) :
          reply'[n][i].tag = "value" =>
            reply'[n][i].val = cmds[i] /\ cmds[i] \in Range(log')
    <3> SUFFICES ASSUME NEW i \in 1 .. Len(cmds), reply'[n][i].tag = "value"
                 PROVE  reply'[n][i].val = cmds[i] /\ cmds[i] \in Range(log')
      OBVIOUS
    <3>1. reply'[n][i] = items[i]
      BY <2>5, <2>6
    <3>2. cmds[i] \in ran /\ items[i] = ValueReply(cmds[i])
      BY <2>4, <3>1 DEF ErrorReply
    <3>3. Outcome(n, ran)[i] = cmds[i] /\ cmds[i] # Null
      BY <3>2, <2>3, NullAssumption, OutcomeFacts
    <3>4. cmds[i] \in Range(log')
      BY <3>3, <2>1, OutcomeFacts
    <3> QED
      BY <3>1, <3>2, <3>4 DEF ValueReply
  <2>8. log' \in Seq(Values) /\ Range(log) \subseteq Range(log')
    BY <2>1, OutcomeFacts
  <2>9. Len(reply'[n]) = Len(cmds) + (IF SyncSlaves > 0 THEN 1 ELSE 0)
    BY <2>5, <2>6
  <2> HIDE DEF items
  <2>10. AlignedAt(n)'
    BY <1>1, <1>4, <2>7, <2>9 DEF AlignedAt, Replied
  <2>11. reply' = [reply EXCEPT ![n] = items \o w]
    BY <2>1 DEF items
  <2> QED
    BY <1>1, <2>5, <2>8, <2>10, <2>11
<1>8. Split(n) => changes' # 0
  <2>1. changes' = changes
    BY DEF RedisRun
  <2>2. ASSUME Split(n), changes = 0 PROVE FALSE
    <3>1. PICK i \in DOMAIN cmds : Destination(cmds[i]) # Home(n)
      BY <2>2 DEF Split, Range
    <3>2. DOMAIN cmds = 1 .. Len(cmds) /\ Len(cmds) # 0 /\ Head(cmds) = cmds[1]
      BY <1>1, <3>1 DEF ExecTypes
    <3> QED
      BY <1>1, <2>2, <3>1, <3>2 DEF Homed, Home
  <2> QED
    BY <2>1, <2>2
<1>5. \A ran : Outcome(n, ran) \in Seq(Values) /\ Len(Outcome(n, ran)) = Len(cmds)
  BY OutcomeFacts
<1>6. ASSUME Atomic, ~Split(n)
      PROVE  /\ reply' \in [Nodes -> Seq(Replies)]
             /\ \A m \in Nodes \ {n} : reply'[m] = reply[m]
             /\ log' \in Seq(Values) /\ Range(log) \subseteq Range(log')
             /\ AlignedAt(n)'
  <2> DEFINE all == {c \in Range(cmds) : Runnable(c)}
  <2>1. PICK r \in ExecReplies(n, Outcome(n, all)), w \in WaitReplies :
          /\ log' = log \o Outcome(n, IF r.tag = "array" THEN all ELSE {})
          /\ reply' = [reply EXCEPT ![n] = Statuses(Len(cmds) + 1) \o <<r>> \o w]
    BY <1>3, <1>6 DEF RedisTransaction
  <2> HIDE DEF all
  <2>2. r \in Replies /\ (r.tag = "array" => r.items = Outcome(n, all))
    BY <1>5, ExecReplyFacts
  <2>3. /\ reply' \in [Nodes -> Seq(Replies)]
        /\ \A m \in Nodes \ {n} : reply'[m] = reply[m]
        /\ Len(reply'[n]) = Len(cmds) + 2 + (IF SyncSlaves > 0 THEN 1 ELSE 0)
        /\ reply'[n][Len(cmds) + 2] = r
    BY <2>1, <2>2, TransactionReply
  <2>4. ASSUME r.tag = "array", NEW i \in 1 .. Len(cmds),
               i <= Len(r.items), r.items[i] # Null
        PROVE  r.items[i] = cmds[i] /\ cmds[i] \in Range(log')
    BY <2>1, <2>2, <2>4, OutcomeFacts
  <2>5. log' \in Seq(Values) /\ Range(log) \subseteq Range(log')
    BY <2>1, OutcomeFacts
  <2>6. AlignedAt(n)'
    BY <1>1, <1>6, <2>3, <2>4 DEF AlignedAt, Replied
  <2> QED
    BY <2>3, <2>5, <2>6
<1>7. ASSUME Atomic, Split(n)
      PROVE  /\ reply' \in [Nodes -> Seq(Replies)]
             /\ \A m \in Nodes \ {n} : reply'[m] = reply[m]
             /\ log' \in Seq(Values) /\ Range(log) \subseteq Range(log')
             /\ AlignedAt(n)'
  <2> DEFINE all  == {c \in Range(cmds) : Runnable(c)}
             here == {i \in DOMAIN cmds : Destination(cmds[i]) = Home(n)}
  <2>1. PICK at \in [1 .. Cardinality(here) -> here] :
          \E r \in ExecReplies(n, [i \in 1 .. Cardinality(here) |-> Outcome(n, all)[at[i]]]),
             w \in WaitReplies :
            /\ \E ran : log' = log \o Outcome(n, ran)
            /\ reply' = [reply EXCEPT ![n] = Statuses(Len(cmds) + 1) \o <<r>> \o w]
    BY <1>3, <1>7 DEF RedisSplit
  <2>2. DOMAIN cmds = 1 .. Len(cmds) /\ here \subseteq 1 .. Len(cmds)
    BY DEF ExecTypes
  <2> DEFINE k     == Cardinality(here)
             items == [i \in 1 .. k |-> Outcome(n, all)[at[i]]]
  <2> HIDE DEF here
  <2>3. k \in Nat
    <3>1. IsFiniteSet(1 .. Len(cmds))
      BY <1>1, FS_Interval
    <3>2. IsFiniteSet(here)
      BY <2>2, <3>1, FS_Subset
    <3> QED
      BY <3>2, FS_CardinalityType
  <2>4. \A i \in 1 .. k : Outcome(n, all)[at[i]] \in Values
    <3> SUFFICES ASSUME NEW i \in 1 .. k PROVE Outcome(n, all)[at[i]] \in Values
      OBVIOUS
    <3>1. at[i] \in 1 .. Len(cmds)
      BY <2>1, <2>2
    <3>2. \A j \in 1 .. Len(cmds) : Outcome(n, all)[j] \in Values
      BY <1>5
    <3> QED
      BY <3>1, <3>2
  <2> HIDE DEF k, all
  <2>5. items \in Seq(Values)
    BY <2>3, <2>4 DEF k
  <2> HIDE DEF items
  <2>6. PICK r \in ExecReplies(n, items), w \in WaitReplies :
          /\ \E ran : log' = log \o Outcome(n, ran)
          /\ reply' = [reply EXCEPT ![n] = Statuses(Len(cmds) + 1) \o <<r>> \o w]
    BY <2>1 DEF items, k
  <2>7. /\ reply' \in [Nodes -> Seq(Replies)]
        /\ \A m \in Nodes \ {n} : reply'[m] = reply[m]
        /\ Len(reply'[n]) = Len(cmds) + 2 + (IF SyncSlaves > 0 THEN 1 ELSE 0)
    BY <2>5, <2>6, ExecReplyFacts, TransactionReply
  <2>8. log' \in Seq(Values) /\ Range(log) \subseteq Range(log')
    BY <2>6, OutcomeFacts
  <2>9. AlignedAt(n)'
    BY <1>1, <1>7, <1>8, <2>7 DEF AlignedAt, Replied
  <2> QED
    BY <2>7, <2>8, <2>9
<1> QED
  BY <1>4, <1>6, <1>7

\* The errors of a lost connection are aligned with the commands.
LEMMA ConnectionLostFacts ==
  ASSUME ExecTypes, TaskTypes, RedisTypes, NEW n \in Nodes, ConnectionLost(n)
  PROVE  /\ reply' \in [Nodes -> Seq(Replies)]
         /\ \A m \in Nodes \ {n} : reply'[m] = reply[m]
         /\ log' \in Seq(Values) /\ Range(log) \subseteq Range(log')
         /\ AlignedAt(n)'
<1> DEFINE l == Len(nodeMap[n])
           k == l + (IF Atomic THEN 2 ELSE 0) + (IF SyncSlaves > 0 THEN 1 ELSE 0)
           lost == [i \in 1 .. k |-> ErrorReply]
<1>1. nodeMap' = nodeMap /\ Len(nodeMap[n]) \in Nat /\ reply \in [Nodes -> Seq(Replies)]
  BY DEF ConnectionLost, ExecTypes, execVars, TaskTypes
<1>2. k \in Nat /\ k >= l /\ (Atomic => k >= l + 2) /\ l \in Nat
  <2>1. l \in Nat
    BY <1>1
  <2> HIDE DEF l
  <2> QED
    BY <2>1
<1>3. reply' = [reply EXCEPT ![n] = lost]
  BY DEF ConnectionLost
<1>4. lost \in Seq(Replies) /\ Len(lost) = k /\ \A i \in 1 .. k : lost[i] = ErrorReply
  BY <1>2 DEF ErrorReply, Replies
<1>5. PICK ran : log' = log \o Outcome(n, ran)
  BY DEF ConnectionLost
<1>6. log' \in Seq(Values) /\ Range(log) \subseteq Range(log')
  BY <1>5, OutcomeFacts
<1> HIDE DEF lost, k
<1>7. reply'[n] = lost
  BY <1>1, <1>3
<1>8. \A i \in 1 .. k : reply'[n][i].tag = "error"
  BY <1>4, <1>7 DEF ErrorReply
<1>9. AlignedAt(n)'
  <2>1. \A i \in 1 .. Len(nodeMap[n]) : reply'[n][i].tag # "value"
    BY <1>2, <1>8
  <2>2. Atomic => reply'[n][Len(nodeMap[n]) + 2].tag # "array"
    <3>1. Atomic => l + 2 \in 1 .. k
      BY <1>2
    <3> QED
      BY <1>8, <3>1
  <2>3. Len(reply'[n]) = k
    BY <1>4, <1>7
  <2> QED
    BY <1>1, <2>1, <2>2, <2>3 DEF AlignedAt, Replied, k
<1> QED
  BY <1>1, <1>3, <1>4, <1>6, <1>9

\* What a task tells each of its callers, and what it returns to the join.
LEMMA TaskFinishFacts ==
  ASSUME CallTypes, ExecTypes, TaskTypes, Aligned, NEW n \in Nodes, TaskFinish(n)
  PROVE  /\ answer' \in [Commands -> Answers]
         /\ done' \in [Nodes -> [synced : Nat, indexed : Seq(Indexed)]]
         /\ \A c \in Commands : c \notin Range(nodeMap[n]) => answer'[c] = answer[c]
         /\ \A c \in Range(nodeMap[n]) :
              /\ answer'[c].tag # "none"
              /\ Settled /\ answer'[c].val # Null =>
                   answer'[c].val = c /\ c \in Range(log)
<1> DEFINE cmds    == nodeMap[n]
           results == PopWait(reply[n])
           indexes == [i \in DOMAIN cmds |-> idx[cmds[i]]]
           at(c)   == CHOOSE i \in DOMAIN cmds : cmds[i] = c
<1>1. /\ cmds \in Seq(Commands) /\ Len(cmds) \in Nat /\ DOMAIN cmds = 1 .. Len(cmds)
      /\ reply[n] \in Seq(Replies)
      /\ AlignedAt(n)
      /\ SyncSlaves \in Nat /\ Replied(n) \in Nat /\ Replied(n) >= Len(cmds)
      /\ Atomic => Replied(n) > 0
  BY ConfigAssumption DEF ExecTypes, TaskTypes, Aligned, TaskFinish, Replied
<1>2. /\ results \in Seq(Replies) /\ Len(results) = Replied(n)
      /\ \A i \in 1 .. Replied(n) : results[i] = reply[n][i] /\ reply[n][i] \in Replies
      /\ Replied(n) > 0 => SE!Last(results) = reply[n][Replied(n)]
      /\ SyncSlaves > 0 => SE!Last(reply[n]) \in Replies
  BY <1>1, PopWaitFacts DEF AlignedAt
<1>3. Atomic => SE!Last(results) \in Replies
  BY <1>1, <1>2
<1>4. indexes \in Seq(Nat) /\ Len(indexes) = Len(cmds)
  BY <1>1 DEF CallTypes
<1> HIDE DEF results, indexes
<1>5. ASSUME NEW i \in 1 .. Len(cmds)
      PROVE  /\ TaskAnswer(results, i) \in Answers
             /\ TaskAnswer(results, i).tag # "none"
             /\ Settled /\ TaskAnswer(results, i).val # Null =>
                  TaskAnswer(results, i).val = cmds[i] /\ cmds[i] \in Range(log)
  <2>1. CASE SkipResult
    BY <2>1 DEF TaskAnswer, Ok, Answers, Values
  <2>2. CASE ~SkipResult /\ Atomic
    <3>1. TaskAnswer(results, i) = ExecAnswer(SE!Last(results), i)
      BY <2>2 DEF TaskAnswer
    <3>2. TaskAnswer(results, i) \in Answers /\ TaskAnswer(results, i).tag # "none"
      BY <3>1, <1>3, <2>2, ExecAnswerType
    <3>3. ASSUME Settled, TaskAnswer(results, i).val # Null
          PROVE  TaskAnswer(results, i).val = cmds[i] /\ cmds[i] \in Range(log)
      <4> DEFINE r == reply[n][Replied(n)]
      <4>1. r = SE!Last(results)
        BY <1>1, <1>2, <2>2
      <4>2. /\ r.tag = "array" /\ i <= Len(r.items)
            /\ TaskAnswer(results, i).val = r.items[i]
        BY <3>1, <3>3, <4>1 DEF ExecAnswer, Ok, Failure
      <4>3. r.items[i] # Null
        BY <3>3, <4>2
      <4> QED
        BY <1>1, <2>2, <3>3, <4>2, <4>3 DEF AlignedAt, Settled
    <3> QED
      BY <3>2, <3>3
  <2>3. CASE ~SkipResult /\ ~Atomic
    <3>1. TaskAnswer(results, i) = Ok(unwrap_or_null(reply[n][i])) /\ reply[n][i] \in Replies
      BY <1>1, <1>2, <2>3 DEF TaskAnswer
    <3>2. TaskAnswer(results, i) \in Answers /\ TaskAnswer(results, i).tag # "none"
      BY <3>1, UnwrapType DEF Ok, Answers
    <3>3. ASSUME TaskAnswer(results, i).val # Null
          PROVE  TaskAnswer(results, i).val = cmds[i] /\ cmds[i] \in Range(log)
      <4>1. reply[n][i].tag = "value" /\ TaskAnswer(results, i).val = reply[n][i].val
        BY <3>1, <3>3 DEF unwrap_or_null, Ok
      <4> QED
        BY <1>1, <2>3, <4>1 DEF AlignedAt
    <3> QED
      BY <3>2, <3>3
  <2> QED
    BY <2>1, <2>2, <2>3
<1>6. \A c \in Range(cmds) : at(c) \in 1 .. Len(cmds) /\ cmds[at(c)] = c
  BY <1>1 DEF Range
<1>7. answer' = [c \in Commands |->
                   IF c \in Range(cmds) THEN TaskAnswer(results, at(c)) ELSE answer[c]]
  BY DEF TaskFinish, results
<1>8. Range(cmds) \subseteq Commands
  BY <1>1, RangeOfSeq
<1> HIDE DEF at
<1>9. answer' \in [Commands -> Answers]
  BY <1>5, <1>6, <1>7 DEF CallTypes
<1>10. \A c \in Range(cmds) :
         /\ answer'[c].tag # "none"
         /\ Settled /\ answer'[c].val # Null => answer'[c].val = c /\ c \in Range(log)
  BY <1>5, <1>6, <1>7, <1>8
<1>11. TaskIndexed(results, indexes) \in Seq(Indexed)
  <2>1. CASE SkipResult
    BY <2>1 DEF TaskIndexed
  <2>2. CASE ~SkipResult /\ Atomic
    BY <2>2, <1>3, <1>4, CollectType DEF TaskIndexed
  <2>3. CASE ~SkipResult /\ ~Atomic
    <3>1. TaskIndexed(results, indexes) =
            [i \in 1 .. Len(cmds) |->
               [index |-> indexes[i], val |-> unwrap_or_null(results[i])]]
      BY <2>3, <1>4 DEF TaskIndexed
    <3>2. ASSUME NEW i \in 1 .. Len(cmds)
          PROVE  [index |-> indexes[i], val |-> unwrap_or_null(results[i])] \in Indexed
      <4>1. results[i] \in Replies /\ indexes[i] \in Nat
        BY <1>1, <1>2, <1>4
      <4> QED
        BY <4>1, UnwrapType DEF Indexed
    <3> QED
      BY <3>1, <3>2, <1>1
  <2> QED
    BY <2>1, <2>2, <2>3
<1>12. done' \in [Nodes -> [synced : Nat, indexed : Seq(Indexed)]]
  <2> DEFINE s == IF SyncSlaves > 0 THEN extract_synced_slaves(SE!Last(reply[n])) ELSE 0
  <2>1. s \in Nat
    BY <1>2, SyncedType
  <2>2. done' = [done EXCEPT ![n] =
                   [synced |-> s, indexed |-> TaskIndexed(results, indexes)]]
    BY DEF TaskFinish, results, indexes
  <2> HIDE DEF s
  <2> QED
    BY <2>1, <2>2, <1>11 DEF TaskTypes
<1>13. \A c \in Commands : c \notin Range(cmds) => answer'[c] = answer[c]
  BY <1>7
<1> QED
  BY <1>9, <1>10, <1>12, <1>13

\* The commands of a node name scripts.
LEMMA ScriptsForType ==
  ASSUME ExecTypes, NEW n \in Nodes
  PROVE  ScriptsFor(n) \subseteq Scripts
<1>1. nodeMap[n] \in Seq(Commands)
  BY DEF ExecTypes
<1>2. ASSUME NEW c \in Range(nodeMap[n])
      PROVE  ScriptOf[c] \in Scripts \cup {NoScript}
  <2>1. c \in Commands
    BY <1>1, <1>2, RangeOfSeq
  <2> QED
    BY <2>1, ConfigAssumption
<1> QED
  BY <1>2 DEF ScriptsFor

\* Every action keeps the types.
LEMMA TypeStep ==
  ASSUME IInv, [Next]_vars
  PROVE  TypeOK'
<1>1. /\ CallTypes /\ BatchTypes /\ ExecTypes /\ TaskTypes /\ RedisTypes /\ Homed
      /\ \A S : Close(S) \in [Commands -> Answers]
  BY CloseType DEF IInv, TypeOK
<1>2. ASSUME NEW c \in Commands, FetchIndex(c) PROVE TypeOK'
  <2>1. ExecTypes' /\ TaskTypes' /\ RedisTypes'
    BY <1>1, <1>2 DEF ExecTypes, TaskTypes, RedisTypes, FetchIndex, execVars, taskVars, redisVars
  <2>2. CallTypes'
    BY <1>1, <1>2 DEF CallTypes, BatchTypes, FetchIndex
  <2>3. BatchTypes'
    BY <1>1, <1>2 DEF BatchTypes, FetchIndex
  <2> QED
    BY <2>1, <2>2, <2>3 DEF TypeOK
<1>3. ASSUME NEW c \in Commands, Enqueue(c) PROVE TypeOK'
  <2>1. ExecTypes' /\ TaskTypes' /\ RedisTypes'
    BY <1>1, <1>3 DEF ExecTypes, TaskTypes, RedisTypes, Enqueue, execVars, taskVars, redisVars
  <2>2. CallTypes'
    BY <1>1, <1>3 DEF CallTypes, Enqueue
  <2>3. BatchTypes'
    BY <1>1, <1>3 DEF BatchTypes, Enqueue
  <2> QED
    BY <2>1, <2>2, <2>3 DEF TypeOK
<1>4. ASSUME DiscardClaim PROVE TypeOK'
  <2>1. CallTypes' /\ TaskTypes' /\ RedisTypes'
    BY <1>1, <1>4 DEF CallTypes, TaskTypes, RedisTypes, DiscardClaim, callVars, taskVars, redisVars
  <2>2. BatchTypes'
    BY <1>1, <1>4 DEF BatchTypes, DiscardClaim
  <2>3. ExecTypes'
    BY <1>1, <1>4 DEF ExecTypes, DiscardClaim, Phases
  <2> QED
    BY <2>1, <2>2, <2>3 DEF TypeOK
<1>5. ASSUME DiscardDrain PROVE TypeOK'
  <2>1. TaskTypes' /\ RedisTypes'
    BY <1>1, <1>5 DEF TaskTypes, RedisTypes, DiscardDrain, taskVars, redisVars
  <2>2. CallTypes'
    BY <1>1, <1>5 DEF CallTypes, DiscardDrain, Failure, Answers, Values
  <2>3. BatchTypes'
    BY <1>1, <1>5 DEF BatchTypes, DiscardDrain
  <2>4. ExecTypes'
    BY <1>1, <1>5 DEF ExecTypes, DiscardDrain, Phases
  <2> QED
    BY <2>1, <2>2, <2>3, <2>4 DEF TypeOK
<1>6. ASSUME ExecuteClaim PROVE TypeOK'
  <2>1. CallTypes' /\ TaskTypes' /\ RedisTypes'
    BY <1>1, <1>6 DEF CallTypes, TaskTypes, RedisTypes, ExecuteClaim, callVars, taskVars, redisVars
  <2>2. BatchTypes'
    BY <1>1, <1>6 DEF BatchTypes, ExecuteClaim
  <2>3. ExecTypes'
    BY <1>1, <1>6 DEF ExecTypes, ExecuteClaim, Phases
  <2> QED
    BY <2>1, <2>2, <2>3 DEF TypeOK
<1>7. ASSUME ExecuteTake PROVE TypeOK'
  <2>1. CallTypes' /\ TaskTypes' /\ RedisTypes'
    BY <1>1, <1>7 DEF CallTypes, TaskTypes, RedisTypes, ExecuteTake, callVars, taskVars, redisVars
  <2>2. BatchTypes'
    BY <1>1, <1>7 DEF BatchTypes, ExecuteTake
  <2>3. ExecTypes'
    BY <1>1, <1>7 DEF ExecTypes, BatchTypes, ExecuteTake, Phases
  <2> QED
    BY <2>1, <2>2, <2>3 DEF TypeOK
<1>8. ASSUME ResolveHit PROVE TypeOK'
  <2>1. CallTypes' /\ BatchTypes' /\ TaskTypes' /\ RedisTypes'
    BY <1>1, <1>8 DEF CallTypes, BatchTypes, TaskTypes, RedisTypes, ResolveHit, callVars, batchVars, taskVars, redisVars
  <2>2. ExecTypes'
    <3>1. /\ pending # <<>> /\ pending \in Seq(Commands)
          /\ Head(pending) \in Commands /\ Tail(pending) \in Seq(Commands)
      BY <1>1, <1>8, RangeOfHeadTail DEF ExecTypes, ResolveHit
    <3>2. route[SlotOf[Head(pending)]] \in Nodes
      BY <1>1, <1>8, <3>1, ConfigAssumption DEF RedisTypes, ResolveHit
    <3>3. nodeMap' \in [Nodes -> Seq(Commands)]
      BY <1>1, <1>8, <3>1, <3>2 DEF ExecTypes, ResolveHit
    <3> QED
      BY <1>1, <1>8, <3>1, <3>3, ConfigAssumption DEF ExecTypes, ResolveHit
  <2> QED
    BY <2>1, <2>2 DEF TypeOK
<1>9. ASSUME ResolveMiss PROVE TypeOK'
  <2>1. BatchTypes' /\ TaskTypes' /\ RedisTypes'
    BY <1>1, <1>9 DEF BatchTypes, TaskTypes, RedisTypes, ResolveMiss, batchVars, taskVars, redisVars
  <2>2. CallTypes'
    BY <1>1, <1>9 DEF CallTypes, ResolveMiss
  <2>3. ExecTypes'
    BY <1>1, <1>9, ConfigAssumption DEF ExecTypes, ResolveMiss, Phases
  <2> QED
    BY <2>1, <2>2, <2>3 DEF TypeOK
<1>10. ASSUME ResolveDone PROVE TypeOK'
  <2>1. CallTypes' /\ BatchTypes' /\ TaskTypes' /\ RedisTypes'
    BY <1>1, <1>10 DEF CallTypes, BatchTypes, TaskTypes, RedisTypes, ResolveDone, callVars, batchVars, taskVars, redisVars
  <2>2. ExecTypes'
    BY <1>1, <1>10 DEF ExecTypes, ResolveDone, NodesUsed, Phases
  <2> QED
    BY <2>1, <2>2 DEF TypeOK
<1>11. ASSUME LoadDone PROVE TypeOK'
  <2>1. CallTypes' /\ BatchTypes' /\ TaskTypes'
    BY <1>1, <1>11 DEF CallTypes, BatchTypes, TaskTypes, LoadDone, callVars, batchVars, taskVars
  <2>2. ExecTypes'
    BY <1>1, <1>11 DEF ExecTypes, LoadDone, Phases
  <2>3. RedisTypes'
    BY <1>1, <1>11 DEF RedisTypes, LoadDone
  <2> QED
    BY <2>1, <2>2, <2>3 DEF TypeOK
<1>12. ASSUME LoadFail PROVE TypeOK'
  <2>1. BatchTypes' /\ TaskTypes' /\ RedisTypes'
    BY <1>1, <1>12 DEF BatchTypes, TaskTypes, RedisTypes, LoadFail, batchVars, taskVars, redisVars
  <2>2. CallTypes'
    BY <1>1, <1>12 DEF CallTypes, LoadFail
  <2>3. ExecTypes'
    BY <1>1, <1>12 DEF ExecTypes, LoadFail, Phases
  <2> QED
    BY <2>1, <2>2, <2>3 DEF TypeOK
<1>13. ASSUME Spawn PROVE TypeOK'
  <2>1. CallTypes' /\ BatchTypes' /\ RedisTypes'
    BY <1>1, <1>13 DEF CallTypes, BatchTypes, RedisTypes, Spawn, callVars, batchVars, redisVars
  <2>2. ExecTypes'
    BY <1>1, <1>13 DEF ExecTypes, Spawn, Phases
  <2>3. TaskTypes'
    BY <1>1, <1>13 DEF TaskTypes, Spawn, TaskStates
  <2> QED
    BY <2>1, <2>2, <2>3 DEF TypeOK
<1>14. ASSUME Return PROVE TypeOK'
  <2>1. CallTypes' /\ BatchTypes' /\ TaskTypes' /\ RedisTypes'
    BY <1>1, <1>14 DEF CallTypes, BatchTypes, TaskTypes, RedisTypes, Return, callVars, batchVars, taskVars, redisVars
  <2>2. ExecTypes'
    BY <1>1, <1>14 DEF ExecTypes, Return, Phases
  <2> QED
    BY <2>1, <2>2 DEF TypeOK
<1>15. ASSUME NEW n \in Nodes, LoadSkip(n) PROVE TypeOK'
  <2>1. CallTypes' /\ BatchTypes' /\ TaskTypes' /\ RedisTypes'
    BY <1>1, <1>15 DEF CallTypes, BatchTypes, TaskTypes, RedisTypes, LoadSkip, callVars, batchVars, taskVars, redisVars
  <2>2. ExecTypes'
    BY <1>1, <1>15 DEF ExecTypes, LoadSkip, Phases
  <2> QED
    BY <2>1, <2>2 DEF TypeOK
<1>16. ASSUME NEW n \in Nodes, LoadSend(n) PROVE TypeOK'
  <2>1. CallTypes' /\ BatchTypes' /\ TaskTypes'
    BY <1>1, <1>16 DEF CallTypes, BatchTypes, TaskTypes, LoadSend, callVars, batchVars, taskVars
  <2>2. ExecTypes'
    <3>1. ScriptsFor(n) \subseteq Scripts
      BY <1>1, <1>16, ScriptsForType
    <3> QED
      BY <1>1, <1>16, <3>1 DEF ExecTypes, LoadSend, Phases
  <2>3. RedisTypes'
    <3>1. ScriptsFor(n) \subseteq Scripts
      BY <1>1, <1>16, ScriptsForType
    <3>2. loaded' \in [Nodes -> SUBSET Scripts]
      BY <1>1, <1>16, <3>1 DEF RedisTypes, LoadSend
    <3> QED
      BY <1>1, <1>16, <3>2 DEF RedisTypes, LoadSend
  <2> QED
    BY <2>1, <2>2, <2>3 DEF TypeOK
<1>17. ASSUME NEW n \in Nodes, Join(n) PROVE TypeOK'
  <2>1. CallTypes' /\ BatchTypes' /\ RedisTypes'
    BY <1>1, <1>17 DEF CallTypes, BatchTypes, RedisTypes, Join, callVars, batchVars, redisVars
  <2>2. ExecTypes'
    <3>1. done[n].synced \in Nat /\ done[n].indexed \in Seq(Indexed)
      BY <1>1, <1>17 DEF TaskTypes
    <3>2. allIndexed' \in Seq(Indexed) /\ synced' \in Nat
      BY <1>1, <1>17, <3>1 DEF ExecTypes, Join
    <3> QED
      BY <1>1, <1>17, <3>2 DEF ExecTypes, Join, Phases
  <2>3. TaskTypes'
    <3>1. NoOutput \in [synced : Nat, indexed : Seq(Indexed)]
      BY DEF NoOutput
    <3> QED
      BY <1>1, <1>17, <3>1 DEF TaskTypes, Join, TaskStates
  <2> QED
    BY <2>1, <2>2, <2>3 DEF TypeOK
<1>18. ASSUME NEW n \in Nodes, JoinFail(n) PROVE TypeOK'
  <2>1. CallTypes' /\ BatchTypes' /\ TaskTypes' /\ RedisTypes'
    BY <1>1, <1>18 DEF CallTypes, BatchTypes, TaskTypes, RedisTypes, JoinFail, callVars, batchVars, taskVars, redisVars
  <2>2. ExecTypes'
    BY <1>1, <1>18 DEF ExecTypes, JoinFail, Phases
  <2> QED
    BY <2>1, <2>2 DEF TypeOK
<1>19. ASSUME NEW n \in Nodes, TaskSend(n) PROVE TypeOK'
  <2>1. CallTypes' /\ BatchTypes' /\ ExecTypes' /\ RedisTypes'
    BY <1>1, <1>19 DEF CallTypes, BatchTypes, ExecTypes, RedisTypes, TaskSend, callVars, batchVars, execVars, redisVars
  <2>2. TaskTypes'
    BY <1>1, <1>19 DEF TaskTypes, TaskSend, TaskStates
  <2> QED
    BY <2>1, <2>2 DEF TypeOK
<1>20. ASSUME NEW n \in Nodes, TaskBuildFail(n) PROVE TypeOK'
  <2>1. BatchTypes' /\ ExecTypes' /\ RedisTypes'
    BY <1>1, <1>20 DEF BatchTypes, ExecTypes, RedisTypes, TaskBuildFail, batchVars, execVars, redisVars
  <2>2. CallTypes'
    BY <1>1, <1>20 DEF CallTypes, TaskBuildFail
  <2>3. TaskTypes'
    BY <1>1, <1>20 DEF TaskTypes, TaskBuildFail, TaskStates
  <2> QED
    BY <2>1, <2>2, <2>3 DEF TypeOK
<1>21. ASSUME NEW n \in Nodes, RedisRun(n) PROVE TypeOK'
  <2>1. CallTypes' /\ BatchTypes' /\ ExecTypes'
    BY <1>1, <1>21 DEF CallTypes, BatchTypes, ExecTypes, RedisRun, callVars, batchVars, execVars
  <2>2. TaskTypes'
    <3>1. reply' \in [Nodes -> Seq(Replies)]
      BY <1>1, <1>21, RedisRunFacts
    <3> QED
      BY <1>1, <1>21, <3>1 DEF TaskTypes, RedisRun, TaskStates
  <2>3. RedisTypes'
    <3>1. log' \in Seq(Values)
      BY <1>1, <1>21, RedisRunFacts
    <3> QED
      BY <1>1, <1>21, <3>1 DEF RedisTypes, RedisRun
  <2> QED
    BY <2>1, <2>2, <2>3 DEF TypeOK
<1>22. ASSUME NEW n \in Nodes, ConnectionLost(n) PROVE TypeOK'
  <2>1. CallTypes' /\ BatchTypes' /\ ExecTypes'
    BY <1>1, <1>22 DEF CallTypes, BatchTypes, ExecTypes, ConnectionLost, callVars, batchVars, execVars
  <2>2. TaskTypes'
    <3>1. reply' \in [Nodes -> Seq(Replies)]
      BY <1>1, <1>22, ConnectionLostFacts
    <3> QED
      BY <1>1, <1>22, <3>1 DEF TaskTypes, ConnectionLost, TaskStates
  <2>3. RedisTypes'
    <3>1. log' \in Seq(Values)
      BY <1>1, <1>22, ConnectionLostFacts
    <3> QED
      BY <1>1, <1>22, <3>1 DEF RedisTypes, ConnectionLost
  <2> QED
    BY <2>1, <2>2, <2>3 DEF TypeOK
<1>23. ASSUME NEW n \in Nodes, TaskFinish(n) PROVE TypeOK'
  <2>1. BatchTypes' /\ ExecTypes' /\ RedisTypes'
    BY <1>1, <1>23 DEF BatchTypes, ExecTypes, RedisTypes, TaskFinish, batchVars, execVars, redisVars
  <2>2. CallTypes'
    <3>1. answer' \in [Commands -> Answers]
      BY <1>1, <1>23, TaskFinishFacts DEF IInv
    <3> QED
      BY <1>1, <1>23, <3>1 DEF CallTypes, TaskFinish
  <2>3. TaskTypes'
    <3>1. done' \in [Nodes -> [synced : Nat, indexed : Seq(Indexed)]]
      BY <1>1, <1>23, TaskFinishFacts DEF IInv
    <3>2. reply' \in [Nodes -> Seq(Replies)] /\ task' \in [Nodes -> TaskStates]
      BY <1>1, <1>23 DEF TaskTypes, TaskFinish, TaskStates
    <3> QED
      BY <1>1, <1>23, <3>1, <3>2 DEF TaskTypes, TaskFinish
  <2> QED
    BY <2>1, <2>2, <2>3 DEF TypeOK
<1>24. ASSUME NEW n \in Nodes, TaskAborted(n) PROVE TypeOK'
  <2>1. BatchTypes' /\ ExecTypes' /\ RedisTypes'
    BY <1>1, <1>24 DEF BatchTypes, ExecTypes, RedisTypes, TaskAborted, batchVars, execVars, redisVars
  <2>2. CallTypes'
    BY <1>1, <1>24 DEF CallTypes, TaskAborted
  <2>3. TaskTypes'
    BY <1>1, <1>24 DEF TaskTypes, TaskAborted, TaskStates
  <2> QED
    BY <2>1, <2>2, <2>3 DEF TypeOK
<1>25. ASSUME NEW s \in Slots, NEW n \in Nodes \cup {NoNode}, ClusterChange(s, n) PROVE TypeOK'
  <2>1. CallTypes' /\ BatchTypes' /\ ExecTypes' /\ TaskTypes'
    BY <1>1, <1>25 DEF CallTypes, BatchTypes, ExecTypes, TaskTypes, ClusterChange, callVars, batchVars, execVars, taskVars
  <2>2. RedisTypes'
    BY <1>1, <1>25, ConfigAssumption DEF RedisTypes, ClusterChange
  <2> QED
    BY <2>1, <2>2 DEF TypeOK
<1>26. ASSUME NEW n \in Nodes, Restart(n) PROVE TypeOK'
  <2>1. CallTypes' /\ BatchTypes' /\ ExecTypes' /\ TaskTypes'
    BY <1>1, <1>26 DEF CallTypes, BatchTypes, ExecTypes, TaskTypes, Restart, callVars, batchVars, execVars, taskVars
  <2>2. RedisTypes'
    BY <1>1, <1>26, ConfigAssumption DEF RedisTypes, Restart
  <2> QED
    BY <2>1, <2>2 DEF TypeOK
<1>27. ASSUME NEW e \in Nodes \cup {NoNode}, Listener(e) PROVE TypeOK'
  <2>1. CallTypes' /\ BatchTypes' /\ ExecTypes' /\ TaskTypes'
    BY <1>1, <1>27 DEF CallTypes, BatchTypes, ExecTypes, TaskTypes, Listener, callVars, batchVars, execVars, taskVars
  <2>2. RedisTypes'
    BY <1>1, <1>27 DEF RedisTypes, Listener
  <2> QED
    BY <2>1, <2>2 DEF TypeOK
<1>28. ASSUME UNCHANGED vars PROVE TypeOK'
  BY <1>1, <1>28 DEF TypeOK, CallTypes, BatchTypes, ExecTypes, TaskTypes, RedisTypes, vars, callVars, batchVars, execVars, taskVars, redisVars
<1> QED
  BY <1>2, <1>3, <1>4, <1>5, <1>6, <1>7, <1>8, <1>9, <1>10, <1>11, <1>12, <1>13, <1>14, <1>15, <1>16, <1>17, <1>18, <1>19, <1>20, <1>21, <1>22, <1>23, <1>24, <1>25, <1>26, <1>27, <1>28 DEF Next, Call, Executor, Task, Cluster

-----------------------------------------------------------------------------
(* The other conjuncts.  Most actions leave alone what they speak of.        *)

core == <<answer, executed, phase, discard, pending, nodeMap, task, target,
          reply, log>>

Calls == \E c \in Commands : FetchIndex(c) \/ Enqueue(c)

Steps ==
  \/ DiscardClaim \/ DiscardDrain \/ ExecuteClaim \/ ExecuteTake
  \/ ResolveHit \/ ResolveMiss \/ ResolveDone \/ LoadFail \/ Spawn \/ Return
  \/ \E n \in Nodes : Join(n) \/ JoinFail(n) \/ Task(n)

\* Calls, script loading, events of the cluster and stuttering leave the core
\* of the state alone, and all but the calls the queue and its callers too.
LEMMA Frame ==
  ASSUME [Next]_vars
  PROVE  \/ UNCHANGED <<pc, queue, core>>
         \/ Calls /\ UNCHANGED core
         \/ Steps
<1>1. ASSUME NEW c \in Commands, Call(c) PROVE Calls /\ UNCHANGED core
  BY <1>1 DEF Call, Calls, FetchIndex, Enqueue, core, execVars, taskVars, redisVars
<1>2. ASSUME LoadDone PROVE UNCHANGED <<pc, queue, core>>
  BY <1>2 DEF LoadDone, core, callVars, batchVars, taskVars
<1>3. ASSUME NEW n \in Nodes, LoadSkip(n) PROVE UNCHANGED <<pc, queue, core>>
  BY <1>3 DEF LoadSkip, core, callVars, batchVars, taskVars, redisVars
<1>4. ASSUME NEW n \in Nodes, LoadSend(n) PROVE UNCHANGED <<pc, queue, core>>
  BY <1>4 DEF LoadSend, core, callVars, batchVars, taskVars
<1>5. ASSUME Cluster PROVE UNCHANGED <<pc, queue, core>>
  BY <1>5 DEF Cluster, ClusterChange, Restart, Listener, core, callVars,
              batchVars, execVars, taskVars
<1>6. ASSUME UNCHANGED vars PROVE UNCHANGED <<pc, queue, core>>
  BY <1>6 DEF vars, core, callVars, batchVars, execVars, taskVars, redisVars
<1>7. ASSUME Executor
      PROVE  UNCHANGED <<pc, queue, core>> \/ Steps
  BY <1>2, <1>3, <1>4, <1>7 DEF Executor, Steps
<1> QED
  BY <1>1, <1>5, <1>6, <1>7 DEF Next, Steps

\* A step of a node's task needs the task, and leaves the batch alone.
LEMMA TaskFrame ==
  ASSUME NEW n \in Nodes, Task(n)
  PROVE  /\ task[n] \in {"spawned", "sent", "replied"}
         /\ UNCHANGED <<pc, queue, executed, phase, discard, pending, nodeMap>>
BY DEF Task, TaskSend, TaskBuildFail, RedisRun, ConnectionLost, TaskFinish,
       TaskAborted, callVars, batchVars, execVars

\* Only one of execute_async and discard_async passes the compare-exchange.
LEMMA OneCloserStep ==
  ASSUME IInv, [Next]_vars
  PROVE  OneCloser'
<1>1. OneCloser
  BY DEF IInv
<1>2. ASSUME UNCHANGED core PROVE OneCloser'
  BY <1>1, <1>2 DEF OneCloser, core
<1>3. ASSUME DiscardClaim PROVE OneCloser'
  BY <1>1, <1>3 DEF OneCloser, DiscardClaim
<1>4. ASSUME DiscardDrain PROVE OneCloser'
  BY <1>1, <1>4 DEF OneCloser, DiscardDrain
<1>5. ASSUME ExecuteClaim PROVE OneCloser'
  BY <1>1, <1>5 DEF OneCloser, ExecuteClaim
<1>6. ASSUME ExecuteTake PROVE OneCloser'
  BY <1>1, <1>6 DEF OneCloser, ExecuteTake
<1>7. ASSUME ResolveHit \/ ResolveMiss \/ ResolveDone PROVE OneCloser'
  BY <1>1, <1>7 DEF OneCloser, ResolveHit, ResolveMiss, ResolveDone, batchVars
<1>8. ASSUME LoadFail \/ Spawn \/ Return PROVE OneCloser'
  BY <1>1, <1>8 DEF OneCloser, LoadFail, Spawn, Return, batchVars
<1>9. ASSUME NEW n \in Nodes, Join(n) \/ JoinFail(n) PROVE OneCloser'
  BY <1>1, <1>9 DEF OneCloser, Join, JoinFail, batchVars
<1>10. ASSUME NEW n \in Nodes, Task(n) PROVE OneCloser'
  BY <1>1, <1>10, TaskFrame DEF OneCloser
<1> QED
  BY <1>2, <1>3, <1>4, <1>5, <1>6, <1>7, <1>8, <1>9, <1>10, Frame DEF Steps

\* Until execute_async has taken the queue nothing was sent or answered, but
\* for what discard_async answered.
LEMMA UntouchedStep ==
  ASSUME IInv, [Next]_vars
  PROVE  Untouched'
<1>1. Untouched /\ OneCloser /\ NotSpawned /\ CallTypes
  BY DEF IInv, TypeOK
<1>2. ASSUME UNCHANGED core PROVE Untouched'
  BY <1>1, <1>2 DEF Untouched, core
<1>3. ASSUME DiscardClaim PROVE Untouched'
  BY <1>1, <1>3 DEF Untouched, DiscardClaim, callVars, redisVars
<1>4. ASSUME DiscardDrain PROVE Untouched'
  <2>1. UNCHANGED <<phase, pending, log, nodeMap>> /\ discard' = "ok"
    BY <1>4 DEF DiscardDrain, redisVars
  <2>2. ASSUME phase \in NotTaken, NEW c \in Commands
        PROVE  answer'[c].tag \in {"none", "discarded"}
    BY <1>1, <1>4, <2>2 DEF Untouched, DiscardDrain, Failure, NoAnswer
  <2> QED
    BY <1>1, <2>1, <2>2 DEF Untouched
<1>5. ASSUME ExecuteClaim PROVE Untouched'
  BY <1>1, <1>5 DEF Untouched, NotTaken, ExecuteClaim, callVars, redisVars
<1>6. ASSUME \/ ExecuteTake \/ ResolveHit \/ ResolveMiss \/ ResolveDone
             \/ LoadFail \/ Spawn \/ Return
             \/ \E n \in Nodes : Join(n) \/ JoinFail(n)
      PROVE  Untouched'
  <2>1. phase' \notin NotTaken
    BY <1>6 DEF NotTaken, ExecuteTake, ResolveHit, ResolveMiss, ResolveDone,
                LoadFail, Spawn, Return, Join, JoinFail
  <2> QED
    BY <2>1 DEF Untouched
<1>7. ASSUME NEW n \in Nodes, Task(n) PROVE Untouched'
  <2>1. phase' \notin NotTaken
    BY <1>1, <1>7, TaskFrame DEF NotSpawned, NotJoined
  <2> QED
    BY <2>1 DEF Untouched
<1> QED
  BY <1>2, <1>3, <1>4, <1>5, <1>6, <1>7, Frame DEF Steps

\* Tasks exist only once scripts are loaded.
LEMMA NotSpawnedStep ==
  ASSUME IInv, [Next]_vars
  PROVE  NotSpawned'
<1>1. NotSpawned
  BY DEF IInv
<1>2. ASSUME UNCHANGED core PROVE NotSpawned'
  BY <1>1, <1>2 DEF NotSpawned, core
<1>3. ASSUME DiscardClaim \/ DiscardDrain PROVE NotSpawned'
  BY <1>1, <1>3 DEF NotSpawned, DiscardClaim, DiscardDrain, taskVars
<1>4. ASSUME ExecuteClaim \/ ExecuteTake PROVE NotSpawned'
  BY <1>1, <1>4 DEF NotSpawned, NotJoined, NotTaken, ExecuteClaim, ExecuteTake, taskVars
<1>5. ASSUME ResolveHit \/ ResolveMiss \/ ResolveDone PROVE NotSpawned'
  BY <1>1, <1>5 DEF NotSpawned, NotJoined, NotTaken, ResolveHit, ResolveMiss,
                    ResolveDone, taskVars
<1>6. ASSUME \/ LoadFail \/ Spawn \/ Return
             \/ \E n \in Nodes : Join(n) \/ JoinFail(n)
      PROVE  NotSpawned'
  <2>1. phase' \notin NotJoined
    BY <1>6 DEF NotJoined, NotTaken, LoadFail, Spawn, Return, Join, JoinFail
  <2> QED
    BY <2>1 DEF NotSpawned
<1>7. ASSUME NEW n \in Nodes, Task(n) PROVE NotSpawned'
  <2>1. phase' \notin NotJoined
    BY <1>1, <1>7, TaskFrame DEF NotSpawned
  <2> QED
    BY <2>1 DEF NotSpawned
<1> QED
  BY <1>2, <1>3, <1>4, <1>5, <1>6, <1>7, Frame DEF Steps

\* Alignment at a node outlives steps elsewhere.
LEMMA AlignedFrame ==
  ASSUME NEW n \in Nodes, AlignedAt(n), nodeMap'[n] = nodeMap[n],
         reply'[n] = reply[n], Range(log) \subseteq Range(log'),
         changes' = 0 => changes = 0
  PROVE  AlignedAt(n)'
BY DEF AlignedAt, Replied

\* Only a topology change moves a slot, and it is counted.
LEMMA RouteFrame ==
  ASSUME RedisTypes, [Next]_vars
  PROVE  UNCHANGED <<route, changes>> \/ changes' # 0
<1>1. ASSUME NEW c \in Commands, Call(c) PROVE UNCHANGED <<route, changes>>
  BY <1>1 DEF Call, FetchIndex, Enqueue, redisVars
<1>2. ASSUME DiscardClaim \/ DiscardDrain \/ ExecuteClaim PROVE UNCHANGED <<route, changes>>
  BY <1>2 DEF DiscardClaim, DiscardDrain, ExecuteClaim, redisVars
<1>3. ASSUME Executor PROVE UNCHANGED <<route, changes>>
  BY <1>3 DEF Executor, ExecuteTake, ResolveHit, ResolveMiss, ResolveDone, LoadDone,
              LoadFail, Spawn, Return, LoadSkip, LoadSend, Join, JoinFail, redisVars
<1>4. ASSUME NEW n \in Nodes, Task(n) PROVE UNCHANGED <<route, changes>>
  BY <1>4 DEF Task, TaskSend, TaskBuildFail, RedisRun, ConnectionLost, TaskFinish,
              TaskAborted, redisVars
<1>5. ASSUME Cluster PROVE UNCHANGED <<route, changes>> \/ changes' # 0
  <2>1. changes \in Nat
    BY ConfigAssumption DEF RedisTypes
  <2> QED
    BY <1>5, <2>1 DEF Cluster, ClusterChange, Restart, Listener
<1> QED
  BY <1>1, <1>2, <1>3, <1>4, <1>5 DEF Next, vars, redisVars

\* resolve_entry groups a command with the node its slot has at that time.
LEMMA HomedStep ==
  ASSUME IInv, [Next]_vars
  PROVE  Homed'
<1>1. /\ Homed /\ ExecTypes /\ RedisTypes
      /\ UNCHANGED <<route, changes>> \/ changes' # 0
  BY RouteFrame DEF IInv, TypeOK
<1>2. ASSUME nodeMap' = nodeMap PROVE Homed'
  BY <1>1, <1>2 DEF Homed, Destination
<1>3. ASSUME UNCHANGED core PROVE Homed'
  BY <1>2, <1>3 DEF core
<1>4. ASSUME \/ DiscardClaim \/ DiscardDrain \/ ExecuteClaim \/ ExecuteTake
             \/ ResolveMiss \/ ResolveDone \/ LoadFail \/ Spawn \/ Return
             \/ \E n \in Nodes : Join(n) \/ JoinFail(n)
      PROVE  Homed'
  BY <1>2, <1>4 DEF DiscardClaim, DiscardDrain, ExecuteClaim, ExecuteTake, ResolveMiss,
                    ResolveDone, LoadFail, Spawn, Return, Join, JoinFail
<1>5. ASSUME ResolveHit PROVE Homed'
  <2> DEFINE d == Head(pending)
             m == Destination(d)
  <2>1. UNCHANGED <<route, changes>> /\ nodeMap' = [nodeMap EXCEPT ![m] = Append(@, d)]
    BY <1>5 DEF ResolveHit, Destination, redisVars
  <2> SUFFICES ASSUME changes = 0, NEW n \in Nodes, NEW i \in 1 .. Len(nodeMap'[n])
               PROVE  Destination(nodeMap'[n][i]) = n
    BY <2>1 DEF Homed, Destination
  <2>2. \A j \in 1 .. Len(nodeMap[n]) : Destination(nodeMap[n][j]) = n
    BY <1>1 DEF Homed
  <2>3. nodeMap[n] \in Seq(Commands) /\ Len(nodeMap[n]) \in Nat
    BY <1>1 DEF ExecTypes
  <2>4. CASE n # m
    BY <1>1, <2>1, <2>2, <2>4 DEF ExecTypes
  <2>5. CASE n = m
    <3>1. nodeMap'[n] = Append(nodeMap[n], d)
      BY <1>1, <2>1, <2>5 DEF ExecTypes
    <3>2. d \in Commands
      BY <1>1, <1>5, RangeOfHeadTail DEF ResolveHit, ExecTypes
    <3> HIDE DEF d, m
    <3>3. CASE i \in 1 .. Len(nodeMap[n])
      BY <2>2, <2>3, <3>1, <3>2, <3>3
    <3>4. CASE i = Len(nodeMap[n]) + 1
      BY <2>3, <2>5, <3>1, <3>2, <3>4 DEF m
    <3> QED
      BY <2>3, <3>1, <3>2, <3>3, <3>4
  <2> QED
    BY <2>4, <2>5
<1>6. ASSUME NEW n \in Nodes, Task(n) PROVE Homed'
  BY <1>2, <1>6, TaskFrame
<1> QED
  BY <1>3, <1>4, <1>5, <1>6, Frame DEF Steps

\* The replies of a pipeline stay aligned with its commands until the task
\* reads them.
LEMMA AlignedStep ==
  ASSUME IInv, [Next]_vars
  PROVE  Aligned'
<1>1. /\ Aligned /\ NotSpawned /\ Homed
      /\ CallTypes /\ ExecTypes /\ TaskTypes /\ RedisTypes
      /\ changes' = 0 => changes = 0
  BY RouteFrame DEF IInv, TypeOK
<1>2. ASSUME UNCHANGED <<task, nodeMap, reply, log>> PROVE Aligned'
  BY <1>1, <1>2 DEF Aligned, AlignedAt, Replied
<1>3. ASSUME UNCHANGED core PROVE Aligned'
  BY <1>2, <1>3 DEF core
<1>4. ASSUME DiscardClaim \/ DiscardDrain \/ ExecuteClaim \/ ExecuteTake
      PROVE  Aligned'
  BY <1>2, <1>4 DEF DiscardClaim, DiscardDrain, ExecuteClaim, ExecuteTake,
                    taskVars, redisVars
<1>5. ASSUME ResolveHit PROVE Aligned'
  <2>1. \A n \in Nodes : task'[n] = "none"
    BY <1>1, <1>5 DEF ResolveHit, NotSpawned, NotJoined, taskVars
  <2> QED
    BY <2>1 DEF Aligned
<1>6. ASSUME ResolveMiss \/ ResolveDone \/ LoadFail \/ Return
             \/ \E n \in Nodes : JoinFail(n)
      PROVE  Aligned'
  BY <1>2, <1>6 DEF ResolveMiss, ResolveDone, LoadFail, Return, JoinFail,
                    taskVars, redisVars
<1>7. ASSUME Spawn PROVE Aligned'
  <2>1. \A n \in Nodes : task'[n] # "replied"
    BY <1>7 DEF Spawn
  <2> QED
    BY <2>1 DEF Aligned
<1>8. ASSUME NEW n \in Nodes, task'[n] # "replied",
             \A m \in Nodes \ {n} : task'[m] = task[m] /\ reply'[m] = reply[m],
             nodeMap' = nodeMap, log' = log
      PROVE  Aligned'
  BY <1>1, <1>8, AlignedFrame DEF Aligned
<1>9. ASSUME NEW n \in Nodes,
             Join(n) \/ TaskSend(n) \/ TaskBuildFail(n) \/ TaskFinish(n) \/ TaskAborted(n)
      PROVE  Aligned'
  <2>1. /\ \A m \in Nodes \ {n} : task'[m] = task[m] /\ reply'[m] = reply[m]
        /\ task'[n] # "replied"
        /\ nodeMap' = nodeMap /\ log' = log
    BY <1>1, <1>9 DEF TaskTypes, Join, TaskSend, TaskBuildFail, TaskFinish,
                      TaskAborted, execVars, redisVars
  <2> QED
    BY <1>8, <2>1
<1>10. ASSUME NEW n \in Nodes, RedisRun(n) \/ ConnectionLost(n) PROVE Aligned'
  <2>1. /\ AlignedAt(n)'
        /\ \A m \in Nodes \ {n} : reply'[m] = reply[m]
        /\ Range(log) \subseteq Range(log')
    BY <1>1, <1>10, RedisRunFacts, ConnectionLostFacts
  <2>2. /\ \A m \in Nodes \ {n} : task'[m] = task[m]
        /\ nodeMap' = nodeMap
    BY <1>1, <1>10 DEF TaskTypes, RedisRun, ConnectionLost, execVars
  <2> QED
    BY <1>1, <2>1, <2>2, AlignedFrame DEF Aligned
<1> QED
  BY <1>3, <1>4, <1>5, <1>6, <1>7, <1>9, <1>10, Frame DEF Steps, Task

-----------------------------------------------------------------------------
\* A dropped sender leaves no channel open, and changes no answer given.
LEMMA CloseFacts ==
  ASSUME CallTypes, NEW S
  PROVE  \A c \in Commands :
           /\ c \in S => Close(S)[c] # NoAnswer
           /\ Close(S)[c] = NoAnswer => answer[c] = NoAnswer
           /\ Close(S)[c].val # Null => Close(S)[c] = answer[c]
BY DEF Close, Failure, NoAnswer

\* Where an unanswered command may be, as NoOrphan has it.
Kept(c) ==
  \/ c \in Range(queue)
  \/ phase = "resolving" /\ c \in Range(pending)
  \/ \E n \in Nodes :
       /\ c \in Range(nodeMap[n])
       /\ \/ phase \in {"resolving", "loading"}
          \/ task[n] \in {"spawned", "sent", "replied"}

\* Every action that gives up a sender answers it or closes its channel.
LEMMA NoOrphanStep ==
  ASSUME IInv, [Next]_vars
  PROVE  NoOrphan'
<1>1. /\ CallTypes /\ BatchTypes /\ ExecTypes /\ TaskTypes /\ RedisTypes
      /\ NotSpawned /\ Aligned /\ OneCloser
      /\ \A c \in Commands : pc[c] = "queued" /\ answer[c] = NoAnswer => Kept(c)
  BY DEF IInv, TypeOK, NoOrphan, Kept
<1> SUFFICES ASSUME NEW c \in Commands, (pc[c] = "queued" /\ answer[c] = NoAnswer)'
             PROVE  Kept(c)'
  BY DEF NoOrphan, Kept
<1>2. ASSUME UNCHANGED <<pc, queue, core>> PROVE Kept(c)'
  BY <1>1, <1>2 DEF Kept, core
<1>3. ASSUME NEW d \in Commands, FetchIndex(d) PROVE Kept(c)'
  <2>1. pc[c] = "queued" /\ answer[c] = NoAnswer
    BY <1>1, <1>3 DEF FetchIndex, CallTypes
  <2> QED
    BY <1>1, <1>3, <2>1 DEF Kept, FetchIndex, execVars, taskVars
<1>4. ASSUME NEW d \in Commands, Enqueue(d) PROVE Kept(c)'
  <2>1. Range(queue') = Range(queue) \cup {d}
    BY <1>1, <1>4, RangeOfAppend DEF Enqueue, BatchTypes
  <2>2. CASE c = d
    BY <2>1, <2>2 DEF Kept
  <2>3. CASE c # d
    <3>1. pc[c] = "queued" /\ answer[c] = NoAnswer
      BY <1>1, <1>4, <2>3 DEF Enqueue, CallTypes
    <3> QED
      BY <1>1, <1>4, <2>1, <3>1 DEF Kept, Enqueue, execVars, taskVars
  <2> QED
    BY <2>2, <2>3
<1>5. ASSUME DiscardClaim PROVE Kept(c)'
  BY <1>1, <1>5 DEF Kept, DiscardClaim, callVars, taskVars
<1>6. ASSUME DiscardDrain PROVE Kept(c)'
  <2>1. c \notin Range(queue) /\ answer[c] = NoAnswer
    BY <1>6 DEF DiscardDrain, Failure, NoAnswer
  <2> QED
    BY <1>1, <1>6, <2>1 DEF Kept, DiscardDrain, taskVars
<1>7. ASSUME ExecuteClaim PROVE Kept(c)'
  BY <1>1, <1>7 DEF Kept, ExecuteClaim, callVars, taskVars
<1>8. ASSUME ExecuteTake PROVE Kept(c)'
  <2>1. phase = "claimed" /\ (\A n \in Nodes : task[n] = "none") /\ Kept(c)
    BY <1>1, <1>8 DEF ExecuteTake, NotSpawned, NotJoined, NotTaken, callVars
  <2>2. c \in Range(queue)
    BY <2>1 DEF Kept
  <2>3. queue # <<>>
    BY <2>2, RangeOfEmpty
  <2> QED
    BY <1>8, <2>2, <2>3 DEF Kept, ExecuteTake
<1>9. ASSUME ResolveHit PROVE Kept(c)'
  <2> DEFINE d == Head(pending)
             n == route[SlotOf[d]]
  <2>1. /\ phase = "resolving" /\ phase' = phase /\ pending # <<>>
        /\ queue' = queue /\ pending' = Tail(pending)
        /\ n # NoNode /\ nodeMap' = [nodeMap EXCEPT ![n] = Append(@, d)]
        /\ Kept(c)
    BY <1>1, <1>9 DEF ResolveHit, callVars, batchVars
  <2>2. d \in Commands /\ Range(pending) = {d} \cup Range(Tail(pending))
    BY <1>1, <2>1, RangeOfHeadTail DEF ExecTypes
  <2>3. n \in Nodes
    BY <1>1, <2>1, <2>2, ConfigAssumption DEF RedisTypes
  <2> HIDE DEF d, n
  <2>4. /\ \A m \in Nodes : Range(nodeMap[m]) \subseteq Range(nodeMap'[m])
        /\ d \in Range(nodeMap'[n])
    BY <1>1, <2>1, <2>2, <2>3, RangeOfAppend DEF ExecTypes
  <2>5. ASSUME \E m \in Nodes : c \in Range(nodeMap[m]) PROVE Kept(c)'
    BY <2>1, <2>4, <2>5 DEF Kept
  <2>6. ASSUME c \in Range(pending) PROVE Kept(c)'
    BY <2>1, <2>2, <2>3, <2>4, <2>6 DEF Kept
  <2> QED
    BY <2>1, <2>5, <2>6 DEF Kept
<1>10. ASSUME ResolveMiss PROVE Kept(c)'
  <2>1. CASE attempt < RetryAttempts
    BY <1>1, <1>10, <2>1 DEF Kept, ResolveMiss, batchVars, taskVars
  <2>2. CASE ~(attempt < RetryAttempts)
    <3>1. answer' = Close(Owned) /\ queue' = queue /\ phase = "resolving"
      BY <1>10, <2>2 DEF ResolveMiss, batchVars
    <3>2. c \notin Owned /\ answer[c] = NoAnswer
      BY <1>1, <3>1, CloseFacts
    <3>3. Kept(c)
      BY <1>1, <1>10, <3>2 DEF ResolveMiss
    <3> QED
      BY <3>1, <3>2, <3>3 DEF Kept, Owned
  <2> QED
    BY <2>1, <2>2
<1>11. ASSUME ResolveDone PROVE Kept(c)'
  <2>1. c \notin Range(pending)
    BY <1>11, RangeOfEmpty DEF ResolveDone
  <2> QED
    BY <1>1, <1>11, <2>1 DEF Kept, ResolveDone, callVars, batchVars, taskVars
<1>12. ASSUME LoadFail PROVE Kept(c)'
  <2>1. answer' = Close(Owned) /\ queue' = queue /\ pc' = pc /\ phase = "loading"
    BY <1>12 DEF LoadFail, batchVars
  <2>2. c \notin Owned /\ answer[c] = NoAnswer
    BY <1>1, <2>1, CloseFacts
  <2>3. Kept(c)
    BY <1>1, <2>1, <2>2
  <2> QED
    BY <2>1, <2>2, <2>3 DEF Kept, Owned
<1>13. ASSUME Spawn PROVE Kept(c)'
  <2>1. /\ Kept(c) /\ phase = "loading" /\ nodeMap' = nodeMap /\ queue' = queue
        /\ task' = [n \in Nodes |-> IF n \in NodesUsed THEN "spawned" ELSE "none"]
    BY <1>1, <1>13 DEF Spawn, callVars, batchVars
  <2>2. \A n \in Nodes : c \in Range(nodeMap[n]) => task'[n] = "spawned"
    BY <2>1, RangeOfEmpty DEF NodesUsed
  <2> QED
    BY <2>1, <2>2 DEF Kept
<1>14. ASSUME Return \/ \E n \in Nodes : JoinFail(n) PROVE Kept(c)'
  BY <1>1, <1>14 DEF Kept, Return, JoinFail, callVars, batchVars, taskVars
<1>15. ASSUME NEW n \in Nodes, Join(n) PROVE Kept(c)'
  BY <1>1, <1>15 DEF Kept, Join, TaskTypes, callVars, batchVars
<1>16. ASSUME NEW n \in Nodes, TaskSend(n) \/ RedisRun(n) \/ ConnectionLost(n)
       PROVE  Kept(c)'
  <2>1. /\ UNCHANGED <<pc, answer, queue, phase, pending, nodeMap>>
        /\ task'[n] \in {"sent", "replied"}
        /\ \A m \in Nodes \ {n} : task'[m] = task[m]
    BY <1>1, <1>16 DEF TaskTypes, TaskSend, RedisRun, ConnectionLost, callVars,
                       batchVars, execVars
  <2> QED
    BY <1>1, <2>1 DEF Kept
<1>17. ASSUME NEW n \in Nodes,
              TaskBuildFail(n) \/ TaskAborted(n) \/ TaskFinish(n)
       PROVE  Kept(c)'
  <2>1. /\ UNCHANGED <<pc, queue, phase, pending, nodeMap>>
        /\ \A m \in Nodes \ {n} : task'[m] = task[m]
    BY <1>1, <1>17 DEF TaskTypes, TaskBuildFail, TaskAborted, TaskFinish,
                       batchVars, execVars
  <2>2. c \notin Range(nodeMap[n]) /\ answer[c] = NoAnswer
    <3>1. CASE TaskBuildFail(n) \/ TaskAborted(n)
      <4>1. answer' = Close(Range(nodeMap[n]))
        BY <3>1 DEF TaskBuildFail, TaskAborted
      <4> QED
        BY <1>1, <4>1, CloseFacts
    <3>2. CASE TaskFinish(n)
      BY <1>1, <3>2, TaskFinishFacts DEF NoAnswer
    <3> QED
      BY <1>17, <3>1, <3>2
  <2> QED
    BY <1>1, <2>1, <2>2 DEF Kept
<1> QED
  BY <1>2, <1>3, <1>4, <1>5, <1>6, <1>7, <1>8, <1>9, <1>10, <1>11, <1>12, <1>13,
     <1>14, <1>15, <1>16, <1>17, Frame DEF Steps, Calls, Task

-----------------------------------------------------------------------------
\* A task hands to each of its callers what Redis replied to its own command.
LEMMA ReplyIsOwnStep ==
  ASSUME IInv, [Next]_vars
  PROVE  (Settled => ReplyIsOwn)'
<1> SUFFICES ASSUME Settled' PROVE ReplyIsOwn'
  OBVIOUS
<1>1. /\ CallTypes /\ ExecTypes /\ TaskTypes /\ RedisTypes /\ Aligned /\ Homed
      /\ Settled /\ ReplyIsOwn
  BY RouteFrame DEF IInv, TypeOK, Settled
<1>2. ASSUME UNCHANGED <<answer, log>> PROVE ReplyIsOwn'
  BY <1>1, <1>2 DEF ReplyIsOwn
<1>3. ASSUME NEW S, answer' = Close(S), log' = log PROVE ReplyIsOwn'
  BY <1>1, <1>3, CloseFacts DEF ReplyIsOwn
<1>4. ASSUME UNCHANGED core PROVE ReplyIsOwn'
  BY <1>2, <1>4 DEF core
<1>5. ASSUME \/ DiscardClaim \/ ExecuteClaim \/ ExecuteTake \/ ResolveHit
             \/ ResolveDone \/ Spawn \/ Return
             \/ \E n \in Nodes : Join(n) \/ JoinFail(n) \/ TaskSend(n)
      PROVE  ReplyIsOwn'
  BY <1>2, <1>5 DEF DiscardClaim, ExecuteClaim, ExecuteTake, ResolveHit,
                    ResolveDone, Spawn, Return, Join, JoinFail, TaskSend,
                    callVars, redisVars
<1>6. ASSUME DiscardDrain PROVE ReplyIsOwn'
  BY <1>1, <1>6 DEF ReplyIsOwn, DiscardDrain, Failure, redisVars
<1>7. ASSUME ResolveMiss PROVE ReplyIsOwn'
  BY <1>2, <1>3, <1>7 DEF ResolveMiss, redisVars
<1>8. ASSUME LoadFail PROVE ReplyIsOwn'
  BY <1>3, <1>8 DEF LoadFail, redisVars
<1>9. ASSUME NEW n \in Nodes, TaskBuildFail(n) \/ TaskAborted(n)
      PROVE  ReplyIsOwn'
  BY <1>3, <1>9 DEF TaskBuildFail, TaskAborted, redisVars
<1>10. ASSUME NEW n \in Nodes, RedisRun(n) \/ ConnectionLost(n)
       PROVE  ReplyIsOwn'
  <2>1. Range(log) \subseteq Range(log')
    BY <1>1, <1>10, RedisRunFacts, ConnectionLostFacts
  <2>2. answer' = answer
    BY <1>10 DEF RedisRun, ConnectionLost, callVars
  <2> QED
    BY <1>1, <2>1, <2>2 DEF ReplyIsOwn
<1>11. ASSUME NEW n \in Nodes, TaskFinish(n) PROVE ReplyIsOwn'
  <2>1. log' = log
    BY <1>11 DEF TaskFinish, redisVars
  <2> QED
    BY <1>1, <1>11, <2>1, TaskFinishFacts DEF ReplyIsOwn
<1> QED
  BY <1>4, <1>5, <1>6, <1>7, <1>8, <1>9, <1>10, <1>11, Frame
  DEF Steps, Calls, Task

-----------------------------------------------------------------------------
\* The invariant holds of a new batch.
LEMMA InitIInv == Init => IInv
<1> SUFFICES ASSUME Init PROVE IInv
  OBVIOUS
<1>1. CallTypes
  BY DEF Init, CallTypes, NoAnswer, Answers, Values
<1>2. BatchTypes
  <2>1. executed \in BOOLEAN
    BY DEF Init
  <2>2. next_index \in Nat /\ queue \in Seq(Commands)
    BY DEF Init
  <2> QED
    BY <2>1, <2>2 DEF BatchTypes
<1>3. ExecTypes
  <2>1. RetryAttempts \in Nat
    BY ConfigAssumption
  <2> QED
    BY <2>1 DEF Init, ExecTypes, Phases
<1>4. TaskTypes
  BY DEF Init, TaskTypes, TaskStates, NoOutput
<1>5. RedisTypes
  <2>1. MaxClusterChanges \in Nat /\ MaxRestarts \in Nat
    BY ConfigAssumption
  <2> QED
    BY <2>1 DEF Init, RedisTypes
<1>6. OneCloser /\ NotSpawned /\ Untouched
  BY DEF Init, OneCloser, NotSpawned, Untouched
<1>7. Homed /\ Aligned /\ NoOrphan /\ ReplyIsOwn
  BY DEF Init, Homed, Aligned, NoOrphan, ReplyIsOwn, NoAnswer
<1> QED
  BY <1>1, <1>2, <1>3, <1>4, <1>5, <1>6, <1>7 DEF IInv, TypeOK

\* The invariant is inductive.
LEMMA Invariance == Spec => []IInv
<1>1. ASSUME IInv, [Next]_vars PROVE IInv'
  BY <1>1, TypeStep, OneCloserStep, UntouchedStep, NotSpawnedStep, HomedStep,
     AlignedStep, NoOrphanStep, ReplyIsOwnStep DEF IInv
<1> QED
  BY InitIInv, <1>1, PTL DEF Spec

-----------------------------------------------------------------------------
\* Every variable of a batch keeps its type, whatever the cluster does: the
\* attempts of resolve_entry stay within batch_retry_attempts, every command
\* is grouped under a node, every answer is one a oneshot channel can hold.
THEOREM TypeCorrect == Spec => []TypeOK
<1>1. IInv => TypeOK
  BY DEF IInv
<1> QED
  BY <1>1, Invariance, PTL

\* No early return of execute_in_memory, no failed, aborted or finished task
\* leaves the caller of a command it owned waiting for an answer.
THEOREM NoCallerOrphaned == Spec => []NoOrphan
<1>1. IInv => NoOrphan
  BY DEF IInv
<1> QED
  BY <1>1, Invariance, PTL

\* Through the MULTI, EXEC and WAIT of a pipeline, the value a caller of async0
\* receives is the reply to its own command, which Redis has run: always in
\* IN_MEMORY, and in IN_MEMORY_ATOMIC for as long as no slot has moved.
THEOREM CallersGetTheirOwnReply == Spec => [](~Atomic \/ changes = 0 => ReplyIsOwn)
<1>1. IInv => (~Atomic \/ changes = 0 => ReplyIsOwn)
  BY DEF IInv, Settled
<1> QED
  BY <1>1, Invariance, PTL

\* Once discard_async has returned Ok, no command of the batch reaches Redis.
THEOREM DiscardedNeverRuns == Spec => []DiscardIsFinal
<1>1. IInv => DiscardIsFinal
  BY DEF IInv, OneCloser, Untouched, NotTaken, DiscardIsFinal
<1> QED
  BY <1>1, Invariance, PTL

\* The compare-exchange on executed lets one call empty the queue, once: no
\* other step takes a command out of it.
THEOREM DrainedOnce == Spec => QueueDrainedOnce
<1> DEFINE Drains == ~(Range(queue) \subseteq Range(queue'))
           Clean  == Taken = {} /\ \A c \in Commands : answer[c] = NoAnswer
<1>1. ASSUME IInv, [Next]_vars, Drains PROVE Clean
  <2>1. /\ BatchTypes /\ OneCloser /\ Untouched /\ queue' # queue
    BY <1>1 DEF IInv, TypeOK
  <2>2. ASSUME phase \in NotTaken, discard # "ok" PROVE Clean
    <3>1. pending = <<>> /\ \A n \in Nodes : nodeMap[n] = <<>>
      BY <2>1, <2>2 DEF Untouched
    <3>2. Taken = {}
      BY <3>1, RangeOfEmpty DEF Taken, Owned
    <3> QED
      BY <2>1, <2>2, <3>2 DEF Untouched
  <2>3. ASSUME NEW c \in Commands, FetchIndex(c) \/ Enqueue(c) PROVE FALSE
    <3>1. CASE FetchIndex(c)
      BY <2>1, <3>1 DEF FetchIndex
    <3>2. CASE Enqueue(c)
      BY <1>1, <2>1, <3>2, RangeOfAppend DEF Enqueue, BatchTypes
    <3> QED
      BY <2>3, <3>1, <3>2
  <2>4. ASSUME DiscardDrain PROVE phase \in NotTaken /\ discard # "ok"
    BY <2>1, <2>4 DEF DiscardDrain, OneCloser, NotTaken
  <2>5. ASSUME ExecuteTake PROVE phase \in NotTaken /\ discard # "ok"
    BY <2>1, <2>5 DEF ExecuteTake, OneCloser, NotTaken
  <2>6. ASSUME \/ DiscardClaim \/ ExecuteClaim \/ ResolveHit \/ ResolveMiss
               \/ ResolveDone \/ LoadFail \/ Spawn \/ Return
               \/ \E n \in Nodes : Join(n) \/ JoinFail(n)
        PROVE  FALSE
    BY <2>1, <2>6 DEF DiscardClaim, ExecuteClaim, ResolveHit, ResolveMiss,
                      ResolveDone, LoadFail, Spawn, Return, Join, JoinFail,
                      batchVars
  <2>7. ASSUME NEW n \in Nodes, Task(n) PROVE FALSE
    BY <2>1, <2>7, TaskFrame
  <2> QED
    BY <1>1, <2>1, <2>2, <2>3, <2>4, <2>5, <2>6, <2>7, Frame DEF Steps, Calls
<1>2. IInv /\ [Next]_vars => [Drains => Clean]_vars
  BY <1>1
<1> QED
  BY <1>2, Invariance, PTL DEF Spec, QueueDrainedOnce
=============================================================================
