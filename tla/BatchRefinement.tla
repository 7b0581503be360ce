-------------------------- MODULE BatchRefinement ---------------------------
(***************************************************************************)
(* InMemoryBatch implements BatchContract, for every cluster, every set of *)
(* commands and every option: the steps of execute_async, of its node      *)
(* tasks and of the cluster are steps of the contract, or change nothing   *)
(* that the callers of a batch could tell.  And how a batch ends that no   *)
(* moving slot disturbs: the callers of one transaction are all told Ok or *)
(* all told that it failed, and when execute_async returns Ok nobody's     *)
(* sender was dropped.  And, under any failures: what was added later runs *)
(* later, and the responses are what the callers were told, in their order.*)
(***************************************************************************)
EXTENDS InMemoryBatchProofs

-----------------------------------------------------------------------------
(* What the refinement needs beside IInv.                                    *)

\* A sender is in one place only: the queue, the commands still to resolve or
\* the pipeline of one node; and async0 put it there.
OnePlace ==
  /\ Distinct(queue) /\ Distinct(pending)
  /\ \A c \in Commands : c \in Range(queue) \/ c \in Owned => pc[c] = "queued"
  /\ \A c \in Owned : c \notin Range(queue)
  /\ \A n \in Nodes : \A c \in Range(nodeMap[n]) : c \notin Range(pending)
  /\ \A m, n \in Nodes : m # n => \A c \in Range(nodeMap[m]) : c \notin Range(nodeMap[n])

\* Until the queue is emptied, all that async0 added is in it.
AllQueued ==
  phase \in NotTaken /\ discard # "ok" =>
    \A c \in Commands : pc[c] = "queued" => c \in Range(queue)

\* Nobody is answered before the task of the node has its replies.
Unanswered ==
  /\ phase \in {"resolving", "loading"} => \A c \in Owned : answer[c] = NoAnswer
  /\ \A n \in Nodes :
       task[n] \in {"spawned", "sent", "replied"} =>
         \A c \in Range(nodeMap[n]) : answer[c] = NoAnswer

\* execute_async returns Ok when all tasks have been joined.
AllJoined == phase = "ok" => \A n \in Nodes : task[n] \in {"none", "joined"}

\* The invariant of the refinement.
RInv == IInv /\ OnePlace /\ AllQueued /\ Unanswered /\ AllJoined

-----------------------------------------------------------------------------
\* Only these actions move a sender.
LEMMA PlaceFrame ==
  ASSUME [Next]_vars
  PROVE  \/ UNCHANGED <<pc, queue, pending, nodeMap>>
         \/ Calls /\ UNCHANGED core
         \/ DiscardDrain \/ ExecuteTake \/ ResolveHit
<1>1. ASSUME \/ DiscardClaim \/ ExecuteClaim
             \/ ResolveMiss \/ ResolveDone \/ LoadFail \/ Spawn \/ Return
             \/ \E n \in Nodes : Join(n) \/ JoinFail(n)
      PROVE  UNCHANGED <<pc, queue, pending, nodeMap>>
  BY <1>1 DEF DiscardClaim, ExecuteClaim, ResolveMiss, ResolveDone, LoadFail, Spawn,
              Return, Join, JoinFail, callVars, batchVars
<1> QED
  BY <1>1, Frame, TaskFrame DEF Steps, core

\* Resolving a command moves it from pending to one node.
LEMMA ResolveHitFacts ==
  ASSUME ExecTypes, RedisTypes, ResolveHit
  PROVE  \E n \in Nodes :
           /\ Head(pending) \in Commands
           /\ Range(pending) = {Head(pending)} \cup Range(pending')
           /\ Range(nodeMap'[n]) = Range(nodeMap[n]) \cup {Head(pending)}
           /\ \A m \in Nodes \ {n} : nodeMap'[m] = nodeMap[m]
<1> DEFINE d == Head(pending)
           n == route[SlotOf[d]]
<1>1. /\ pending # <<>> /\ pending' = Tail(pending)
      /\ n # NoNode /\ nodeMap' = [nodeMap EXCEPT ![n] = Append(@, d)]
  BY DEF ResolveHit
<1>2. d \in Commands /\ Range(pending) = {d} \cup Range(Tail(pending))
  BY <1>1, RangeOfHeadTail DEF ExecTypes
<1>3. n \in Nodes
  BY <1>1, <1>2, ConfigAssumption DEF RedisTypes
<1> HIDE DEF d, n
<1>4. Range(nodeMap'[n]) = Range(nodeMap[n]) \cup {d}
  BY <1>1, <1>2, <1>3, RangeOfAppend DEF ExecTypes
<1>5. \A m \in Nodes \ {n} : nodeMap'[m] = nodeMap[m]
  BY <1>1, <1>3 DEF ExecTypes
<1> QED
  BY <1>1, <1>2, <1>3, <1>4, <1>5 DEF d

\* It stays with execute_async.
LEMMA ResolveHitOwned ==
  ASSUME ExecTypes, RedisTypes, ResolveHit
  PROVE  Owned' = Owned
<1>1. PICK n \in Nodes :
        /\ Range(pending) = {Head(pending)} \cup Range(pending')
        /\ Range(nodeMap'[n]) = Range(nodeMap[n]) \cup {Head(pending)}
        /\ \A m \in Nodes \ {n} : nodeMap'[m] = nodeMap[m]
  BY ResolveHitFacts
<1>2. ASSUME NEW c PROVE c \in Owned' <=> c \in Owned
  BY <1>1 DEF Owned
<1> QED
  BY <1>2

\* execute_async takes the whole queue, and had nothing before.
LEMMA ExecuteTakeOwned ==
  ASSUME Untouched, ExecuteTake
  PROVE  /\ Owned' = Range(queue)
         /\ \A n \in Nodes : Range(nodeMap'[n]) = {}
<1>1. \A n \in Nodes : nodeMap'[n] = <<>>
  BY DEF Untouched, NotTaken, ExecuteTake
<1>2. \A n \in Nodes : Range(nodeMap'[n]) = {}
  BY <1>1, RangeOfEmpty
<1>3. pending' = queue
  BY DEF ExecuteTake
<1> QED
  BY <1>2, <1>3 DEF Owned

\* A command never is in two places.
LEMMA OnePlaceStep ==
  ASSUME RInv, [Next]_vars
  PROVE  OnePlace'
<1>1. OnePlace /\ CallTypes /\ BatchTypes /\ ExecTypes /\ RedisTypes /\ Untouched
  BY DEF RInv, IInv, TypeOK
<1>2. ASSUME UNCHANGED <<pc, queue, pending, nodeMap>> PROVE OnePlace'
  BY <1>1, <1>2 DEF OnePlace, Owned, Distinct
<1>3. ASSUME NEW d \in Commands, FetchIndex(d) PROVE OnePlace'
  <2>1. /\ UNCHANGED <<queue, pending, nodeMap>>
        /\ \A c \in Commands : pc[c] = "queued" => pc'[c] = "queued"
    BY <1>1, <1>3 DEF FetchIndex, CallTypes, execVars
  <2> QED
    BY <1>1, <2>1 DEF OnePlace, Owned, Distinct
<1>4. ASSUME NEW d \in Commands, Enqueue(d) PROVE OnePlace'
  <2>1. /\ UNCHANGED <<pending, nodeMap>> /\ queue' = Append(queue, d)
        /\ \A c \in Commands : pc[c] = "queued" => pc'[c] = "queued"
        /\ pc'[d] = "queued" /\ pc[d] # "queued"
    BY <1>1, <1>4 DEF Enqueue, CallTypes, execVars
  <2>2. d \notin Range(queue) /\ d \notin Owned
    BY <1>1, <2>1 DEF OnePlace
  <2>3. Range(queue') = Range(queue) \cup {d} /\ Distinct(queue')
    BY <1>1, <2>1, <2>2, RangeOfAppend, DistinctAppend DEF BatchTypes, OnePlace
  <2>4. Owned' = Owned /\ Distinct(pending)'
    BY <1>1, <2>1 DEF Owned, OnePlace, Distinct
  <2> QED
    BY <1>1, <2>1, <2>2, <2>3, <2>4 DEF OnePlace
<1>5. ASSUME DiscardDrain PROVE OnePlace'
  <2>1. queue' = <<>> /\ UNCHANGED <<pc, pending, nodeMap>>
    BY <1>5 DEF DiscardDrain
  <2>2. Range(queue') = {} /\ Distinct(queue') /\ Distinct(pending)' /\ Owned' = Owned
    BY <1>1, <2>1, RangeOfEmpty, EmptyDistinct DEF OnePlace, Distinct, Owned
  <2> QED
    BY <1>1, <2>1, <2>2 DEF OnePlace
<1>6. ASSUME ExecuteTake PROVE OnePlace'
  <2>1. queue' = <<>> /\ pending' = queue /\ pc' = pc
    BY <1>6 DEF ExecuteTake, callVars
  <2>2. Range(queue') = {} /\ Distinct(queue') /\ Distinct(pending)'
    BY <1>1, <2>1, RangeOfEmpty, EmptyDistinct DEF OnePlace, Distinct
  <2>3. Owned' = Range(queue) /\ \A n \in Nodes : Range(nodeMap'[n]) = {}
    BY <1>1, <1>6, ExecuteTakeOwned
  <2> QED
    BY <1>1, <2>1, <2>2, <2>3 DEF OnePlace
<1>7. ASSUME ResolveHit PROVE OnePlace'
  <2> DEFINE d == Head(pending)
  <2>1. PICK n \in Nodes :
          /\ d \in Commands
          /\ Range(pending) = {d} \cup Range(pending')
          /\ Range(nodeMap'[n]) = Range(nodeMap[n]) \cup {d}
          /\ \A m \in Nodes \ {n} : nodeMap'[m] = nodeMap[m]
    BY <1>1, <1>7, ResolveHitFacts
  <2>2. Owned' = Owned /\ UNCHANGED <<pc, queue>>
    BY <1>1, <1>7, ResolveHitOwned DEF ResolveHit, callVars, batchVars
  <2>3. /\ Distinct(pending)' /\ d \notin Range(pending')
    <3>1. pending # <<>> /\ pending' = Tail(pending)
      BY <1>7 DEF ResolveHit
    <3>2. Distinct(Tail(pending)) /\ d \notin Range(Tail(pending))
      BY <1>1, <3>1, DistinctTail DEF ExecTypes, OnePlace
    <3> QED
      BY <3>1, <3>2 DEF Distinct
  <2>4. Distinct(queue)'
    BY <1>1, <2>2 DEF OnePlace, Distinct
  <2> HIDE DEF d
  <2>5. d \in Range(pending) /\ \A m \in Nodes : d \notin Range(nodeMap[m])
    BY <1>1, <2>1 DEF OnePlace
  <2>6. \A m \in Nodes : Range(nodeMap'[m]) \subseteq Range(nodeMap[m]) \cup {d}
    BY <2>1
  <2>7. \A m \in Nodes : \A c \in Range(nodeMap'[m]) : c \notin Range(pending')
    BY <1>1, <2>1, <2>3, <2>6 DEF OnePlace
  <2>8. \A l, m \in Nodes : l # m =>
          \A c \in Range(nodeMap'[l]) : c \notin Range(nodeMap'[m])
    <3> SUFFICES ASSUME NEW l \in Nodes, NEW m \in Nodes, l # m,
                        NEW c \in Range(nodeMap'[l]), c \in Range(nodeMap'[m])
                 PROVE  FALSE
      OBVIOUS
    <3>1. CASE c = d
      BY <2>1, <2>5, <3>1
    <3>2. CASE c # d
      BY <1>1, <2>6, <3>2 DEF OnePlace
    <3> QED
      BY <3>1, <3>2
  <2> QED
    BY <1>1, <2>2, <2>3, <2>4, <2>7, <2>8 DEF OnePlace
<1> QED
  BY <1>2, <1>3, <1>4, <1>5, <1>6, <1>7, PlaceFrame DEF Calls

\* Nothing leaves the queue while the batch is open.
LEMMA AllQueuedStep ==
  ASSUME RInv, [Next]_vars
  PROVE  AllQueued'
<1>1. AllQueued /\ CallTypes /\ BatchTypes /\ NotSpawned
  BY DEF RInv, IInv, TypeOK
<1>2. ASSUME UNCHANGED <<pc, queue, core>> PROVE AllQueued'
  BY <1>1, <1>2 DEF AllQueued, core
<1>3. ASSUME NEW d \in Commands, FetchIndex(d) PROVE AllQueued'
  <2>1. UNCHANGED <<queue, phase, discard>>
        /\ \A c \in Commands : pc'[c] = "queued" => pc[c] = "queued"
    BY <1>1, <1>3 DEF FetchIndex, CallTypes, execVars
  <2> QED
    BY <1>1, <2>1 DEF AllQueued
<1>4. ASSUME NEW d \in Commands, Enqueue(d) PROVE AllQueued'
  <2>1. /\ UNCHANGED <<phase, discard>>
        /\ Range(queue') = Range(queue) \cup {d}
        /\ \A c \in Commands \ {d} : pc'[c] = "queued" => pc[c] = "queued"
    BY <1>1, <1>4, RangeOfAppend DEF Enqueue, CallTypes, BatchTypes, execVars
  <2> QED
    BY <1>1, <2>1 DEF AllQueued
<1>5. ASSUME DiscardClaim \/ ExecuteClaim PROVE AllQueued'
  BY <1>1, <1>5 DEF AllQueued, NotTaken, DiscardClaim, ExecuteClaim, callVars
<1>6. ASSUME DiscardDrain PROVE AllQueued'
  BY <1>6 DEF AllQueued, DiscardDrain
<1>7. ASSUME \/ ExecuteTake \/ ResolveHit \/ ResolveMiss \/ ResolveDone
             \/ LoadFail \/ Spawn \/ Return
             \/ \E n \in Nodes : Join(n) \/ JoinFail(n)
      PROVE  AllQueued'
  <2>1. phase' \notin NotTaken
    BY <1>7 DEF NotTaken, ExecuteTake, ResolveHit, ResolveMiss, ResolveDone,
                LoadFail, Spawn, Return, Join, JoinFail
  <2> QED
    BY <2>1 DEF AllQueued
<1>8. ASSUME NEW n \in Nodes, Task(n) PROVE AllQueued'
  <2>1. phase' \notin NotTaken
    BY <1>1, <1>8, TaskFrame DEF NotSpawned, NotJoined
  <2> QED
    BY <2>1 DEF AllQueued
<1> QED
  BY <1>2, <1>3, <1>4, <1>5, <1>6, <1>7, <1>8, Frame DEF Steps, Calls

\* The task of a node answers its own callers only.
LEMMA TaskAnswers ==
  ASSUME IInv, NEW n \in Nodes, Task(n)
  PROVE  /\ answer' \in [Commands -> Answers]
         /\ \A c \in Commands : c \notin Range(nodeMap[n]) => answer'[c] = answer[c]
         /\ \/ answer' = answer /\ task[n] \in {"spawned", "sent"}
            \/ task'[n] \notin {"spawned", "sent", "replied"}
         /\ \A m \in Nodes \ {n} : task'[m] = task[m]
<1>1. TypeOK /\ CallTypes /\ ExecTypes /\ TaskTypes /\ Aligned
  BY DEF IInv, TypeOK
<1>2. \A m \in Nodes \ {n} : task'[m] = task[m]
  BY <1>1 DEF Task, TaskSend, TaskBuildFail, RedisRun, ConnectionLost, TaskFinish,
              TaskAborted, TaskTypes
<1>3. CASE TaskSend(n) \/ RedisRun(n) \/ ConnectionLost(n)
  <2>1. answer' = answer /\ task[n] \in {"spawned", "sent"}
    BY <1>3 DEF TaskSend, RedisRun, ConnectionLost, callVars
  <2> QED
    BY <1>1, <1>2, <2>1 DEF CallTypes
<1>4. CASE TaskBuildFail(n) \/ TaskAborted(n)
  <2>1. answer' = Close(Range(nodeMap[n])) /\ task'[n] \notin {"spawned", "sent", "replied"}
    BY <1>1, <1>4 DEF TaskBuildFail, TaskAborted, TaskTypes
  <2>2. \A c \in Commands : c \notin Range(nodeMap[n]) => answer'[c] = answer[c]
    BY <2>1 DEF Close
  <2> QED
    BY <1>1, <1>2, <2>1, <2>2, CloseType
<1>5. CASE TaskFinish(n)
  <2>1. task'[n] \notin {"spawned", "sent", "replied"}
    BY <1>1, <1>5 DEF TaskFinish, TaskTypes
  <2> QED
    BY <1>1, <1>2, <1>5, <2>1, TaskFinishFacts
<1> QED
  BY <1>3, <1>4, <1>5 DEF Task

\* No caller is answered twice, whichever task, error or discard comes first.
LEMMA UnansweredStep ==
  ASSUME RInv, [Next]_vars
  PROVE  Unanswered'
<1>1. /\ Unanswered /\ OnePlace /\ CallTypes /\ ExecTypes /\ TaskTypes /\ RedisTypes
      /\ Untouched /\ NotSpawned /\ OneCloser
  BY DEF RInv, IInv, TypeOK
<1>2. ASSUME UNCHANGED core PROVE Unanswered'
  BY <1>1, <1>2 DEF Unanswered, Owned, core
<1>3. ASSUME DiscardClaim \/ ExecuteClaim PROVE Unanswered'
  BY <1>1, <1>3 DEF Unanswered, Owned, DiscardClaim, ExecuteClaim, callVars, taskVars
<1>4. ASSUME phase' \notin {"resolving", "loading"}, \A n \in Nodes : task'[n] = "none"
      PROVE  Unanswered'
  BY <1>4 DEF Unanswered
<1>5. ASSUME DiscardDrain \/ (ResolveMiss /\ phase' = "err") \/ LoadFail PROVE Unanswered'
  BY <1>1, <1>4, <1>5 DEF DiscardDrain, ResolveMiss, LoadFail, OneCloser, NotSpawned,
                          NotJoined, NotTaken, taskVars
<1>6. ASSUME ExecuteTake PROVE Unanswered'
  <2>1. /\ \A c \in Commands : answer'[c] = NoAnswer
        /\ \A n \in Nodes : task'[n] = "none"
    BY <1>1, <1>6 DEF ExecuteTake, Untouched, OneCloser, NotSpawned, NotJoined,
                      NotTaken, callVars, taskVars
  <2>2. Owned' = Range(queue) /\ \A c \in Range(queue) : c \in Commands
    BY <1>1, <1>6, ExecuteTakeOwned, RangeOfSeq DEF RInv, IInv, TypeOK, BatchTypes
  <2> QED
    BY <2>1, <2>2 DEF Unanswered
<1>7. ASSUME ResolveHit PROVE Unanswered'
  <2>1. Owned' = Owned /\ UNCHANGED <<answer, phase>> /\ \A n \in Nodes : task'[n] = "none"
    BY <1>1, <1>7, ResolveHitOwned DEF ResolveHit, NotSpawned, NotJoined, callVars, taskVars
  <2> QED
    BY <1>1, <2>1 DEF Unanswered
<1>8. ASSUME (ResolveMiss /\ phase' # "err") \/ ResolveDone PROVE Unanswered'
  BY <1>1, <1>8 DEF Unanswered, Owned, ResolveMiss, ResolveDone, callVars, taskVars
<1>9. ASSUME Spawn PROVE Unanswered'
  BY <1>1, <1>9 DEF Unanswered, Owned, Spawn, callVars
<1>10. ASSUME Return \/ \E n \in Nodes : JoinFail(n) PROVE Unanswered'
  BY <1>1, <1>10 DEF Unanswered, Return, JoinFail, callVars, taskVars
<1>11. ASSUME NEW n \in Nodes, Join(n) PROVE Unanswered'
  BY <1>1, <1>11 DEF Unanswered, Join, TaskTypes, callVars
<1>12. ASSUME NEW n \in Nodes, Task(n) PROVE Unanswered'
  <2>1. UNCHANGED <<phase, nodeMap>> /\ phase \notin {"resolving", "loading"}
    BY <1>1, <1>12, TaskFrame DEF NotSpawned, NotJoined
  <2>2. /\ \A c \in Commands : c \notin Range(nodeMap[n]) => answer'[c] = answer[c]
        /\ \/ answer' = answer /\ task[n] \in {"spawned", "sent"}
           \/ task'[n] \notin {"spawned", "sent", "replied"}
        /\ \A m \in Nodes \ {n} : task'[m] = task[m]
    BY <1>12, TaskAnswers DEF RInv
  <2> SUFFICES ASSUME NEW m \in Nodes, task'[m] \in {"spawned", "sent", "replied"},
                      NEW c \in Range(nodeMap[m])
               PROVE  answer'[c] = NoAnswer
    BY <2>1 DEF Unanswered
  <2>3. c \in Commands
    BY <1>1, RangeOfSeq DEF ExecTypes
  <2>4. CASE m = n
    BY <1>1, <2>2, <2>4 DEF Unanswered
  <2>5. CASE m # n
    BY <1>1, <2>2, <2>3, <2>5 DEF Unanswered, OnePlace
  <2> QED
    BY <2>4, <2>5
<1> QED
  BY <1>2, <1>3, <1>5, <1>6, <1>7, <1>8, <1>9, <1>10, <1>11, <1>12, Frame DEF Steps

\* No task is left when execute_async returns Ok.
LEMMA AllJoinedStep ==
  ASSUME RInv, [Next]_vars
  PROVE  AllJoined'
<1>1. AllJoined /\ NotSpawned
  BY DEF RInv, IInv
<1>2. ASSUME UNCHANGED <<phase, task>> PROVE AllJoined'
  BY <1>1, <1>2 DEF AllJoined
<1>3. ASSUME phase' # "ok" PROVE AllJoined'
  BY <1>3 DEF AllJoined
<1>4. ASSUME DiscardClaim \/ DiscardDrain PROVE AllJoined'
  BY <1>2, <1>4 DEF DiscardClaim, DiscardDrain, taskVars
<1>5. ASSUME \/ ExecuteClaim \/ ResolveHit \/ ResolveMiss \/ ResolveDone \/ LoadFail
             \/ Spawn \/ \E n \in Nodes : Join(n) \/ JoinFail(n)
      PROVE  AllJoined'
  BY <1>3, <1>5 DEF ExecuteClaim, ResolveHit, ResolveMiss, ResolveDone, LoadFail,
                    Spawn, Join, JoinFail
<1>6. ASSUME ExecuteTake PROVE AllJoined'
  BY <1>1, <1>6 DEF AllJoined, NotSpawned, NotJoined, NotTaken, ExecuteTake, taskVars
<1>7. ASSUME Return PROVE AllJoined'
  BY <1>7 DEF AllJoined, Return, taskVars
<1>8. ASSUME NEW n \in Nodes, Task(n) PROVE AllJoined'
  BY <1>1, <1>3, <1>8, TaskFrame DEF AllJoined
<1>9. UNCHANGED core => UNCHANGED <<phase, task>>
  BY DEF core
<1> QED
  BY <1>2, <1>4, <1>5, <1>6, <1>7, <1>8, <1>9, Frame DEF Steps

\* The invariant of the refinement holds in every reachable state.
LEMMA RefinementInvariance == Spec => []RInv
<1>1. Init => RInv
  <2> SUFFICES ASSUME Init PROVE RInv
    OBVIOUS
  <2>1. /\ queue = <<>> /\ pending = <<>> /\ \A n \in Nodes : nodeMap[n] = <<>>
        /\ phase = "idle"
        /\ \A c \in Commands : pc[c] = "new"
        /\ \A n \in Nodes : task[n] = "none"
    BY DEF Init
  <2>2. Owned = {} /\ Range(queue) = {} /\ \A n \in Nodes : Range(nodeMap[n]) = {}
    BY <2>1, RangeOfEmpty DEF Owned
  <2>3. Distinct(queue) /\ Distinct(pending)
    BY <2>1, EmptyDistinct
  <2>4. OnePlace
    BY <2>2, <2>3 DEF OnePlace
  <2>5. AllQueued /\ Unanswered /\ AllJoined
    BY <2>1 DEF AllQueued, Unanswered, AllJoined
  <2> QED
    BY <2>4, <2>5, InitIInv DEF RInv
<1>2. ASSUME RInv, [Next]_vars PROVE IInv'
  BY <1>2, TypeStep, OneCloserStep, UntouchedStep, NotSpawnedStep, HomedStep,
     AlignedStep, NoOrphanStep, ReplyIsOwnStep DEF IInv, RInv
<1>3. RInv /\ [Next]_vars => RInv'
  BY <1>2, OnePlaceStep, AllQueuedStep, UnansweredStep, AllJoinedStep DEF RInv
<1> QED
  BY <1>1, <1>3, PTL DEF Spec

-----------------------------------------------------------------------------
(* Each step as the contract sees it.                                        *)

\* The words of the contract are those of the batch.
LEMMA SameWords ==
  /\ Contract!NoAnswer = NoAnswer
  /\ Contract!Answers = Answers
  /\ \A why : Contract!Failure(why) = Failure(why)
BY DEF Contract!NoAnswer, Contract!Answers, Contract!Failure, Contract!Values,
       NoAnswer, Answers, Failure, Values

\* What the callers of a batch can tell of its state.
LEMMA SameState ==
  ASSUME UNCHANGED <<phase, discard>>
  PROVE  ContractState' = ContractState
BY DEF ContractState

\* A step that neither moves nor answers a command, and runs none.
LEMMA Stutter ==
  ASSUME ContractState' = ContractState, Owned' = Owned,
         UNCHANGED <<pc, log, answer, changes>>
  PROVE  UNCHANGED Contract!vars
<1>1. {c \in Commands : pc[c] = "queued"}' = {c \in Commands : pc[c] = "queued"}
  OBVIOUS
<1>2. (Range(log) \ {Null})' = Range(log) \ {Null}
  OBVIOUS
<1>3. (Atomic /\ changes > 0)' = (Atomic /\ changes > 0)
  OBVIOUS
<1>4. Taken' = Taken
  BY DEF Taken
<1> QED
  BY <1>1, <1>2, <1>3, <1>4 DEF Contract!vars

\* async0 adds a command, at any time.
LEMMA EnqueueAdds ==
  ASSUME CallTypes, NEW c \in Commands, Enqueue(c)
  PROVE  Contract!Add(c)
<1> DEFINE added == {d \in Commands : pc[d] = "queued"}
<1>1. /\ UNCHANGED <<phase, discard, pending, nodeMap, log, answer, changes>>
      /\ pc[c] = "indexed" /\ pc' = [pc EXCEPT ![c] = "queued"]
  BY DEF Enqueue, execVars, redisVars
<1>2. c \notin added /\ added' = added \cup {c}
  BY <1>1 DEF CallTypes
<1>3. ContractState' = ContractState
  BY <1>1, SameState
<1>4. Taken' = Taken
  BY <1>1 DEF Taken, Owned
<1>5. (Range(log) \ {Null})' = Range(log) \ {Null}
  BY <1>1
<1>6. (Atomic /\ changes > 0)' = (Atomic /\ changes > 0)
  BY <1>1
<1> QED
  BY <1>1, <1>2, <1>3, <1>4, <1>5, <1>6 DEF Contract!Add

\* Fetching an index is nobody else's business.
LEMMA FetchIndexStutters ==
  ASSUME CallTypes, NEW c \in Commands, FetchIndex(c)
  PROVE  UNCHANGED Contract!vars
<1>1. /\ UNCHANGED <<phase, discard, pending, nodeMap, log, answer, changes>>
      /\ \A d \in Commands : pc'[d] = "queued" <=> pc[d] = "queued"
  BY DEF FetchIndex, execVars, redisVars, CallTypes
<1>2. {d \in Commands : pc[d] = "queued"}' = {d \in Commands : pc[d] = "queued"}
  BY <1>1
<1>3. ContractState' = ContractState
  BY <1>1, SameState
<1>4. Taken' = Taken
  BY <1>1 DEF Taken, Owned
<1>5. (Range(log) \ {Null})' = Range(log) \ {Null}
  BY <1>1
<1>6. (Atomic /\ changes > 0)' = (Atomic /\ changes > 0)
  BY <1>1
<1> QED
  BY <1>1, <1>2, <1>3, <1>4, <1>5, <1>6 DEF Contract!vars

\* Whoever passes the compare-exchange closes the batch; the other is refused.
LEMMA ClaimCloses ==
  ASSUME OneCloser, DiscardClaim \/ ExecuteClaim
  PROVE  Contract!Close \/ UNCHANGED Contract!vars
<1>1. UNCHANGED <<pc, pending, nodeMap, log, answer, changes>>
  BY DEF DiscardClaim, ExecuteClaim, callVars, redisVars
<1>2. Owned' = Owned
  BY <1>1 DEF Owned
<1>3. CASE executed
  <2>1. ContractState' = ContractState
    BY <1>3 DEF OneCloser, DiscardClaim, ExecuteClaim, ContractState
  <2> QED
    BY <1>1, <1>2, <2>1, Stutter
<1>4. CASE ~executed
  <2>1. ContractState = "open" /\ ContractState' \in {"claimed", "discarding"}
    BY <1>4 DEF OneCloser, DiscardClaim, ExecuteClaim, ContractState
  <2>2. {c \in Commands : pc[c] = "queued"}' = {c \in Commands : pc[c] = "queued"}
    BY <1>1
  <2>3. (Range(log) \ {Null})' = Range(log) \ {Null}
    BY <1>1
  <2>4. (Atomic /\ changes > 0)' = (Atomic /\ changes > 0)
    BY <1>1
  <2>5. Taken' = Taken
    BY <1>2 DEF Taken
  <2> QED
    BY <1>1, <2>1, <2>2, <2>3, <2>4, <2>5 DEF Contract!Close, Contract!Become
<1> QED
  BY <1>3, <1>4

\* discard_async answers all that was added.
LEMMA DrainDiscards ==
  ASSUME RInv, DiscardDrain
  PROVE  Contract!Discard
<1>1. /\ AllQueued /\ OneCloser /\ BatchTypes /\ CallTypes
      /\ discard = "claimed" /\ discard' = "ok"
      /\ UNCHANGED <<pc, phase, pending, nodeMap, log, changes>>
  BY DEF RInv, IInv, TypeOK, DiscardDrain, redisVars
<1>2. phase \in {"idle", "refused"}
  BY <1>1 DEF OneCloser
<1>3. ContractState = "discarding" /\ ContractState' = "discarded"
  BY <1>1, <1>2 DEF ContractState
<1>4. OnePlace
  BY DEF RInv
<1>5. \A c \in Commands : c \in Range(queue) <=> pc[c] = "queued"
  BY <1>1, <1>2, <1>4 DEF AllQueued, OnePlace, NotTaken
<1>6. answer' = [c \in Commands |-> IF c \in {d \in Commands : pc[d] = "queued"}
                                    THEN Failure("discarded") ELSE answer[c]]
  BY <1>5 DEF DiscardDrain
<1>7. {c \in Commands : pc[c] = "queued"}' = {c \in Commands : pc[c] = "queued"}
  BY <1>1
<1>8. Taken' = Taken
  BY <1>1 DEF Taken, Owned
<1>9. (Range(log) \ {Null})' = Range(log) \ {Null}
  BY <1>1
<1>10. (Atomic /\ changes > 0)' = (Atomic /\ changes > 0)
  BY <1>1
<1> QED
  BY <1>3, <1>6, <1>7, <1>8, <1>9, <1>10, SameWords DEF Contract!Discard, Contract!Become

\* execute_async takes all that was added.
LEMMA TakeTakes ==
  ASSUME RInv, ExecuteTake
  PROVE  Contract!Take
<1> DEFINE added == {c \in Commands : pc[c] = "queued"}
<1>1. /\ AllQueued /\ OneCloser /\ Untouched /\ OnePlace /\ BatchTypes
      /\ phase = "claimed" /\ phase' = IF queue = <<>> THEN "ok" ELSE "resolving"
      /\ UNCHANGED <<pc, discard, log, answer, changes>>
  BY DEF RInv, IInv, TypeOK, ExecuteTake, callVars, redisVars
<1>2. added = Range(queue)
  <2>1. \A c \in Commands : c \in Range(queue) <=> pc[c] = "queued"
    BY <1>1 DEF AllQueued, OnePlace, OneCloser, NotTaken
  <2>2. \A c \in Range(queue) : c \in Commands
    BY <1>1, RangeOfSeq DEF BatchTypes
  <2> QED
    BY <2>1, <2>2
<1>3. queue = <<>> <=> added = {}
  <2>1. ASSUME queue # <<>> PROVE Head(queue) \in Range(queue)
    BY <1>1, <2>1, RangeOfHeadTail DEF BatchTypes
  <2> QED
    BY <1>2, <2>1, RangeOfEmpty
<1>4. ContractState = "claimed" /\ ContractState' = IF added = {} THEN "ok" ELSE "executing"
  BY <1>1, <1>3 DEF ContractState
<1>5. Taken' = added
  BY <1>1, <1>2, ExecuteTakeOwned DEF Taken
<1>6. added' = added
  BY <1>1
<1>7. (Range(log) \ {Null})' = Range(log) \ {Null}
  BY <1>1
<1>8. (Atomic /\ changes > 0)' = (Atomic /\ changes > 0)
  BY <1>1
<1> QED
  BY <1>1, <1>4, <1>5, <1>6, <1>7, <1>8 DEF Contract!Take, Contract!Become

\* Resolving, loading scripts, spawning and joining tasks, reconnections: the
\* callers of the batch do not notice.
LEMMA InnerStutters ==
  ASSUME ExecTypes, RedisTypes,
         \/ ResolveHit \/ (ResolveMiss /\ phase' # "err") \/ ResolveDone \/ LoadDone \/ Spawn
         \/ \E n \in Nodes : LoadSkip(n) \/ LoadSend(n) \/ Join(n) \/ TaskSend(n) \/ Restart(n)
         \/ \E e \in Nodes \cup {NoNode} : Listener(e)
  PROVE  UNCHANGED Contract!vars
<1>1. UNCHANGED <<pc, log, answer, changes>>
  BY DEF ResolveHit, ResolveMiss, ResolveDone, LoadDone, Spawn, LoadSkip, LoadSend, Join,
         TaskSend, Restart, Listener, callVars, redisVars
<1>2. ContractState' = ContractState
  <2>1. \/ UNCHANGED <<phase, discard>>
        \/ {phase, phase'} \subseteq {"resolving", "loading", "joining"}
    BY DEF ResolveHit, ResolveMiss, ResolveDone, LoadDone, Spawn, LoadSkip, LoadSend, Join,
           TaskSend, Restart, Listener, execVars
  <2> QED
    BY <2>1, SameState DEF ContractState
<1>3. Owned' = Owned
  <2>1. CASE ResolveHit
    BY <2>1, ResolveHitOwned
  <2>2. CASE ~ResolveHit
    <3>1. UNCHANGED <<pending, nodeMap>>
      BY <2>2 DEF ResolveMiss, ResolveDone, LoadDone, Spawn, LoadSkip, LoadSend, Join,
                  TaskSend, Restart, Listener, execVars
    <3> QED
      BY <3>1 DEF Owned
  <2> QED
    BY <2>1, <2>2
<1> QED
  BY <1>1, <1>2, <1>3, Stutter

\* Giving up on a command, or the first failed task, ends execute_async: the
\* callers it still owned are told that their channel is closed.
LEMMA ErrorFails ==
  ASSUME TypeOK, (ResolveMiss /\ phase' = "err") \/ LoadFail \/ \E n \in Nodes : JoinFail(n)
  PROVE  Contract!Fail
<1>1. /\ UNCHANGED <<pc, discard, pending, nodeMap, log, changes>>
      /\ phase \in {"resolving", "loading", "joining"} /\ phase' = "err"
      /\ answer' = answer \/ answer' = Close(Owned)
  BY DEF ResolveMiss, LoadFail, JoinFail, callVars, redisVars
<1>2. ContractState = "executing" /\ ContractState' = "failed"
  BY <1>1 DEF ContractState
<1>3. answer' \in [Commands -> Answers]
  BY <1>1, CloseType DEF TypeOK, CallTypes
<1>4. \A c \in Commands : answer'[c] # answer[c] =>
        c \in Taken /\ answer[c] = NoAnswer /\ answer'[c] = Failure("closed")
  BY <1>1 DEF Close, Taken
<1>5. {c \in Commands : pc[c] = "queued"}' = {c \in Commands : pc[c] = "queued"}
  BY <1>1
<1>6. Taken' = Taken
  BY <1>1 DEF Taken, Owned
<1>7. (Range(log) \ {Null})' = Range(log) \ {Null}
  BY <1>1
<1>8. (Atomic /\ changes > 0)' = (Atomic /\ changes > 0)
  BY <1>1
<1> QED
  BY <1>2, <1>3, <1>4, <1>5, <1>6, <1>7, <1>8, SameWords
  DEF Contract!Fail, Contract!Tells, Contract!Become

\* A task runs only while execute_async waits for it, or after it failed.
LEMMA TaskState ==
  ASSUME RInv, NEW n \in Nodes, Task(n)
  PROVE  ContractState \in {"executing", "failed"} /\ ContractState' = ContractState
<1>1. /\ NotSpawned /\ AllJoined /\ phase \in Phases
      /\ task[n] \in {"spawned", "sent", "replied"} /\ UNCHANGED <<phase, discard>>
  BY TaskFrame DEF RInv, IInv, TypeOK, ExecTypes
<1>2. phase \in {"joining", "err"}
  BY <1>1 DEF NotSpawned, NotJoined, NotTaken, AllJoined, Phases
<1> QED
  BY <1>1, <1>2, SameState DEF ContractState

\* Redis runs commands that execute_async took, and no others.
LEMMA PipelineRuns ==
  ASSUME RInv, NEW n \in Nodes, RedisRun(n) \/ ConnectionLost(n)
  PROVE  Contract!Run
<1>1. ExecTypes /\ TaskTypes /\ RedisTypes /\ Homed
  BY DEF RInv, IInv, TypeOK
<1>2. ContractState \in {"executing", "failed"} /\ ContractState' = ContractState
  BY TaskState DEF Task
<1>3. UNCHANGED <<pc, answer, pending, nodeMap, changes>>
  BY DEF RedisRun, ConnectionLost, callVars, execVars
<1>4. PICK ran : log' = log \o Outcome(n, ran)
  BY DEF RedisRun, RedisPipeline, RedisTransaction, RedisSplit, ConnectionLost
<1> DEFINE o == Outcome(n, ran)
<1>5. o \in Seq(Values) /\ log \in Seq(Values) /\ log' = log \o o
  BY <1>1, <1>4, OutcomeFacts DEF RedisTypes
<1>6. \A c \in Range(o) : c # Null => c \in Owned
  <2> SUFFICES ASSUME NEW c \in Range(o), c # Null PROVE c \in Range(nodeMap[n])
    BY DEF Owned
  <2>1. PICK i \in 1 .. Len(nodeMap[n]) : o[i] = c
    BY <1>1, OutcomeFacts DEF Outcome, Range
  <2>2. o[i] # Null => o[i] = nodeMap[n][i]
    BY <1>1, <2>1, OutcomeFacts
  <2>3. nodeMap[n] \in Seq(Commands)
    BY <1>1 DEF ExecTypes
  <2>4. DOMAIN nodeMap[n] = 1 .. Len(nodeMap[n])
    BY <2>3
  <2> QED
    BY <2>1, <2>2, <2>4 DEF Range
<1> HIDE DEF o
<1>7. \A c \in Range(log') : c \in Range(log) \/ c \in Range(o)
  <2> SUFFICES ASSUME NEW c \in Range(log') PROVE c \in Range(log) \/ c \in Range(o)
    OBVIOUS
  <2>1. /\ Len(log) \in Nat /\ Len(o) \in Nat
        /\ DOMAIN log = 1 .. Len(log) /\ DOMAIN o = 1 .. Len(o)
        /\ DOMAIN log' = 1 .. Len(log) + Len(o)
        /\ \A i \in 1 .. Len(log) : log'[i] = log[i]
        /\ \A i \in 1 .. Len(log) + Len(o) : i > Len(log) =>
             i - Len(log) \in 1 .. Len(o) /\ log'[i] = o[i - Len(log)]
    BY <1>5
  <2>2. PICK i \in 1 .. Len(log) + Len(o) : log'[i] = c
    BY <2>1 DEF Range
  <2>3. CASE i <= Len(log)
    BY <2>1, <2>2, <2>3 DEF Range
  <2>4. CASE i > Len(log)
    BY <2>1, <2>2, <2>4 DEF Range
  <2> QED
    BY <2>1, <2>2, <2>3, <2>4
<1>8. Range(log) \subseteq Range(log')
  BY <1>1, RedisRunFacts, ConnectionLostFacts
<1>9. Range(log') \ {Null} \in {(Range(log) \ {Null}) \cup S : S \in SUBSET Taken}
  <2> DEFINE new == (Range(log') \ Range(log)) \ {Null}
  <2>1. new \in SUBSET Taken
    BY <1>6, <1>7 DEF Taken
  <2>2. Range(log') \ {Null} = (Range(log) \ {Null}) \cup new
    BY <1>8
  <2> QED
    BY <2>1, <2>2
<1>10. {c \in Commands : pc[c] = "queued"}' = {c \in Commands : pc[c] = "queued"}
  BY <1>3
<1>11. Taken' = Taken
  BY <1>3 DEF Taken, Owned
<1>12. (Atomic /\ changes > 0)' = (Atomic /\ changes > 0)
  BY <1>3
<1> QED
  BY <1>2, <1>3, <1>9, <1>10, <1>11, <1>12 DEF Contract!Run

\* A caller is answered with a result or an error, never as if discarded.
LEMMA FinishTags ==
  ASSUME ExecTypes, NEW n \in Nodes, TaskFinish(n), NEW c \in Range(nodeMap[n])
  PROVE  answer'[c].tag \in {"ok", "failed", "closed"}
<1> DEFINE i == CHOOSE i \in DOMAIN nodeMap[n] : nodeMap[n][i] = c
<1>1. c \in Commands
  BY RangeOfSeq DEF ExecTypes
<1>2. answer'[c] = TaskAnswer(PopWait(reply[n]), i)
  BY <1>1 DEF TaskFinish
<1> HIDE DEF i
<1> QED
  BY <1>2 DEF TaskAnswer, ExecAnswer, Ok, Failure

\* The task of a node tells its callers, who have waited for it, the truth.
LEMMA TaskTells ==
  ASSUME RInv, NEW n \in Nodes, TaskBuildFail(n) \/ TaskFinish(n) \/ TaskAborted(n)
  PROVE  Contract!Tell
<1>1. /\ IInv /\ CallTypes /\ ExecTypes /\ TaskTypes /\ Aligned /\ Unanswered
      /\ changes \in Nat
  BY ConfigAssumption DEF RInv, IInv, TypeOK, RedisTypes
<1>2. ContractState \in {"executing", "failed"} /\ ContractState' = ContractState
  BY TaskState DEF Task
<1>3. UNCHANGED <<pc, pending, nodeMap, log, changes>>
  BY DEF TaskBuildFail, TaskFinish, TaskAborted, execVars, redisVars
<1>4. /\ answer' \in [Commands -> Answers]
      /\ \A c \in Commands : c \notin Range(nodeMap[n]) => answer'[c] = answer[c]
  BY <1>1, TaskAnswers DEF Task
<1>5. \A c \in Range(nodeMap[n]) : answer[c] = NoAnswer /\ c \in Taken
  BY <1>1, TaskFrame DEF Task, Unanswered, Taken, Owned
<1>6. ASSUME NEW c \in Commands, answer'[c] # answer[c]
      PROVE  /\ c \in Taken /\ answer[c] = NoAnswer
             /\ Contract!Truthful(c, answer'[c])
  <2>1. c \in Range(nodeMap[n])
    BY <1>4, <1>6
  <2>2. CASE TaskBuildFail(n) \/ TaskAborted(n)
    <3>1. answer'[c] = Failure("closed")
      BY <1>6, <2>2 DEF TaskBuildFail, TaskAborted, Close
    <3> QED
      BY <1>5, <2>1, <3>1 DEF Contract!Truthful, Failure
  <2>3. CASE TaskFinish(n)
    <3>1. answer'[c].tag \in {"ok", "failed", "closed"}
      BY <1>1, <2>1, <2>3, FinishTags
    <3>2. Settled /\ answer'[c].val # Null => answer'[c].val = c /\ c \in Range(log)
      BY <1>1, <2>1, <2>3, TaskFinishFacts
    <3>3. ~Settled => Atomic /\ changes > 0
      BY <1>1 DEF Settled
    <3>4. c # Null
      BY NullAssumption
    <3> QED
      BY <1>5, <2>1, <3>1, <3>2, <3>3, <3>4 DEF Contract!Truthful
  <2> QED
    BY <2>2, <2>3
<1>7. {c \in Commands : pc[c] = "queued"}' = {c \in Commands : pc[c] = "queued"}
  BY <1>3
<1>8. Taken' = Taken
  BY <1>3 DEF Taken, Owned
<1>9. (Range(log) \ {Null})' = Range(log) \ {Null}
  BY <1>3
<1>10. (Atomic /\ changes > 0)' = (Atomic /\ changes > 0)
  BY <1>3
<1> QED
  BY <1>2, <1>4, <1>6, <1>7, <1>8, <1>9, <1>10, SameWords DEF Contract!Tell, Contract!Tells

\* Ok is returned when all that was taken is answered.
LEMMA ReturnReturns ==
  ASSUME RInv, Return
  PROVE  Contract!Return
<1>1. /\ NoOrphan /\ OnePlace /\ ExecTypes
      /\ phase = "joining" /\ phase' = "ok"
      /\ \A n \in Nodes : task[n] \in {"none", "joined"}
      /\ UNCHANGED <<pc, discard, pending, nodeMap, log, answer, changes>>
  BY DEF RInv, IInv, TypeOK, Return, callVars, redisVars
<1>2. ContractState = "executing" /\ ContractState' = "ok"
  BY <1>1 DEF ContractState
<1>3. \A c \in Taken : answer[c] # NoAnswer
  <2> SUFFICES ASSUME NEW c \in Owned, answer[c] = NoAnswer PROVE FALSE
    BY DEF Taken
  <2>1. c \in Commands
    BY <1>1, RangeOfSeq DEF Owned, ExecTypes
  <2>2. pc[c] = "queued" /\ c \notin Range(queue)
    BY <1>1, <2>1 DEF OnePlace
  <2> QED
    BY <1>1, <2>1, <2>2 DEF NoOrphan
<1>4. {c \in Commands : pc[c] = "queued"}' = {c \in Commands : pc[c] = "queued"}
  BY <1>1
<1>5. Taken' = Taken
  BY <1>1 DEF Taken, Owned
<1>6. (Range(log) \ {Null})' = Range(log) \ {Null}
  BY <1>1
<1>7. (Atomic /\ changes > 0)' = (Atomic /\ changes > 0)
  BY <1>1
<1>8. Contract!Tells(Contract!Truthful)
  <2>1. answer \in [Commands -> Answers] /\ answer' = answer
    BY <1>1 DEF RInv, IInv, TypeOK, CallTypes
  <2> QED
    BY <2>1, SameWords DEF Contract!Tells
<1> QED
  BY <1>1, <1>2, <1>3, <1>4, <1>5, <1>6, <1>7, <1>8, SameWords
     DEF Contract!Return, Contract!Become

\* A slot moves: the replies of a transaction are not promised any more.
LEMMA ChangeMoves ==
  ASSUME RedisTypes, NEW s \in Slots, NEW n \in Nodes \cup {NoNode}, ClusterChange(s, n)
  PROVE  Contract!Move \/ UNCHANGED Contract!vars
<1>1. /\ UNCHANGED <<pc, phase, discard, pending, nodeMap, log, answer>>
      /\ changes \in Nat /\ changes' = changes + 1
  BY ConfigAssumption DEF RedisTypes, ClusterChange, callVars, execVars
<1>2. ContractState' = ContractState
  BY <1>1, SameState
<1>3. {c \in Commands : pc[c] = "queued"}' = {c \in Commands : pc[c] = "queued"}
  BY <1>1
<1>4. Taken' = Taken
  BY <1>1 DEF Taken, Owned
<1>5. (Range(log) \ {Null})' = Range(log) \ {Null}
  BY <1>1
<1>6. changes' > 0
  BY <1>1
<1>7. CASE Atomic /\ ~(changes > 0)
  BY <1>1, <1>2, <1>3, <1>4, <1>5, <1>6, <1>7 DEF Contract!Move
<1>8. CASE ~Atomic \/ changes > 0
  <2>1. (Atomic /\ changes > 0)' = (Atomic /\ changes > 0)
    BY <1>6, <1>8
  <2> QED
    BY <1>1, <1>2, <1>3, <1>4, <1>5, <2>1 DEF Contract!vars
<1> QED
  BY <1>7, <1>8

-----------------------------------------------------------------------------
\* CommandBatchService implements the contract of a batch: it is closed once,
\* by execute_async or discard_async; what it took is answered once, with the
\* caller's own reply to a command that ran or with an error; and Ok is
\* returned when all of it is answered.
THEOREM BatchImplementsContract == Spec => ImplementsContract
<1>1. Init => Contract!Init
  <2> SUFFICES ASSUME Init PROVE Contract!Init
    OBVIOUS
  <2>1. /\ phase = "idle" /\ discard = "idle" /\ pending = <<>> /\ log = <<>> /\ changes = 0
        /\ \A n \in Nodes : nodeMap[n] = <<>>
        /\ pc = [c \in Commands |-> "new"] /\ answer = [c \in Commands |-> NoAnswer]
    BY DEF Init
  <2>2. ContractState = "open"
    BY <2>1 DEF ContractState
  <2>3. Taken = {} /\ Range(log) \ {Null} = {}
    BY <2>1, RangeOfEmpty DEF Taken, Owned
  <2>4. {c \in Commands : pc[c] = "queued"} = {}
    BY <2>1
  <2>5. (Atomic /\ changes > 0) = FALSE
    BY <2>1
  <2> QED
    BY <2>1, <2>2, <2>3, <2>4, <2>5, SameWords DEF Contract!Init
<1>2. ASSUME RInv, [Next]_vars PROVE [Contract!Next]_(Contract!vars)
  <2>1. TypeOK /\ CallTypes /\ ExecTypes /\ RedisTypes /\ OneCloser
    BY <1>2 DEF RInv, IInv, TypeOK
  <2>2. ASSUME NEW c \in Commands, Call(c) PROVE [Contract!Next]_(Contract!vars)
    BY <2>1, <2>2, EnqueueAdds, FetchIndexStutters DEF Call, Contract!Next
  <2>3. ASSUME DiscardClaim \/ ExecuteClaim PROVE [Contract!Next]_(Contract!vars)
    BY <2>1, <2>3, ClaimCloses DEF Contract!Next
  <2>4. ASSUME DiscardDrain PROVE [Contract!Next]_(Contract!vars)
    BY <1>2, <2>4, DrainDiscards DEF Contract!Next
  <2>5. ASSUME Executor PROVE [Contract!Next]_(Contract!vars)
    <3>1. CASE ExecuteTake
      BY <1>2, <3>1, TakeTakes DEF Contract!Next
    <3>2. CASE Return
      BY <1>2, <3>2, ReturnReturns DEF Contract!Next
    <3>3. CASE (ResolveMiss /\ phase' = "err") \/ LoadFail \/ \E n \in Nodes : JoinFail(n)
      BY <2>1, <3>3, ErrorFails DEF Contract!Next
    <3>4. CASE \/ ResolveHit \/ (ResolveMiss /\ phase' # "err") \/ ResolveDone \/ LoadDone
               \/ Spawn \/ \E n \in Nodes : LoadSkip(n) \/ LoadSend(n) \/ Join(n)
      BY <2>1, <3>4, InnerStutters
    <3> QED
      BY <2>5, <3>1, <3>2, <3>3, <3>4 DEF Executor
  <2>6. ASSUME NEW n \in Nodes, Task(n) PROVE [Contract!Next]_(Contract!vars)
    <3>1. CASE TaskSend(n)
      BY <2>1, <3>1, InnerStutters
    <3>2. CASE RedisRun(n) \/ ConnectionLost(n)
      BY <1>2, <3>2, PipelineRuns DEF Contract!Next
    <3>3. CASE TaskBuildFail(n) \/ TaskFinish(n) \/ TaskAborted(n)
      BY <1>2, <3>3, TaskTells DEF Contract!Next
    <3> QED
      BY <2>6, <3>1, <3>2, <3>3 DEF Task
  <2>7. ASSUME Cluster PROVE [Contract!Next]_(Contract!vars)
    <3>1. ASSUME NEW s \in Slots, NEW n \in Nodes \cup {NoNode}, ClusterChange(s, n)
          PROVE  [Contract!Next]_(Contract!vars)
      BY <2>1, <3>1, ChangeMoves DEF Contract!Next
    <3>2. CASE (\E n \in Nodes : Restart(n)) \/ \E e \in Nodes \cup {NoNode} : Listener(e)
      BY <2>1, <3>2, InnerStutters
    <3> QED
      BY <2>7, <3>1, <3>2 DEF Cluster
  <2>8. ASSUME UNCHANGED vars PROVE UNCHANGED Contract!vars
    <3>1. UNCHANGED <<pc, phase, discard, pending, nodeMap, log, answer, changes>>
      BY <2>8 DEF vars, callVars, execVars, redisVars
    <3> QED
      BY <3>1, SameState, Stutter DEF Owned
  <2> QED
    BY <1>2, <2>2, <2>3, <2>4, <2>5, <2>6, <2>7, <2>8 DEF Next
<1> QED
  BY <1>1, <1>2, RefinementInvariance, PTL DEF Spec, ImplementsContract, Contract!Spec

-----------------------------------------------------------------------------
(* The outcome of a batch                                                    *)

\* The reply at the end of a transaction is that of its EXEC, and an array
\* answers every command.
Answering ==
  Atomic /\ changes = 0 =>
    \A n \in Nodes : task[n] = "replied" =>
      LET r == reply[n][Len(nodeMap[n]) + 2]
      IN  r \in Replies /\ r.tag \in {"array", "nil", "error"}
          /\ (r.tag = "array" => Len(r.items) = Len(nodeMap[n]))

\* A task that succeeded has told all its callers the same.
Verdict ==
  Settled =>
    \A n \in Nodes : task[n] \in {"ok", "joined"} =>
      /\ \A c \in Range(nodeMap[n]) : answer[c].tag \in {"ok", "failed"}
      /\ Atomic => \A c, d \in Range(nodeMap[n]) : answer[c].tag = answer[d].tag

\* From the tasks on, every command is with one.
Handed ==
  /\ phase \in {"loading", "joining", "ok"} => pending = <<>>
  /\ phase \in {"joining", "ok"} =>
       \A n \in Nodes : task[n] = "none" => nodeMap[n] = <<>>

OInv == RInv /\ Answering /\ Verdict /\ Handed

-----------------------------------------------------------------------------
\* An EXEC that answers with an array answers all of an undivided transaction.
LEMMA AnsweringRun ==
  ASSUME RInv, NEW n \in Nodes, RedisRun(n) \/ ConnectionLost(n), Atomic, changes = 0
  PROVE  LET r == reply'[n][Len(nodeMap[n]) + 2]
         IN  r \in Replies /\ r.tag \in {"array", "nil", "error"}
             /\ (r.tag = "array" => Len(r.items) = Len(nodeMap[n]))
<1> DEFINE cmds == nodeMap[n]
           l    == Len(cmds)
<1>1. /\ ExecTypes /\ TaskTypes /\ RedisTypes /\ Homed /\ SyncSlaves \in Nat
      /\ cmds \in Seq(Commands) /\ l \in Nat
  BY ConfigAssumption DEF RInv, IInv, TypeOK, ExecTypes
<1>2. CASE RedisRun(n)
  <2>1. ~Split(n)
    <3>1. ASSUME NEW i \in DOMAIN cmds, Destination(cmds[i]) # Home(n) PROVE FALSE
      <4>1. DOMAIN cmds = 1 .. l /\ l # 0 /\ Head(cmds) = cmds[1]
        BY <1>1, <3>1
      <4> QED
        BY <1>1, <3>1, <4>1 DEF Homed, Home
    <3> QED
      BY <3>1 DEF Split, Range
  <2> DEFINE all == {c \in Range(cmds) : Runnable(c)}
  <2>2. PICK r \in ExecReplies(n, Outcome(n, all)), w \in WaitReplies :
          reply' = [reply EXCEPT ![n] = Statuses(Len(cmds) + 1) \o <<r>> \o w]
    BY <1>2, <2>1 DEF RedisRun, RedisTransaction
  <2> HIDE DEF all
  <2>3. Outcome(n, all) \in Seq(Values) /\ Len(Outcome(n, all)) = l
    BY <1>1, OutcomeFacts
  <2>4. r \in Replies /\ (r.tag = "array" => r.items = Outcome(n, all))
    BY <2>2, <2>3, ExecReplyFacts
  <2>5. r.tag \in {"array", "nil", "error"}
    BY <2>2 DEF ExecReplies, ArrayReply, NilReply, ErrorReply
  <2>6. reply'[n][l + 2] = r
    BY <1>1, <2>2, <2>4, TransactionReply
  <2> QED
    BY <2>3, <2>4, <2>5, <2>6
<1>3. CASE ConnectionLost(n)
  <2> DEFINE k == l + 2 + (IF SyncSlaves > 0 THEN 1 ELSE 0)
  <2>1. reply' = [reply EXCEPT ![n] = [i \in 1 .. k |-> ErrorReply]]
    BY <1>3 DEF ConnectionLost
  <2> HIDE DEF l
  <2>2. l + 2 \in 1 .. k
    BY <1>1
  <2>3. reply'[n][l + 2] = ErrorReply
    BY <1>1, <2>1, <2>2 DEF TaskTypes
  <2> QED
    BY <2>3 DEF l, ErrorReply, Replies
<1> QED
  BY <1>2, <1>3

\* What the EXEC answered is not touched until the task reads it.
LEMMA AnsweringStep ==
  ASSUME OInv, [Next]_vars
  PROVE  Answering'
<1>1. /\ RInv /\ Answering /\ NotSpawned /\ Homed
      /\ CallTypes /\ ExecTypes /\ TaskTypes /\ RedisTypes
      /\ changes' = 0 => changes = 0
  BY RouteFrame DEF OInv, RInv, IInv, TypeOK
<1>2. ASSUME UNCHANGED <<task, nodeMap, reply>> PROVE Answering'
  BY <1>1, <1>2 DEF Answering
<1>3. ASSUME UNCHANGED core PROVE Answering'
  BY <1>2, <1>3 DEF core
<1>4. ASSUME \/ DiscardClaim \/ DiscardDrain \/ ExecuteClaim \/ ExecuteTake
             \/ ResolveMiss \/ ResolveDone \/ LoadFail \/ Return
             \/ \E n \in Nodes : JoinFail(n)
      PROVE  Answering'
  <2>1. CASE \/ DiscardClaim \/ DiscardDrain \/ ExecuteClaim \/ ResolveMiss
             \/ ResolveDone \/ LoadFail \/ Return \/ \E n \in Nodes : JoinFail(n)
    BY <1>2, <2>1 DEF DiscardClaim, DiscardDrain, ExecuteClaim, ResolveMiss,
                      ResolveDone, LoadFail, Return, JoinFail, taskVars
  <2>2. CASE ExecuteTake
    BY <1>2, <2>2 DEF ExecuteTake, taskVars
  <2> QED
    BY <1>4, <2>1, <2>2
<1>5. ASSUME ResolveHit \/ Spawn PROVE Answering'
  <2>1. \A n \in Nodes : task'[n] # "replied"
    BY <1>1, <1>5 DEF ResolveHit, Spawn, NotSpawned, NotJoined, taskVars
  <2> QED
    BY <2>1 DEF Answering
<1>6. ASSUME NEW n \in Nodes,
             Join(n) \/ TaskSend(n) \/ TaskBuildFail(n) \/ TaskFinish(n) \/ TaskAborted(n)
      PROVE  Answering'
  <2>1. /\ \A m \in Nodes \ {n} : task'[m] = task[m] /\ reply'[m] = reply[m]
        /\ task'[n] # "replied" /\ nodeMap' = nodeMap
    BY <1>1, <1>6 DEF TaskTypes, Join, TaskSend, TaskBuildFail, TaskFinish,
                      TaskAborted, execVars
  <2> QED
    BY <1>1, <2>1 DEF Answering
<1>7. ASSUME NEW n \in Nodes, RedisRun(n) \/ ConnectionLost(n) PROVE Answering'
  <2>1. /\ \A m \in Nodes \ {n} : task'[m] = task[m] /\ reply'[m] = reply[m]
        /\ nodeMap' = nodeMap
    BY <1>1, <1>7, RedisRunFacts, ConnectionLostFacts
    DEF TaskTypes, RedisRun, ConnectionLost, execVars
  <2> SUFFICES ASSUME Atomic, changes' = 0, NEW m \in Nodes, task'[m] = "replied"
               PROVE  LET r == reply'[m][Len(nodeMap[m]) + 2]
                      IN  r \in Replies /\ r.tag \in {"array", "nil", "error"}
                          /\ (r.tag = "array" => Len(r.items) = Len(nodeMap[m]))
    BY <2>1 DEF Answering
  <2>2. CASE m = n
    BY <1>1, <1>7, <2>2, AnsweringRun
  <2>3. CASE m # n
    BY <1>1, <2>1, <2>3 DEF Answering
  <2> QED
    BY <2>2, <2>3
<1> QED
  BY <1>3, <1>4, <1>5, <1>6, <1>7, Frame DEF Steps, Task

-----------------------------------------------------------------------------
\* A task that ends well tells all its callers the same.
LEMMA FinishVerdict ==
  ASSUME OInv, Settled, NEW n \in Nodes, TaskFinish(n), task'[n] = "ok"
  PROVE  /\ \A c \in Range(nodeMap[n]) : answer'[c].tag \in {"ok", "failed"}
         /\ Atomic => \A c, d \in Range(nodeMap[n]) : answer'[c].tag = answer'[d].tag
<1> DEFINE cmds    == nodeMap[n]
           results == PopWait(reply[n])
           at(c)   == CHOOSE i \in DOMAIN cmds : cmds[i] = c
           r       == reply[n][Len(cmds) + 2]
<1>1. /\ ExecTypes /\ TaskTypes /\ Aligned /\ Answering /\ task[n] = "replied"
      /\ cmds \in Seq(Commands) /\ Len(cmds) \in Nat /\ SyncSlaves \in Nat
      /\ reply[n] \in Seq(Replies)
  BY ConfigAssumption DEF OInv, RInv, IInv, TypeOK, ExecTypes, TaskTypes, TaskFinish
<1>2. \A c \in Range(cmds) : answer'[c] = TaskAnswer(results, at(c)) /\ at(c) \in 1 .. Len(cmds)
  <2> SUFFICES ASSUME NEW c \in Range(cmds)
               PROVE  answer'[c] = TaskAnswer(results, at(c)) /\ at(c) \in 1 .. Len(cmds)
    OBVIOUS
  <2>1. c \in Commands /\ \E i \in DOMAIN cmds : cmds[i] = c
    BY <1>1, RangeOfSeq DEF Range
  <2>2. DOMAIN cmds = 1 .. Len(cmds)
    BY <1>1
  <2>3. at(c) \in DOMAIN cmds
    BY <2>1
  <2> QED
    BY <2>1, <2>2, <2>3 DEF TaskFinish
<1> HIDE DEF at
<1> HIDE DEF results, r
<1>3. CASE SkipResult \/ ~Atomic
  <2>1. \A i : TaskAnswer(results, i).tag = "ok"
    BY <1>3, Zenon DEF TaskAnswer, Ok
  <2> QED
    BY <1>2, <2>1
<1>4. CASE ~SkipResult /\ Atomic
  <2>1. Len(reply[n]) = Len(cmds) + 2 + (IF SyncSlaves > 0 THEN 1 ELSE 0)
    BY <1>1, <1>4 DEF Aligned, AlignedAt, Replied
  <2>2. SE!Last(results) = r
    <3> DEFINE k == Len(cmds) + 2
    <3>1. k \in Nat /\ k > 0 /\ Len(reply[n]) = k + (IF SyncSlaves > 0 THEN 1 ELSE 0)
      BY <1>1, <2>1
    <3> HIDE DEF k
    <3>2. SE!Last(PopWait(reply[n])) = reply[n][k]
      BY <1>1, <3>1, PopWaitFacts
    <3> QED
      BY <3>2 DEF k, r, results
  <2>3. /\ r.tag \in {"array", "nil", "error"}
        /\ r.tag = "array" => Len(r.items) = Len(cmds)
    BY <1>1, <1>4 DEF Answering, Settled, r
  <2>4. \A i \in 1 .. Len(cmds) :
          ExecAnswer(r, i).tag = IF r.tag = "array" THEN "ok" ELSE "failed"
    BY <1>1, <2>3 DEF ExecAnswer, Ok, Failure
  <2>5. \A c \in Range(cmds) : answer'[c] = ExecAnswer(r, at(c))
    BY <1>2, <1>4, <2>2 DEF TaskAnswer
  <2> QED
    BY <1>2, <2>4, <2>5
<1> QED
  BY <1>3, <1>4

\* What a task that succeeded told its callers is final.
LEMMA VerdictStep ==
  ASSUME OInv, [Next]_vars
  PROVE  Verdict'
<1> SUFFICES ASSUME Settled' PROVE Verdict'
  BY DEF Verdict
<1>1. /\ RInv /\ IInv /\ OnePlace /\ NotSpawned /\ OneCloser /\ Settled
      /\ CallTypes /\ ExecTypes /\ TaskTypes /\ RedisTypes /\ Verdict
  BY RouteFrame DEF OInv, RInv, IInv, TypeOK, Settled
<1>2. ASSUME UNCHANGED <<nodeMap, answer>>,
             \A n \in Nodes : task'[n] \in {"ok", "joined"} => task[n] \in {"ok", "joined"}
      PROVE  Verdict'
  BY <1>1, <1>2 DEF Verdict
<1>3. ASSUME \A n \in Nodes : task'[n] \notin {"ok", "joined"} PROVE Verdict'
  BY <1>3 DEF Verdict
<1>4. ASSUME UNCHANGED core PROVE Verdict'
  BY <1>2, <1>4 DEF core
<1>5. ASSUME DiscardClaim \/ ExecuteClaim \/ Return \/ \E n \in Nodes : JoinFail(n)
      PROVE  Verdict'
  BY <1>2, <1>5 DEF DiscardClaim, ExecuteClaim, Return, JoinFail, callVars, taskVars
<1>6. ASSUME DiscardDrain \/ ExecuteTake PROVE Verdict'
  BY <1>1, <1>3, <1>6 DEF DiscardDrain, ExecuteTake, OneCloser, NotSpawned, NotJoined,
                          NotTaken, taskVars
<1>7. ASSUME ResolveHit \/ ResolveMiss \/ ResolveDone \/ LoadFail PROVE Verdict'
  BY <1>1, <1>3, <1>7 DEF ResolveHit, ResolveMiss, ResolveDone, LoadFail, NotSpawned,
                          NotJoined, taskVars
<1>8. ASSUME Spawn PROVE Verdict'
  BY <1>3, <1>8 DEF Spawn
<1>9. ASSUME NEW n \in Nodes, Join(n) PROVE Verdict'
  BY <1>1, <1>2, <1>9 DEF Join, TaskTypes, callVars
<1>10. ASSUME NEW n \in Nodes, Task(n) PROVE Verdict'
  <2>1. /\ \A c \in Commands : c \notin Range(nodeMap[n]) => answer'[c] = answer[c]
        /\ \A m \in Nodes \ {n} : task'[m] = task[m]
        /\ nodeMap' = nodeMap
    BY <1>1, <1>10, TaskAnswers, TaskFrame
  <2>2. ASSUME NEW m \in Nodes \ {n}, NEW c \in Range(nodeMap[m])
        PROVE  answer'[c] = answer[c]
    <3>1. c \in Commands
      BY <1>1, <2>2, RangeOfSeq DEF ExecTypes
    <3> QED
      BY <1>1, <2>1, <2>2, <3>1 DEF OnePlace
  <2>3. ASSUME task'[n] \in {"ok", "joined"}
        PROVE  /\ \A c \in Range(nodeMap[n]) : answer'[c].tag \in {"ok", "failed"}
               /\ Atomic => \A c, d \in Range(nodeMap[n]) : answer'[c].tag = answer'[d].tag
    <3>1. TaskFinish(n) /\ task'[n] = "ok"
      BY <1>1, <1>10, <2>3 DEF Task, TaskSend, TaskBuildFail, RedisRun, ConnectionLost,
                               TaskFinish, TaskAborted, TaskTypes
    <3> QED
      BY <1>1, <3>1, FinishVerdict
  <2>4. ASSUME NEW m \in Nodes, task'[m] \in {"ok", "joined"}
        PROVE  /\ \A c \in Range(nodeMap[m]) : answer'[c].tag \in {"ok", "failed"}
               /\ Atomic => \A c, d \in Range(nodeMap[m]) : answer'[c].tag = answer'[d].tag
    <3>1. CASE m = n
      BY <2>3, <2>4, <3>1
    <3>2. CASE m # n
      BY <1>1, <2>1, <2>2, <2>4, <3>2 DEF Verdict
    <3> QED
      BY <3>1, <3>2
  <2> QED
    BY <2>1, <2>4 DEF Verdict
<1> QED
  BY <1>4, <1>5, <1>6, <1>7, <1>8, <1>9, <1>10, Frame DEF Steps

\* Every node with commands gets a task.
LEMMA HandedStep ==
  ASSUME OInv, [Next]_vars
  PROVE  Handed'
<1>1. Handed /\ NotSpawned /\ Untouched /\ TaskTypes
  BY DEF OInv, RInv, IInv, TypeOK
<1>2. ASSUME UNCHANGED <<phase, pending, nodeMap>>,
             \A n \in Nodes : task'[n] = "none" => task[n] = "none"
      PROVE  Handed'
  BY <1>1, <1>2 DEF Handed
<1>3. ASSUME UNCHANGED core PROVE Handed'
  BY <1>2, <1>3 DEF core
<1>4. ASSUME DiscardClaim \/ DiscardDrain PROVE Handed'
  BY <1>2, <1>4 DEF DiscardClaim, DiscardDrain, taskVars
<1>5. ASSUME ExecuteClaim \/ ResolveHit \/ (ResolveMiss /\ phase' = "err") \/ LoadFail
             \/ \E n \in Nodes : JoinFail(n)
      PROVE  Handed'
  BY <1>5 DEF Handed, ExecuteClaim, ResolveHit, ResolveMiss, LoadFail, JoinFail
<1>6. ASSUME ResolveMiss /\ phase' # "err" PROVE Handed'
  BY <1>2, <1>6 DEF ResolveMiss, taskVars
<1>7. ASSUME ExecuteTake PROVE Handed'
  BY <1>1, <1>7 DEF Handed, ExecuteTake, Untouched, NotTaken
<1>8. ASSUME ResolveDone PROVE Handed'
  BY <1>8 DEF Handed, ResolveDone
<1>9. ASSUME Spawn PROVE Handed'
  BY <1>1, <1>9 DEF Handed, Spawn, NodesUsed
<1>10. ASSUME Return PROVE Handed'
  BY <1>1, <1>10 DEF Handed, Return, taskVars
<1>11. ASSUME NEW n \in Nodes, Join(n) PROVE Handed'
  BY <1>1, <1>2, <1>11 DEF Join, TaskTypes
<1>12. ASSUME NEW n \in Nodes, Task(n) PROVE Handed'
  <2>1. UNCHANGED <<phase, pending, nodeMap>> /\ task[n] # "none"
    BY <1>12, TaskFrame
  <2>2. \A m \in Nodes : task'[m] = "none" => task[m] = "none"
    BY <1>1, <1>12 DEF Task, TaskSend, TaskBuildFail, RedisRun, ConnectionLost,
                       TaskFinish, TaskAborted, TaskTypes
  <2> QED
    BY <1>2, <2>1, <2>2
<1> QED
  BY <1>3, <1>4, <1>5, <1>6, <1>7, <1>8, <1>9, <1>10, <1>11, <1>12, Frame DEF Steps

-----------------------------------------------------------------------------
\* The invariant holds in every reachable state.
LEMMA OutcomeInvariance == Spec => []OInv
<1>1. Init => Answering /\ Verdict /\ Handed
  BY DEF Init, Answering, Verdict, Handed
<1>2. RInv /\ Init => OInv
  BY <1>1 DEF OInv
<1>3. OInv /\ RInv' /\ [Next]_vars => OInv'
  BY AnsweringStep, VerdictStep, HandedStep DEF OInv
<1> QED
  BY <1>2, <1>3, RefinementInvariance, PTL DEF Spec

\* IN_MEMORY_ATOMIC with any number of nodes and commands: unless a slot moves,
\* the callers of one node's transaction are all told Ok or all that it failed.
THEOREM TransactionsAreAtomic == Spec => [](Settled => AtomicAllOrNothing)
<1>1. OInv => (Settled => AtomicAllOrNothing)
  BY DEF OInv, Verdict, AtomicAllOrNothing
<1> QED
  BY <1>1, OutcomeInvariance, PTL

\* Unless a slot moves under a transaction, Ok from execute_async means that
\* every command it took was answered by Redis, or by the failure of its EXEC.
THEOREM OkAnswersAll == Spec => [](Settled => OkMeansAllAnswered)
<1>1. ASSUME OInv, Settled, phase = "ok", NEW c \in Taken
      PROVE  answer[c].tag \in {"ok", "failed"}
  <2>1. /\ pending = <<>> /\ \A n \in Nodes : task[n] \in {"none", "joined"}
        /\ \A n \in Nodes : task[n] = "none" => nodeMap[n] = <<>>
    BY <1>1 DEF OInv, RInv, Handed, AllJoined
  <2>2. PICK n \in Nodes : c \in Range(nodeMap[n])
    BY <1>1, <2>1, RangeOfEmpty DEF Taken, Owned
  <2>3. task[n] = "joined"
    BY <2>1, <2>2, RangeOfEmpty
  <2> QED
    BY <1>1, <2>2, <2>3 DEF OInv, Verdict
<1>2. OInv => (Settled => OkMeansAllAnswered)
  BY <1>1 DEF OkMeansAllAnswered
<1> QED
  BY <1>2, OutcomeInvariance, PTL

-----------------------------------------------------------------------------
(* Why the order of adding is kept.                                          *)

\* In a queue, a command that was added before another call began is ahead of
\* the command of that call.
Ahead(s) == \A i, j \in DOMAIN s : s[j] \in before[s[i]] => j < i

\* The indexes that were fetched.
Fetched ==
  /\ \A c \in Commands : pc[c] = "new" => before[c] = {}
  /\ \A c \in Commands : pc[c] # "new" => idx[c] < next_index
  /\ \A c \in Commands : \A d \in before[c] : pc[d] = "queued" /\ idx[d] < idx[c]

\* Every queue keeps the order, and what is still to be grouped was not added
\* before what is grouped already.
InLine ==
  /\ Ahead(queue) /\ Ahead(pending) /\ \A n \in Nodes : Ahead(nodeMap[n])
  /\ \A n \in Nodes : \A c \in Range(nodeMap[n]), d \in Range(pending) : d \notin before[c]

\* Nothing ran before its pipeline was run.
NotRun ==
  /\ phase \in {"resolving", "loading"} => log = <<>>
  /\ \A n \in Nodes : task[n] \in {"none", "spawned", "sent"} =>
       \A c \in Range(nodeMap[n]) : c \notin Range(log)

\* What Redis ran for one node, it ran in the order of adding.
InLog ==
  \A n \in Nodes : \A c, d \in Range(nodeMap[n]) : d \in before[c] =>
    \A i, j \in DOMAIN log : log[i] = c /\ log[j] = d => j < i

KInv == RInv /\ Fetched /\ InLine /\ NotRun /\ InLog

\* Only a call that fetches its index looks at the others.
LEMMA CallFrame ==
  ASSUME [Next]_vars
  PROVE  \/ \E c \in Commands : FetchIndex(c)
         \/ UNCHANGED <<idx, before, next_index>>
<1>1. ASSUME NEW c \in Commands, Enqueue(c) PROVE UNCHANGED <<idx, before, next_index>>
  BY <1>1 DEF Enqueue
<1>2. ASSUME DiscardClaim \/ DiscardDrain \/ ExecuteClaim
      PROVE  UNCHANGED <<idx, before, next_index>>
  BY <1>2 DEF DiscardClaim, DiscardDrain, ExecuteClaim, callVars
<1>3. ASSUME Executor PROVE UNCHANGED <<idx, before, next_index>>
  BY <1>3 DEF Executor, ExecuteTake, ResolveHit, ResolveMiss, ResolveDone, LoadDone,
              LoadFail, Spawn, Return, LoadSkip, LoadSend, Join, JoinFail, callVars,
              batchVars
<1>4. ASSUME NEW n \in Nodes, Task(n) PROVE UNCHANGED <<idx, before, next_index>>
  BY <1>4 DEF Task, TaskSend, TaskBuildFail, RedisRun, ConnectionLost, TaskFinish,
              TaskAborted, callVars, batchVars
<1>5. ASSUME Cluster PROVE UNCHANGED <<idx, before, next_index>>
  BY <1>5 DEF Cluster, ClusterChange, Restart, Listener, callVars, batchVars
<1>6. ASSUME UNCHANGED vars PROVE UNCHANGED <<idx, before, next_index>>
  BY <1>6 DEF vars, callVars, batchVars
<1> QED
  BY <1>1, <1>2, <1>3, <1>4, <1>5, <1>6 DEF Next, Call

\* A call that is under way keeps its state until it queues its command.
LEMMA CallsAdvance ==
  ASSUME CallTypes, BatchTypes, [Next]_vars, UNCHANGED <<idx, before, next_index>>
  PROVE  /\ \A c \in Commands : pc[c] = "queued" => pc'[c] = "queued"
         /\ \A c \in Commands : pc'[c] = "new" <=> pc[c] = "new"
<1>1. CASE UNCHANGED pc
  BY <1>1
<1>2. ASSUME NEW d \in Commands, Enqueue(d)
      PROVE  /\ \A c \in Commands : pc[c] = "queued" => pc'[c] = "queued"
             /\ \A c \in Commands : pc'[c] = "new" <=> pc[c] = "new"
  <2>1. pc[d] = "indexed" /\ pc' = [pc EXCEPT ![d] = "queued"]
    BY <1>2 DEF Enqueue
  <2> QED
    BY <2>1 DEF CallTypes
<1>3. ASSUME NEW d \in Commands, FetchIndex(d) PROVE FALSE
  <2>1. next_index' = next_index + 1 /\ next_index \in Nat
    BY <1>3 DEF FetchIndex, BatchTypes
  <2> QED
    BY <2>1
<1>4. DiscardDrain \/ ExecuteTake \/ ResolveHit => UNCHANGED pc
  BY DEF DiscardDrain, ExecuteTake, ResolveHit, callVars
<1> QED
  BY <1>1, <1>2, <1>3, <1>4, PlaceFrame DEF Calls

\* The index a call fetches is larger than all before it.
LEMMA FetchedStep ==
  ASSUME RInv, Fetched, [Next]_vars
  PROVE  Fetched'
<1>1. CallTypes /\ BatchTypes
  BY DEF RInv, IInv, TypeOK
<1>2. ASSUME NEW d \in Commands, FetchIndex(d) PROVE Fetched'
  <2>1. /\ pc[d] = "new"
        /\ pc' = [pc EXCEPT ![d] = "indexed"]
        /\ idx' = [idx EXCEPT ![d] = next_index]
        /\ next_index' = next_index + 1
        /\ before' = [before EXCEPT ![d] = {c \in Commands : pc[c] = "queued"}]
    BY <1>2 DEF FetchIndex
  <2>2. /\ pc'[d] = "indexed" /\ idx'[d] = next_index
        /\ before'[d] = {c \in Commands : pc[c] = "queued"}
        /\ \A c \in Commands \ {d} : pc'[c] = pc[c] /\ idx'[c] = idx[c] /\ before'[c] = before[c]
        /\ next_index \in Nat /\ \A c \in Commands : idx[c] \in Nat
        /\ \A c \in Commands : before[c] \subseteq Commands
    BY <1>1, <2>1 DEF CallTypes, BatchTypes
  <2>3. \A c \in Commands : pc'[c] = "new" => before'[c] = {}
    BY <2>2 DEF Fetched
  <2>4. \A c \in Commands : pc'[c] # "new" => idx'[c] < next_index'
    BY <2>1, <2>2 DEF Fetched
  <2>5. \A c \in Commands : \A e \in before'[c] : pc'[e] = "queued" /\ idx'[e] < idx'[c]
    <3> SUFFICES ASSUME NEW c \in Commands, NEW e \in before'[c]
                 PROVE  pc'[e] = "queued" /\ idx'[e] < idx'[c]
      OBVIOUS
    <3>1. CASE c = d
      <4>1. e \in Commands /\ pc[e] = "queued" /\ e # d
        BY <2>1, <2>2, <3>1
      <4> QED
        BY <2>2, <3>1, <4>1 DEF Fetched
    <3>2. CASE c # d
      <4>1. e \in before[c] /\ e \in Commands /\ pc[e] = "queued" /\ e # d
        BY <2>1, <2>2, <3>2 DEF Fetched
      <4> QED
        BY <2>2, <3>2, <4>1 DEF Fetched
    <3> QED
      BY <3>1, <3>2
  <2> QED
    BY <2>3, <2>4, <2>5 DEF Fetched
<1>3. ASSUME UNCHANGED <<idx, before, next_index>> PROVE Fetched'
  <2>1. /\ \A c \in Commands : pc[c] = "queued" => pc'[c] = "queued"
        /\ \A c \in Commands : pc'[c] = "new" <=> pc[c] = "new"
    BY <1>1, <1>3, CallsAdvance
  <2>2. \A c \in Commands : before[c] \subseteq Commands
    BY <1>1 DEF CallTypes
  <2> QED
    BY <1>3, <2>1, <2>2 DEF Fetched
<1> QED
  BY <1>2, <1>3, CallFrame

\* Shortening and lengthening a queue keep its order.
LEMMA AheadAppend ==
  ASSUME NEW S, NEW s \in Seq(S), Ahead(s), NEW e \in S,
         e \notin before[e], \A c \in Range(s) : e \notin before[c]
  PROVE  Ahead(Append(s, e))
<1>1. /\ Len(s) \in Nat /\ DOMAIN s = 1 .. Len(s)
      /\ DOMAIN Append(s, e) = 1 .. Len(s) + 1
      /\ \A i \in 1 .. Len(s) : Append(s, e)[i] = s[i] /\ s[i] \in Range(s)
      /\ Append(s, e)[Len(s) + 1] = e
  BY DEF Range
<1> SUFFICES ASSUME NEW i \in 1 .. Len(s) + 1, NEW j \in 1 .. Len(s) + 1,
                    Append(s, e)[j] \in before[Append(s, e)[i]]
             PROVE  j < i
  BY <1>1 DEF Ahead
<1>2. CASE j = Len(s) + 1
  BY <1>1, <1>2
<1>3. CASE j # Len(s) + 1 /\ i = Len(s) + 1
  BY <1>1, <1>3
<1>4. CASE j # Len(s) + 1 /\ i # Len(s) + 1
  BY <1>1, <1>4 DEF Ahead
<1> QED
  BY <1>2, <1>3, <1>4

\* Taking the head off a queue keeps its order.
LEMMA AheadTail ==
  ASSUME NEW S, NEW s \in Seq(S), s # <<>>, Ahead(s)
  PROVE  /\ Ahead(Tail(s))
         /\ \A d \in Range(Tail(s)) : d \notin before[Head(s)]
<1>1. /\ Len(s) \in Nat /\ Len(s) # 0 /\ DOMAIN s = 1 .. Len(s) /\ Head(s) = s[1]
      /\ DOMAIN Tail(s) = 1 .. Len(s) - 1
      /\ \A i \in 1 .. Len(s) - 1 : Tail(s)[i] = s[i + 1]
  OBVIOUS
<1>2. ASSUME NEW i \in 1 .. Len(s) - 1, NEW j \in 1 .. Len(s) - 1,
             Tail(s)[j] \in before[Tail(s)[i]]
      PROVE  j < i
  BY <1>1, <1>2 DEF Ahead
<1>3. ASSUME NEW j \in 1 .. Len(s) - 1, Tail(s)[j] \in before[Head(s)]
      PROVE  FALSE
  BY <1>1, <1>3 DEF Ahead
<1>4. Ahead(Tail(s))
  BY <1>1, <1>2 DEF Ahead
<1> QED
  BY <1>1, <1>3, <1>4 DEF Range

\* Nobody was added before a call that only now fetches its index, and a call
\* that is queued now was in nobody's past.
LEMMA InLineStep ==
  ASSUME RInv, Fetched, InLine, [Next]_vars
  PROVE  InLine'
<1>1. /\ CallTypes /\ BatchTypes /\ ExecTypes /\ RedisTypes /\ Untouched /\ OnePlace
      /\ pending \in Seq(Commands) /\ queue \in Seq(Commands)
      /\ nodeMap \in [Nodes -> Seq(Commands)]
  BY DEF RInv, IInv, TypeOK, ExecTypes, BatchTypes
<1>2. \A c \in Commands : c \notin before[c] /\ before[c] \subseteq Commands
  BY <1>1 DEF Fetched, CallTypes
<1>3. /\ \A c \in Range(queue) : c \in Commands /\ pc[c] = "queued"
      /\ \A c \in Range(pending) : c \in Commands /\ pc[c] = "queued"
      /\ \A n \in Nodes : \A c \in Range(nodeMap[n]) : c \in Commands /\ pc[c] = "queued"
  BY <1>1, RangeOfSeq DEF OnePlace, Owned
<1>4. ASSUME NEW d \in Commands, FetchIndex(d) PROVE InLine'
  <2>1. /\ pc[d] = "new" /\ UNCHANGED <<queue, pending, nodeMap>>
        /\ \A c \in Commands \ {d} : before'[c] = before[c]
    BY <1>1, <1>4 DEF FetchIndex, CallTypes, execVars
  <2>2. /\ \A c \in Range(queue) : before'[c] = before[c]
        /\ \A c \in Range(pending) : before'[c] = before[c]
        /\ \A n \in Nodes : \A c \in Range(nodeMap[n]) : before'[c] = before[c]
    BY <1>3, <2>1
  <2>3. \A s : (\A c \in Range(s) : before'[c] = before[c]) /\ Ahead(s) =>
          \A i, j \in DOMAIN s : s[j] \in before'[s[i]] => j < i
    BY DEF Ahead, Range
  <2> QED
    BY <2>1, <2>2, <2>3 DEF InLine, Ahead
<1>5. ASSUME UNCHANGED <<before, queue, pending, nodeMap>> PROVE InLine'
  BY <1>5 DEF InLine, Ahead
<1>6. ASSUME UNCHANGED before, NEW d \in Commands, Enqueue(d) PROVE InLine'
  <2>1. /\ pc[d] = "indexed" /\ UNCHANGED <<pending, nodeMap>> /\ queue' = Append(queue, d)
    BY <1>6 DEF Enqueue, execVars
  <2>2. \A c \in Range(queue) : d \notin before[c]
    BY <1>3, <2>1 DEF Fetched
  <2>3. Ahead(Append(queue, d))
    BY <1>1, <1>2, <2>2, AheadAppend DEF InLine
  <2> QED
    BY <1>6, <2>1, <2>3 DEF InLine, Ahead
<1>7. ASSUME UNCHANGED before, DiscardDrain PROVE InLine'
  <2>1. queue' = <<>> /\ UNCHANGED <<pending, nodeMap>>
    BY <1>7 DEF DiscardDrain
  <2> QED
    BY <1>7, <2>1 DEF InLine, Ahead
<1>8. ASSUME UNCHANGED before, ExecuteTake PROVE InLine'
  <2>1. queue' = <<>> /\ pending' = queue
    BY <1>8 DEF ExecuteTake
  <2>2. \A n \in Nodes : nodeMap'[n] = <<>>
    BY <1>1, <1>8 DEF Untouched, NotTaken, ExecuteTake
  <2>3. Ahead(queue)'
    BY <2>1 DEF Ahead
  <2>4. Ahead(pending)'
    BY <1>8, <2>1 DEF InLine, Ahead
  <2>5. \A n \in Nodes : Ahead(nodeMap[n])' /\ Range(nodeMap'[n]) = {}
    BY <2>2, RangeOfEmpty DEF Ahead
  <2> QED
    BY <2>3, <2>4, <2>5 DEF InLine
<1>9. ASSUME UNCHANGED before, ResolveHit PROVE InLine'
  <2> DEFINE d == Head(pending)
             n == route[SlotOf[d]]
  <2>1. /\ pending # <<>> /\ pending' = Tail(pending) /\ queue' = queue
        /\ n # NoNode /\ nodeMap' = [nodeMap EXCEPT ![n] = Append(@, d)]
    BY <1>9 DEF ResolveHit, batchVars
  <2>2. d \in Commands /\ Range(pending) = {d} \cup Range(Tail(pending))
    BY <1>1, <2>1, RangeOfHeadTail
  <2>3. n \in Nodes
    BY <1>1, <2>1, <2>2, ConfigAssumption DEF RedisTypes
  <2>4. Ahead(Tail(pending)) /\ \A c \in Range(Tail(pending)) : c \notin before[d]
    BY <1>1, <2>1, AheadTail DEF InLine
  <2> HIDE DEF d, n
  <2>5. /\ nodeMap[n] \in Seq(Commands) /\ nodeMap'[n] = Append(nodeMap[n], d)
        /\ \A m \in Nodes \ {n} : nodeMap'[m] = nodeMap[m]
    BY <1>1, <2>1, <2>3
  <2>6. /\ Range(nodeMap'[n]) = Range(nodeMap[n]) \cup {d}
        /\ Ahead(Append(nodeMap[n], d))
    <3>1. \A c \in Range(nodeMap[n]) : d \notin before[c]
      BY <2>2, <2>3 DEF InLine
    <3> QED
      BY <1>2, <2>2, <2>3, <2>5, <3>1, RangeOfAppend, AheadAppend DEF InLine
  <2>7. Ahead(queue)' /\ Ahead(pending)'
    BY <1>9, <2>1, <2>4 DEF InLine, Ahead
  <2>8. ASSUME NEW m \in Nodes PROVE Ahead(nodeMap[m])'
    <3>1. CASE m = n
      BY <1>9, <2>5, <2>6, <3>1 DEF Ahead
    <3>2. CASE m # n
      BY <1>9, <2>5, <3>2 DEF InLine, Ahead
    <3> QED
      BY <3>1, <3>2
  <2>9. ASSUME NEW m \in Nodes, NEW c \in Range(nodeMap'[m]), NEW e \in Range(pending')
        PROVE  e \notin before'[c]
    <3>1. e \in Range(pending) /\ e \notin before[d]
      BY <2>1, <2>2, <2>4
    <3>2. c = d \/ c \in Range(nodeMap[m])
      BY <2>5, <2>6
    <3> QED
      BY <1>9, <3>1, <3>2 DEF InLine
  <2> QED
    BY <2>7, <2>8, <2>9 DEF InLine
<1> QED
  BY <1>4, <1>5, <1>6, <1>7, <1>8, <1>9, CallFrame, PlaceFrame DEF Calls

\* A pipeline that runs adds its commands, or refusals, in their order.
LEMMA RunAppends ==
  ASSUME ExecTypes, RedisTypes, NEW n \in Nodes, RedisRun(n) \/ ConnectionLost(n)
  PROVE  /\ Len(log) \in Nat /\ DOMAIN log = 1 .. Len(log)
         /\ \A i \in DOMAIN log' :
              \/ i \in DOMAIN log /\ log'[i] = log[i]
              \/ log'[i] = Null
              \/ /\ i \in Nat /\ i > Len(log) /\ i - Len(log) \in DOMAIN nodeMap[n]
                 /\ log'[i] = nodeMap[n][i - Len(log)]
<1>1. PICK ran : log' = log \o Outcome(n, ran)
  BY DEF RedisRun, RedisPipeline, RedisTransaction, RedisSplit, ConnectionLost
<1> DEFINE o == Outcome(n, ran)
<1>2. log \in Seq(Values) /\ o \in Seq(Values) /\ Len(o) = Len(nodeMap[n])
  BY OutcomeFacts DEF RedisTypes
<1>3. \A i \in 1 .. Len(nodeMap[n]) : o[i] # Null => o[i] = nodeMap[n][i]
  BY OutcomeFacts
<1>4. DOMAIN nodeMap[n] = 1 .. Len(nodeMap[n]) /\ Len(nodeMap[n]) \in Nat
  BY DEF ExecTypes
<1> HIDE DEF o
<1>5. /\ Len(log) \in Nat /\ DOMAIN log = 1 .. Len(log)
      /\ DOMAIN (log \o o) = 1 .. Len(log) + Len(o)
      /\ \A i \in 1 .. Len(log) : (log \o o)[i] = log[i]
      /\ \A i \in 1 .. Len(log) + Len(o) : i > Len(log) =>
           i - Len(log) \in 1 .. Len(o) /\ (log \o o)[i] = o[i - Len(log)]
  BY <1>2
<1>6. ASSUME NEW i \in DOMAIN log'
      PROVE  \/ i \in DOMAIN log /\ log'[i] = log[i]
             \/ log'[i] = Null
             \/ /\ i \in Nat /\ i > Len(log) /\ i - Len(log) \in DOMAIN nodeMap[n]
                /\ log'[i] = nodeMap[n][i - Len(log)]
  <2>1. log' = log \o o
    BY <1>1 DEF o
  <2>2. i \in 1 .. Len(log) + Len(o) /\ Len(o) \in Nat
    BY <1>2, <1>5, <2>1
  <2>3. CASE i <= Len(log)
    BY <1>5, <2>1, <2>2, <2>3
  <2>4. CASE i > Len(log)
    <3>1. i - Len(log) \in 1 .. Len(nodeMap[n]) /\ log'[i] = o[i - Len(log)]
      BY <1>2, <1>5, <2>1, <2>2, <2>4
    <3> QED
      BY <1>3, <1>4, <2>2, <2>4, <3>1
  <2> QED
    BY <1>5, <2>2, <2>3, <2>4
<1> QED
  BY <1>5, <1>6

\* Only a pipeline that runs adds to the log, and a task that has yet to run
\* its pipeline had to before.
LEMMA LogFrame ==
  ASSUME RInv, [Next]_vars
  PROVE  /\ \/ \E n \in Nodes : RedisRun(n) \/ ConnectionLost(n)
            \/ log' = log
         /\ \A n \in Nodes : task'[n] \in {"none", "spawned", "sent"} =>
              task[n] \in {"none", "spawned", "sent"}
         /\ phase' \in {"resolving", "loading"} =>
              phase \in {"claimed", "resolving", "loading"}
<1>1. NotSpawned /\ TaskTypes
  BY DEF RInv, IInv, TypeOK
<1>2. CASE UNCHANGED core
  BY <1>2 DEF core
<1>3. CASE DiscardClaim \/ DiscardDrain \/ ExecuteClaim \/ ExecuteTake \/ ResolveHit
           \/ ResolveMiss \/ ResolveDone \/ LoadFail \/ Return
           \/ \E n \in Nodes : JoinFail(n)
  BY <1>3 DEF DiscardClaim, DiscardDrain, ExecuteClaim, ExecuteTake, ResolveHit,
              ResolveMiss, ResolveDone, LoadFail, Return, JoinFail, taskVars, redisVars
<1>4. CASE Spawn
  BY <1>1, <1>4 DEF Spawn, NotSpawned, NotJoined, redisVars
<1>5. ASSUME NEW n \in Nodes, Join(n)
      PROVE  /\ log' = log /\ phase' = phase
             /\ \A m \in Nodes : task'[m] \in {"none", "spawned", "sent"} => task'[m] = task[m]
  BY <1>1, <1>5 DEF Join, TaskTypes, redisVars
<1>6. ASSUME NEW n \in Nodes, Task(n)
      PROVE  /\ \/ RedisRun(n) \/ ConnectionLost(n)
                \/ log' = log
             /\ phase' = phase
             /\ \A m \in Nodes : task'[m] \in {"none", "spawned", "sent"} =>
                  task[m] \in {"none", "spawned", "sent"}
  <2>1. \/ task' = [task EXCEPT ![n] = "sent"] /\ task[n] = "spawned"
        \/ \E t \in {"err", "replied", "ok", "dropped"} : task' = [task EXCEPT ![n] = t]
    BY <1>6 DEF Task, TaskSend, TaskBuildFail, RedisRun, ConnectionLost, TaskFinish,
                TaskAborted
  <2>2. log' = log \/ RedisRun(n) \/ ConnectionLost(n)
    BY <1>6 DEF Task, TaskSend, TaskBuildFail, TaskFinish, TaskAborted, redisVars
  <2>3. phase' = phase
    BY <1>6, TaskFrame
  <2> QED
    BY <1>1, <2>1, <2>2, <2>3 DEF TaskTypes
<1> QED
  BY <1>2, <1>3, <1>4, <1>5, <1>6, Frame DEF Steps, core

\* No step puts a command in the log whose pipeline was not run.
LEMMA NotRunStep ==
  ASSUME KInv, [Next]_vars
  PROVE  NotRun'
<1>1. /\ RInv /\ NotRun /\ OnePlace /\ Untouched /\ NotSpawned
      /\ CallTypes /\ ExecTypes /\ TaskTypes /\ RedisTypes
  BY DEF KInv, RInv, IInv, TypeOK
<1>2. phase \in {"claimed", "resolving", "loading"} => log = <<>>
  BY <1>1 DEF NotRun, Untouched, NotTaken
<1>3. ASSUME log' = log PROVE NotRun'
  <2>1. phase' \in {"resolving", "loading"} => log' = <<>>
    BY <1>1, <1>2, <1>3, LogFrame
  <2>2. ASSUME NEW n \in Nodes, task'[n] \in {"none", "spawned", "sent"},
               NEW c \in Range(nodeMap'[n])
        PROVE  c \notin Range(log')
    <3>1. task[n] \in {"none", "spawned", "sent"}
      BY <1>1, <2>2, LogFrame
    <3>2. CASE nodeMap' = nodeMap
      BY <1>1, <1>3, <2>2, <3>1, <3>2 DEF NotRun
    <3>3. CASE ExecuteTake \/ ResolveHit
      BY <1>2, <1>3, <3>3, RangeOfEmpty DEF ExecuteTake, ResolveHit
    <3>4. DiscardDrain => nodeMap' = nodeMap
      BY DEF DiscardDrain
    <3>5. UNCHANGED core => nodeMap' = nodeMap
      BY DEF core
    <3> QED
      BY <3>2, <3>3, <3>4, <3>5, PlaceFrame
  <2> QED
    BY <2>1, <2>2 DEF NotRun
<1>4. ASSUME NEW n \in Nodes, RedisRun(n) \/ ConnectionLost(n) PROVE NotRun'
  <2>1. /\ task[n] = "sent" /\ task' = [task EXCEPT ![n] = "replied"]
        /\ UNCHANGED <<phase, nodeMap>>
    BY <1>4 DEF RedisRun, ConnectionLost, execVars
  <2>2. phase' \notin {"resolving", "loading"}
    BY <1>1, <2>1 DEF NotSpawned, NotJoined
  <2>3. ASSUME NEW m \in Nodes, task'[m] \in {"none", "spawned", "sent"},
               NEW c \in Range(nodeMap'[m]), c \in Range(log')
        PROVE  FALSE
    <3>1. m # n /\ task'[m] = task[m] /\ c \in Range(nodeMap[m])
      BY <1>1, <2>1, <2>3 DEF TaskTypes
    <3>2. c \notin Range(log) /\ c # Null
      <4>1. c \in Commands
        BY <1>1, <3>1, RangeOfSeq DEF ExecTypes
      <4> QED
        BY <1>1, <2>3, <3>1, <4>1, NullAssumption DEF NotRun
    <3>3. PICK i \in DOMAIN log' : log'[i] = c
      BY <2>3 DEF Range
    <3>4. c \in Range(log) \/ c \in Range(nodeMap[n])
      BY <1>1, <1>4, <3>2, <3>3, RunAppends DEF Range
    <3> QED
      BY <1>1, <3>1, <3>2, <3>4 DEF OnePlace
  <2> QED
    BY <2>2, <2>3 DEF NotRun
<1> QED
  BY <1>1, <1>3, <1>4, LogFrame

\* Every step of the system keeps the order of the log.
LEMMA InLogStep ==
  ASSUME KInv, [Next]_vars
  PROVE  InLog'
<1>1. /\ RInv /\ Fetched /\ InLine /\ NotRun /\ InLog /\ OnePlace /\ Untouched
      /\ CallTypes /\ ExecTypes /\ TaskTypes /\ RedisTypes
  BY DEF KInv, RInv, IInv, TypeOK
<1>2. \A n \in Nodes : \A c \in Range(nodeMap[n]) : c \in Commands /\ pc[c] = "queued"
  BY <1>1, RangeOfSeq DEF OnePlace, Owned, ExecTypes
<1>3. CASE log' = <<>>
  BY <1>3 DEF InLog
<1>4. ASSUME NEW d \in Commands, FetchIndex(d) PROVE InLog'
  <2>1. /\ pc[d] = "new" /\ UNCHANGED <<nodeMap, log>>
        /\ \A c \in Commands \ {d} : before'[c] = before[c]
    BY <1>1, <1>4 DEF FetchIndex, CallTypes, execVars, redisVars
  <2>2. \A n \in Nodes : \A c \in Range(nodeMap[n]) : before'[c] = before[c]
    BY <1>2, <2>1
  <2> QED
    BY <1>1, <2>1, <2>2 DEF InLog
<1>5. CASE UNCHANGED <<before, nodeMap, log>>
  BY <1>1, <1>5 DEF InLog
<1>6. ASSUME NEW n \in Nodes, RedisRun(n) \/ ConnectionLost(n), UNCHANGED before
      PROVE  InLog'
  <2>1. task[n] = "sent" /\ nodeMap' = nodeMap
    BY <1>6 DEF RedisRun, ConnectionLost, execVars
  <2> SUFFICES ASSUME NEW m \in Nodes, NEW c \in Range(nodeMap[m]), NEW d \in Range(nodeMap[m]),
                      d \in before[c], NEW i \in DOMAIN log', NEW j \in DOMAIN log',
                      log'[i] = c, log'[j] = d
               PROVE  j < i
    BY <1>6, <2>1 DEF InLog
  <2>2. c # Null /\ d # Null
    BY <1>2, NullAssumption
  <2>3. CASE m = n
    <3>1. c \notin Range(log) /\ d \notin Range(log)
      BY <1>1, <2>1, <2>3 DEF NotRun
    <3>2. /\ Len(log) \in Nat /\ i \in Nat /\ j \in Nat
          /\ i - Len(log) \in DOMAIN nodeMap[n] /\ c = nodeMap[n][i - Len(log)]
          /\ j - Len(log) \in DOMAIN nodeMap[n] /\ d = nodeMap[n][j - Len(log)]
      BY <1>1, <1>6, <2>2, <3>1, RunAppends DEF Range
    <3>3. j - Len(log) < i - Len(log)
      BY <1>1, <3>2 DEF InLine, Ahead
    <3> QED
      BY <3>2, <3>3
  <2>4. CASE m # n
    <3>1. c \notin Range(nodeMap[n]) /\ d \notin Range(nodeMap[n])
      BY <1>1, <2>4 DEF OnePlace
    <3>2. i \in DOMAIN log /\ log[i] = c /\ j \in DOMAIN log /\ log[j] = d
      BY <1>1, <1>6, <2>2, <3>1, RunAppends DEF Range
    <3> QED
      BY <1>1, <3>2 DEF InLog
  <2> QED
    BY <2>3, <2>4
<1>7. ASSUME log' = log, UNCHANGED before PROVE InLog'
  <2>1. CASE ExecuteTake \/ ResolveHit
    <3>1. log = <<>>
      BY <1>1, <2>1 DEF ExecuteTake, ResolveHit, NotRun, Untouched, NotTaken
    <3> QED
      BY <1>3, <1>7, <3>1
  <2>2. CASE nodeMap' = nodeMap
    BY <1>5, <1>7, <2>2
  <2>3. DiscardDrain => nodeMap' = nodeMap
    BY DEF DiscardDrain
  <2>4. UNCHANGED core => nodeMap' = nodeMap
    BY DEF core
  <2> QED
    BY <2>1, <2>2, <2>3, <2>4, PlaceFrame
<1> QED
  BY <1>1, <1>4, <1>6, <1>7, CallFrame, LogFrame

\* For every cluster and every set of commands.
LEMMA OrderInvariance == Spec => []KInv
<1>1. Init => Fetched /\ InLine /\ NotRun /\ InLog
  <2> SUFFICES ASSUME Init PROVE Fetched /\ InLine /\ NotRun /\ InLog
    OBVIOUS
  <2>1. /\ \A c \in Commands : pc[c] = "new" /\ before[c] = {}
        /\ queue = <<>> /\ pending = <<>> /\ log = <<>>
        /\ \A n \in Nodes : nodeMap[n] = <<>>
    BY DEF Init
  <2> QED
    BY <2>1, RangeOfEmpty DEF Fetched, InLine, Ahead, NotRun, InLog
<1>2. RInv /\ Init => KInv
  BY <1>1 DEF KInv
<1>3. KInv /\ RInv' /\ [Next]_vars => KInv'
  BY FetchedStep, InLineStep, NotRunStep, InLogStep DEF KInv
<1> QED
  BY <1>2, <1>3, RefinementInvariance, PTL DEF Spec

\* async0 and execute_in_memory, under any failures and however slots move: a
\* command added after another call returned its place in the queue has a larger
\* index, and runs after it if both go to one node.
THEOREM OrderIsKept == Spec => []AddOrderKept
<1>1. KInv => AddOrderKept
  <2> SUFFICES ASSUME KInv, NEW c \in Commands, NEW d \in before[c]
               PROVE  /\ idx[d] < idx[c]
                      /\ \A n \in Nodes : \A i, j \in DOMAIN log :
                           log[i] = c /\ log[j] = d /\ {c, d} \subseteq Range(nodeMap[n]) => j < i
    BY DEF AddOrderKept
  <2>1. idx[d] < idx[c]
    BY DEF KInv, Fetched
  <2> QED
    BY <2>1 DEF KInv, InLog
<1> QED
  BY <1>1, OrderInvariance, PTL

-----------------------------------------------------------------------------
(* The responses of execute_async.                                           *)

\* sort_by_key: the elements in an order in which their indexes do not fall, each
\* of them once.
LEMMA SortFacts ==
  ASSUME NEW s \in Seq(Indexed)
  PROVE  \E p \in [1 .. Len(s) -> 1 .. Len(s)] :
           /\ \A i, j \in 1 .. Len(s) : i < j => p[i] # p[j] /\ s[p[i]].index <= s[p[j]].index
           /\ sort_by_index(s) = [i \in 1 .. Len(s) |-> s[p[i]].val]
<1> DEFINE n   == Len(s)
           key == [k \in 1 .. n |-> s[k].index]
           p   == [i \in 1 .. n |-> CHOOSE k \in 1 .. n : Cardinality(Upto(key, k)) = i]
<1>1. n \in Nat /\ DOMAIN s = 1 .. n /\ \A k \in 1 .. n : s[k] \in Indexed
  OBVIOUS
<1>2. \A k \in 1 .. n : s[k].index \in Nat
  BY <1>1 DEF Indexed
<1> HIDE DEF n
<1>3. key \in [1 .. n -> Nat]
  BY <1>2
<1>4. \A k \in 1 .. n : key[k] = s[k].index
  OBVIOUS
<1> HIDE DEF key
<1>5. \A k \in 1 .. n : place(s, k) = Cardinality(Upto(key, k))
  <2> SUFFICES ASSUME NEW k \in 1 .. n PROVE place(s, k) = Cardinality(Upto(key, k))
    OBVIOUS
  <2>1. {j \in DOMAIN s : \/ s[j].index < s[k].index
                          \/ s[j].index = s[k].index /\ j \leq k} = Upto(key, k)
    BY <1>1, <1>3, <1>4 DEF Upto
  <2> QED
    BY <2>1 DEF place
<1>6. \A i \in 1 .. n : p[i] \in 1 .. n /\ Cardinality(Upto(key, p[i])) = i
  BY <1>1, <1>3, PlacesAreTaken
<1>7. \A i \in 1 .. n : (CHOOSE k \in DOMAIN s : place(s, k) = i) = p[i]
  <2> SUFFICES ASSUME NEW i \in 1 .. n
               PROVE  (CHOOSE k \in DOMAIN s : place(s, k) = i) = p[i]
    OBVIOUS
  <2> DEFINE q == CHOOSE k \in 1 .. n : place(s, k) = i
  <2>1. p[i] \in 1 .. n /\ place(s, p[i]) = i
    BY <1>5, <1>6
  <2>2. q \in 1 .. n /\ place(s, q) = i
    <3> HIDE DEF p
    <3> QED
      BY <2>1
  <2>3. q = p[i]
    <3> HIDE DEF p, q
    <3>1. Cardinality(Upto(key, q)) = Cardinality(Upto(key, p[i]))
      BY <1>5, <2>1, <2>2
    <3> QED
      BY <1>1, <1>3, <2>1, <2>2, <3>1, PlacesAreTaken
  <2> QED
    BY <1>1, <2>3
<1> HIDE DEF p
<1>8. sort_by_index(s) = [i \in 1 .. n |-> s[p[i]].val]
  <2> DEFINE at(i) == CHOOSE k \in DOMAIN s : place(s, k) = i
  <2>1. sort_by_index(s) = [i \in 1 .. n |-> s[at(i)].val]
    BY DEF sort_by_index, n
  <2>2. \A i \in 1 .. n : at(i) = p[i]
    BY <1>7
  <2> HIDE DEF at
  <2> QED
    BY <2>1, <2>2
<1>9. \A i, j \in 1 .. n : i < j => p[i] # p[j] /\ s[p[i]].index <= s[p[j]].index
  <2> SUFFICES ASSUME NEW i \in 1 .. n, NEW j \in 1 .. n, i < j
               PROVE  p[i] # p[j] /\ s[p[i]].index <= s[p[j]].index
    OBVIOUS
  <2>1. Cardinality(Upto(key, p[i])) < Cardinality(Upto(key, p[j]))
    BY <1>6
  <2>2. key[p[i]] <= key[p[j]]
    BY <1>1, <1>3, <1>6, <2>1, PlacesAreTaken
  <2> QED
    BY <1>4, <1>6, <2>2
<1>10. p \in [1 .. n -> 1 .. n]
  BY <1>6 DEF p
<1> QED
  BY <1>8, <1>9, <1>10 DEF n

-----------------------------------------------------------------------------
(* Why the responses agree with what the callers were told.                  *)

\* Two calls never fetch the same index.
Unique ==
  \A c, d \in Commands : pc[c] # "new" /\ pc[d] # "new" /\ idx[c] = idx[d] => c = d

\* A pipeline holds a command once.
OnceEach == \A n \in Nodes : Distinct(nodeMap[n])

\* The callers of one node that were told Ok, and those of the nodes joined.
ToldOk(n) == {c \in Range(nodeMap[n]) : ~SkipResult /\ answer[c].tag = "ok"}
JoinedOk == {c \in Commands : \E n \in Nodes : task[n] = "joined" /\ c \in ToldOk(n)}

\* The items are those of the callers in S, each once, with these indexes and
\* answers.
Lists(items, S, index, told) ==
  /\ \A i \in DOMAIN items : \E c \in S : items[i] = [index |-> index[c], val |-> told[c].val]
  /\ \A c \in S : \E i \in DOMAIN items : items[i].index = index[c]
  /\ \A i, j \in DOMAIN items : items[i].index = items[j].index => i = j

\* What a task returned, and what was joined until now, are items of the callers.
Collected ==
  /\ \A n \in Nodes : task[n] = "ok" => Lists(done[n].indexed, ToldOk(n), idx, answer)
  /\ phase # "ok" => responses = <<>> /\ Lists(allIndexed, JoinedOk, idx, answer)

SInv == KInv /\ Handed /\ Unique /\ OnceEach /\ Collected /\ ResponsesAgree

-----------------------------------------------------------------------------
\* Nothing else of the answers matters.
LEMMA ListsFrame ==
  ASSUME NEW items, NEW S, NEW index, NEW told, NEW index2, NEW told2,
         Lists(items, S, index, told),
         \A c \in S : index2[c] = index[c] /\ told2[c] = told[c]
  PROVE  Lists(items, S, index2, told2)
<1>1. \A i \in DOMAIN items : \E c \in S : items[i] = [index |-> index2[c], val |-> told2[c].val]
  BY DEF Lists
<1>2. \A c \in S : \E i \in DOMAIN items : items[i].index = index2[c]
  BY DEF Lists
<1> QED
  BY <1>1, <1>2 DEF Lists

\* The items of two disjoint sets of callers, one after the other.
LEMMA ListsConcat ==
  ASSUME NEW s \in Seq(Indexed), NEW t \in Seq(Indexed), NEW S, NEW T, NEW index, NEW told,
         Lists(s, S, index, told), Lists(t, T, index, told),
         \A c \in S, d \in T : index[c] # index[d]
  PROVE  Lists(s \o t, S \cup T, index, told)
<1> DEFINE u == s \o t
<1>1. /\ Len(s) \in Nat /\ Len(t) \in Nat
      /\ DOMAIN s = 1 .. Len(s) /\ DOMAIN t = 1 .. Len(t)
      /\ DOMAIN u = 1 .. Len(s) + Len(t)
      /\ \A i \in 1 .. Len(s) : u[i] = s[i]
      /\ \A i \in 1 .. Len(t) : u[Len(s) + i] = t[i]
  OBVIOUS
<1>2. \A i \in DOMAIN u : \/ i \in DOMAIN s /\ u[i] = s[i]
                          \/ i - Len(s) \in DOMAIN t /\ u[i] = t[i - Len(s)]
  <2> SUFFICES ASSUME NEW i \in DOMAIN u
               PROVE  \/ i \in DOMAIN s /\ u[i] = s[i]
                      \/ i - Len(s) \in DOMAIN t /\ u[i] = t[i - Len(s)]
    OBVIOUS
  <2>1. CASE i <= Len(s)
    BY <1>1, <2>1
  <2>2. CASE ~(i <= Len(s))
    <3>1. i - Len(s) \in 1 .. Len(t) /\ Len(s) + (i - Len(s)) = i
      BY <1>1, <2>2
    <3> QED
      BY <1>1, <3>1
  <2> QED
    BY <2>1, <2>2
<1> HIDE DEF u
<1>3. \A i \in DOMAIN t : Len(s) + i \in DOMAIN u /\ u[Len(s) + i] = t[i]
  <2> SUFFICES ASSUME NEW i \in DOMAIN t
               PROVE  Len(s) + i \in DOMAIN u /\ u[Len(s) + i] = t[i]
    OBVIOUS
  <2>1. i \in 1 .. Len(t)
    BY <1>1
  <2>2. Len(s) + i \in 1 .. Len(s) + Len(t)
    BY <1>1, <2>1
  <2> QED
    BY <1>1, <2>1, <2>2
<1>4. \A i \in DOMAIN s : i \in DOMAIN u /\ u[i] = s[i]
  BY <1>1
<1>5. ASSUME NEW i \in DOMAIN u
      PROVE  \E c \in S \cup T : u[i] = [index |-> index[c], val |-> told[c].val]
  <2>1. \A j \in DOMAIN s : \E c \in S : s[j] = [index |-> index[c], val |-> told[c].val]
    BY DEF Lists
  <2>2. \A j \in DOMAIN t : \E c \in T : t[j] = [index |-> index[c], val |-> told[c].val]
    BY DEF Lists
  <2>3. CASE i \in DOMAIN s /\ u[i] = s[i]
    BY <2>1, <2>3
  <2>4. CASE i - Len(s) \in DOMAIN t /\ u[i] = t[i - Len(s)]
    BY <2>2, <2>4
  <2> QED
    BY <1>2, <2>3, <2>4
<1>6. ASSUME NEW c \in S \cup T
      PROVE  \E i \in DOMAIN u : u[i].index = index[c]
  BY <1>3, <1>4 DEF Lists
<1>7. \A i \in DOMAIN s : \E c \in S : s[i].index = index[c]
  BY DEF Lists
<1>8. \A i \in DOMAIN t : \E c \in T : t[i].index = index[c]
  BY DEF Lists
<1>9. ASSUME NEW i \in DOMAIN u, NEW j \in DOMAIN u, u[i].index = u[j].index
      PROVE  i = j
  <2>1. i \in Int /\ j \in Int
    BY <1>1
  <2>2. CASE i \in DOMAIN s /\ u[i] = s[i]
    <3>1. ~(j - Len(s) \in DOMAIN t /\ u[j] = t[j - Len(s)])
      BY <1>7, <1>8, <1>9, <2>2
    <3>2. j \in DOMAIN s /\ u[j] = s[j]
      BY <1>2, <3>1
    <3> QED
      BY <1>9, <2>2, <3>2 DEF Lists
  <2>3. CASE i - Len(s) \in DOMAIN t /\ u[i] = t[i - Len(s)]
    <3>1. ~(j \in DOMAIN s /\ u[j] = s[j])
      BY <1>7, <1>8, <1>9, <2>3
    <3>2. j - Len(s) \in DOMAIN t /\ u[j] = t[j - Len(s)]
      BY <1>2, <3>1
    <3>3. i - Len(s) = j - Len(s)
      BY <1>9, <2>3, <3>2 DEF Lists
    <3> QED
      BY <1>1, <2>1, <3>3
  <2> QED
    BY <1>2, <2>2, <2>3
<1> QED
  BY <1>5, <1>6, <1>9 DEF Lists, u

\* What a list of responses has to do with the callers in S.
Agrees(S, index, told, list) ==
  \E s \in [1 .. Cardinality(S) -> S] :
    /\ \A i, j \in 1 .. Cardinality(S) : i < j => index[s[i]] < index[s[j]]
    /\ list = [i \in 1 .. Cardinality(S) |-> told[s[i]].val]

\* Sorted, the items of some callers agree with what these were told.
LEMMA SortedListsAgree ==
  ASSUME NEW items \in Seq(Indexed), NEW S, NEW index, NEW told,
         Lists(items, S, index, told),
         \A c, d \in S : index[c] = index[d] => c = d
  PROVE  Agrees(S, index, told, sort_by_index(items))
<1> DEFINE n    == Len(items)
           by   == [i \in 1 .. n |->
                      CHOOSE c \in S : items[i] = [index |-> index[c], val |-> told[c].val]]
<1>1. /\ n \in Nat /\ DOMAIN items = 1 .. n
      /\ \A i \in 1 .. n : items[i].index \in Nat
  <2>1. n \in Nat /\ DOMAIN items = 1 .. n /\ \A i \in 1 .. n : items[i] \in Indexed
    OBVIOUS
  <2> QED
    BY <2>1 DEF Indexed
<1> HIDE DEF n
<1>2. \A i \in 1 .. n : /\ by[i] \in S
                        /\ items[i] = [index |-> index[by[i]], val |-> told[by[i]].val]
  BY <1>1 DEF Lists
<1>3. by \in [1 .. n -> S]
  BY <1>2
<1> HIDE DEF by
<1>4. \A i \in 1 .. n : items[i].index = index[by[i]] /\ items[i].val = told[by[i]].val
  <2> SUFFICES ASSUME NEW i \in 1 .. n
               PROVE  items[i].index = index[by[i]] /\ items[i].val = told[by[i]].val
    OBVIOUS
  <2>1. items[i] = [index |-> index[by[i]], val |-> told[by[i]].val]
    BY <1>2
  <2> QED
    BY <2>1
<1>5. \A i, j \in 1 .. n : items[i].index = items[j].index => i = j
  BY <1>1 DEF Lists
<1>6. \A c \in S : \E i \in 1 .. n : items[i].index = index[c]
  BY <1>1 DEF Lists
<1>7. by \in Injection(1 .. n, S)
  <2>1. \A i, j \in 1 .. n : by[i] = by[j] => i = j
    BY <1>4, <1>5
  <2> QED
    BY <1>3, <2>1 DEF Injection, IsInjective
<1>8. by \in Surjection(1 .. n, S)
  <2>1. ASSUME NEW c \in S PROVE \E i \in 1 .. n : by[i] = c
    <3>1. PICK i \in 1 .. n : items[i].index = index[c]
      BY <1>6
    <3>2. index[by[i]] = index[c] /\ by[i] \in S
      BY <1>2, <1>4, <3>1
    <3>3. by[i] = c
      BY <3>2
    <3> QED
      BY <3>3
  <2> QED
    BY <1>3, <2>1 DEF Surjection
<1>9. Cardinality(S) = n
  <2>1. ExistsBijection(1 .. n, S)
    BY <1>7, <1>8 DEF Bijection, ExistsBijection
  <2> QED
    BY <1>1, <2>1, FS_CountingElements
<1>10. PICK p \in [1 .. n -> 1 .. n] :
        /\ \A i, j \in 1 .. n : i < j => p[i] # p[j] /\ items[p[i]].index <= items[p[j]].index
        /\ sort_by_index(items) = [i \in 1 .. n |-> items[p[i]].val]
  BY SortFacts DEF n
<1> DEFINE s == [i \in 1 .. n |-> by[p[i]]]
<1>11. \A i \in 1 .. n : p[i] \in 1 .. n /\ s[i] = by[p[i]] /\ s[i] \in S
  BY <1>2
<1>12. s \in [1 .. n -> S]
  BY <1>11
<1> HIDE DEF s
<1>13. ASSUME NEW i \in 1 .. n, NEW j \in 1 .. n, i < j
       PROVE  index[s[i]] < index[s[j]]
  <2>1. p[i] # p[j] /\ items[p[i]].index <= items[p[j]].index
    BY <1>10, <1>13
  <2>2. items[p[i]].index # items[p[j]].index
    BY <1>11, <1>5, <2>1
  <2> QED
    <3>1. /\ items[p[i]].index \in Nat /\ items[p[j]].index \in Nat
          /\ items[p[i]].index = index[s[i]] /\ items[p[j]].index = index[s[j]]
      BY <1>1, <1>4, <1>11
    <3> QED
      BY <2>1, <2>2, <3>1
<1>14. sort_by_index(items) = [i \in 1 .. n |-> told[s[i]].val]
  BY <1>4, <1>10, <1>11
<1> QED
  BY <1>9, <1>12, <1>13, <1>14 DEF Agrees

-----------------------------------------------------------------------------
\* Indexes come of one counter.
LEMMA UniqueStep ==
  ASSUME KInv, Unique, [Next]_vars
  PROVE  Unique'
<1>1. CallTypes /\ BatchTypes /\ Fetched
  BY DEF KInv, RInv, IInv, TypeOK
<1>2. ASSUME NEW d \in Commands, FetchIndex(d) PROVE Unique'
  <2>1. /\ pc[d] = "new"
        /\ pc' = [pc EXCEPT ![d] = "indexed"]
        /\ idx' = [idx EXCEPT ![d] = next_index]
    BY <1>2 DEF FetchIndex
  <2>2. /\ idx'[d] = next_index /\ next_index \in Nat
        /\ \A c \in Commands \ {d} : pc'[c] = pc[c] /\ idx'[c] = idx[c]
        /\ \A c \in Commands : idx[c] \in Nat
    BY <1>1, <2>1 DEF CallTypes, BatchTypes
  <2>3. \A c \in Commands \ {d} : pc'[c] # "new" => idx'[c] # next_index
    BY <1>1, <2>2 DEF Fetched
  <2> SUFFICES ASSUME NEW c \in Commands, NEW e \in Commands,
                      pc'[c] # "new", pc'[e] # "new", idx'[c] = idx'[e]
               PROVE  c = e
    BY DEF Unique
  <2> QED
    BY <2>2, <2>3 DEF Unique
<1>3. ASSUME UNCHANGED <<idx, before, next_index>> PROVE Unique'
  BY <1>1, <1>3, CallsAdvance DEF Unique
<1> QED
  BY <1>2, <1>3, CallFrame

\* A command is put into a pipeline when it leaves the list of those to resolve.
LEMMA OnceEachStep ==
  ASSUME RInv, OnceEach, [Next]_vars
  PROVE  OnceEach'
<1>1. ExecTypes /\ RedisTypes /\ OnePlace /\ Untouched
  BY DEF RInv, IInv, TypeOK
<1>2. ASSUME UNCHANGED nodeMap PROVE OnceEach'
  BY <1>2 DEF OnceEach
<1>3. DiscardDrain \/ ExecuteTake => UNCHANGED nodeMap
  BY DEF DiscardDrain, ExecuteTake, execVars
<1>4. ASSUME ResolveHit PROVE OnceEach'
  <2> DEFINE d == Head(pending)
             n == route[SlotOf[d]]
  <2>1. /\ pending # <<>> /\ n # NoNode
        /\ nodeMap' = [nodeMap EXCEPT ![n] = Append(@, d)]
    BY <1>4 DEF ResolveHit
  <2>2. d \in Commands /\ d \in Range(pending)
    BY <1>1, <2>1, RangeOfHeadTail DEF ExecTypes
  <2>3. n \in Nodes
    BY <1>1, <2>1, <2>2, ConfigAssumption DEF RedisTypes
  <2> HIDE DEF d, n
  <2>4. /\ nodeMap[n] \in Seq(Commands) /\ d \notin Range(nodeMap[n])
        /\ nodeMap'[n] = Append(nodeMap[n], d)
        /\ \A m \in Nodes \ {n} : nodeMap'[m] = nodeMap[m]
    BY <1>1, <2>1, <2>2, <2>3 DEF ExecTypes, OnePlace
  <2>5. Distinct(nodeMap'[n])
    BY <2>2, <2>3, <2>4, DistinctAppend DEF OnceEach
  <2> QED
    BY <2>4, <2>5 DEF OnceEach
<1> QED
  BY <1>2, <1>3, <1>4, PlaceFrame DEF core

\* Only tasks and the join loop handle items, only the return makes responses.
LEMMA ItemFrame ==
  ASSUME [Next]_vars
  PROVE  \/ UNCHANGED <<done, allIndexed, responses>>
         \/ Return
         \/ \E n \in Nodes : Join(n) \/ TaskFinish(n)
<1>1. ASSUME NEW c \in Commands, Call(c) PROVE UNCHANGED <<done, allIndexed, responses>>
  BY <1>1 DEF Call, FetchIndex, Enqueue, execVars, taskVars
<1>2. ASSUME DiscardClaim \/ DiscardDrain \/ ExecuteClaim
      PROVE  UNCHANGED <<done, allIndexed, responses>>
  BY <1>2 DEF DiscardClaim, DiscardDrain, ExecuteClaim, execVars, taskVars
<1>3. ASSUME Executor, ~Return, \A n \in Nodes : ~Join(n)
      PROVE  UNCHANGED <<done, allIndexed, responses>>
  BY <1>3 DEF Executor, ExecuteTake, ResolveHit, ResolveMiss, ResolveDone, LoadDone,
              LoadFail, Spawn, LoadSkip, LoadSend, JoinFail, taskVars
<1>4. ASSUME NEW n \in Nodes, Task(n), ~TaskFinish(n)
      PROVE  UNCHANGED <<done, allIndexed, responses>>
  BY <1>4 DEF Task, TaskSend, TaskBuildFail, RedisRun, ConnectionLost, TaskAborted, execVars
<1>5. ASSUME Cluster PROVE UNCHANGED <<done, allIndexed, responses>>
  BY <1>5 DEF Cluster, ClusterChange, Restart, Listener, execVars, taskVars
<1>6. ASSUME UNCHANGED vars PROVE UNCHANGED <<done, allIndexed, responses>>
  BY <1>6 DEF vars, execVars, taskVars
<1> QED
  BY <1>1, <1>2, <1>3, <1>4, <1>5, <1>6 DEF Next

\* The callers of pipelines keep their index.
LEMMA IndexKept ==
  ASSUME KInv, [Next]_vars, NEW c \in Owned
  PROVE  c \in Commands /\ idx'[c] = idx[c]
<1>1. c \in Commands /\ pc[c] = "queued"
  BY RangeOfSeq DEF KInv, RInv, IInv, TypeOK, ExecTypes, OnePlace, Owned
<1>2. ASSUME NEW d \in Commands, FetchIndex(d) PROVE idx'[c] = idx[c]
  <2>1. pc[d] = "new" /\ idx' = [idx EXCEPT ![d] = next_index]
    BY <1>2 DEF FetchIndex
  <2> QED
    BY <1>1, <2>1 DEF KInv, RInv, IInv, TypeOK, CallTypes
<1> QED
  BY <1>1, <1>2, CallFrame

\* What a task makes of the replies: an item for every command it tells Ok.
LEMMA ItemsOfTask ==
  ASSUME NEW results \in Seq(Replies), NEW indexes \in Seq(Nat), ~SkipResult,
         Atomic => SE!Last(results) \in Replies
  PROVE  \E m \in 0 .. Len(indexes) :
           /\ DOMAIN TaskIndexed(results, indexes) = 1 .. m
           /\ \A i \in 1 .. m :
                /\ TaskIndexed(results, indexes)[i] =
                     [index |-> indexes[i], val |-> TaskAnswer(results, i).val]
                /\ TaskAnswer(results, i).tag = "ok"
           /\ \A i \in 1 .. Len(indexes) : i > m => TaskAnswer(results, i).tag # "ok"
<1> DEFINE l == Len(indexes)
<1>1. l \in Nat
  OBVIOUS
<1>2. CASE ~Atomic
  <2>1. TaskIndexed(results, indexes) =
          [i \in 1 .. l |-> [index |-> indexes[i], val |-> unwrap_or_null(results[i])]]
    BY <1>2 DEF TaskIndexed
  <2>2. \A i : TaskAnswer(results, i) = Ok(unwrap_or_null(results[i]))
    BY <1>2 DEF TaskAnswer
  <2>3. \A i : TaskAnswer(results, i).tag = "ok"
               /\ TaskAnswer(results, i).val = unwrap_or_null(results[i])
    <3>1. \A v : Ok(v).tag = "ok" /\ Ok(v).val = v
      BY DEF Ok
    <3> QED
      BY <2>2, <3>1
  <2> HIDE DEF l
  <2>4. l \in 0 .. l /\ \A i \in 1 .. l : ~(i > l)
    BY <1>1
  <2> QED
    BY <2>1, <2>3, <2>4 DEF l
<1>3. CASE Atomic
  <2> DEFINE r == SE!Last(results)
  <2>1. /\ TaskIndexed(results, indexes) = collect_exec_indexed(r, indexes)
        /\ \A i : TaskAnswer(results, i) = ExecAnswer(r, i)
        /\ r \in Replies
    BY <1>3 DEF TaskIndexed, TaskAnswer
  <2> HIDE DEF r
  <2>2. CASE r.tag = "array"
    <3> DEFINE k == Len(r.items)
               m == IF l <= k THEN l ELSE k
    <3>1. r.items \in Seq(Values)
      BY <2>1, <2>2 DEF Replies
    <3>2. k \in Nat
      BY <3>1
    <3>3. collect_exec_indexed(r, indexes) =
            [i \in 1 .. m |-> [index |-> indexes[i], val |-> r.items[i]]]
      BY <2>2 DEF collect_exec_indexed
    <3>4. \A i : ExecAnswer(r, i) = IF i <= k THEN Ok(r.items[i]) ELSE Failure("closed")
      BY <2>2 DEF ExecAnswer
    <3> HIDE DEF l, k
    <3>5. m \in 0 .. l /\ (\A i \in 1 .. m : i <= k) /\ \A i \in 1 .. l : i > m => ~(i <= k)
      BY <1>1, <3>2
    <3> HIDE DEF m
    <3>6. \A i \in 1 .. m : TaskAnswer(results, i).tag = "ok"
                            /\ TaskAnswer(results, i).val = r.items[i]
      BY <2>1, <3>4, <3>5 DEF Ok
    <3>7. \A i \in 1 .. l : i > m => TaskAnswer(results, i).tag # "ok"
      BY <2>1, <3>4, <3>5 DEF Failure
    <3>8. DOMAIN TaskIndexed(results, indexes) = 1 .. m
      BY <2>1, <3>3
    <3>9. \A i \in 1 .. m : TaskIndexed(results, indexes)[i] =
                              [index |-> indexes[i], val |-> TaskAnswer(results, i).val]
      BY <2>1, <3>3, <3>6
    <3> QED
      BY <3>5, <3>6, <3>7, <3>8, <3>9 DEF l
  <2>3. CASE r.tag # "array"
    <3>1. TaskIndexed(results, indexes) = <<>>
      BY <2>1, <2>3 DEF collect_exec_indexed
    <3>2. \A i : TaskAnswer(results, i).tag # "ok"
      BY <2>1, <2>3 DEF ExecAnswer, Failure
    <3>3. DOMAIN TaskIndexed(results, indexes) = 1 .. 0
      BY <3>1
    <3>4. 0 \in 0 .. l /\ \A i : i \notin 1 .. 0
      BY <1>1
    <3> QED
      BY <3>2, <3>3, <3>4
  <2> QED
    BY <2>2, <2>3
<1> QED
  BY <1>2, <1>3

\* A task that ends well returns the items of the callers it tells Ok.
LEMMA FinishLists ==
  ASSUME RInv, OnceEach, Unique, NEW n \in Nodes, TaskFinish(n)
  PROVE  Lists(done'[n].indexed, ToldOk(n)', idx, answer')
<1> DEFINE cmds    == nodeMap[n]
           results == PopWait(reply[n])
           indexes == [i \in DOMAIN cmds |-> idx[cmds[i]]]
           at(c)   == CHOOSE i \in DOMAIN cmds : cmds[i] = c
           items   == TaskIndexed(results, indexes)
<1>1. /\ cmds \in Seq(Commands) /\ Len(cmds) \in Nat /\ DOMAIN cmds = 1 .. Len(cmds)
      /\ reply[n] \in Seq(Replies) /\ Distinct(cmds)
      /\ AlignedAt(n) /\ CallTypes /\ TaskTypes /\ nodeMap' = nodeMap
      /\ SyncSlaves \in Nat /\ Replied(n) \in Nat /\ Replied(n) >= Len(cmds)
      /\ Atomic => Replied(n) > 0
  BY ConfigAssumption DEF RInv, IInv, TypeOK, ExecTypes, TaskTypes, Aligned, TaskFinish,
                          Replied, OnceEach, execVars
<1>2. /\ results \in Seq(Replies)
      /\ \A i \in 1 .. Replied(n) : reply[n][i] \in Replies
      /\ Replied(n) > 0 => SE!Last(results) = reply[n][Replied(n)]
  BY <1>1, PopWaitFacts DEF AlignedAt
<1>3. Atomic => SE!Last(results) \in Replies
  BY <1>1, <1>2
<1>4. indexes \in Seq(Nat) /\ Len(indexes) = Len(cmds)
      /\ \A i \in 1 .. Len(cmds) : indexes[i] = idx[cmds[i]]
  BY <1>1 DEF CallTypes
<1>5. done'[n].indexed = items
  BY <1>1 DEF TaskFinish, TaskTypes
<1>6. ASSUME NEW c \in Range(cmds)
      PROVE  /\ c \in Commands /\ at(c) \in 1 .. Len(cmds) /\ cmds[at(c)] = c
             /\ answer'[c] = TaskAnswer(results, at(c))
  <2>1. \E i \in DOMAIN cmds : cmds[i] = c
    BY DEF Range
  <2>2. at(c) \in DOMAIN cmds /\ cmds[at(c)] = c
    BY <2>1
  <2>3. c \in Commands
    BY <1>1, RangeOfSeq
  <2>4. answer'[c] = TaskAnswer(results, at(c))
    BY <2>3 DEF TaskFinish
  <2> QED
    BY <1>1, <2>2, <2>3, <2>4
<1>7. \A c \in Range(cmds) : pc[c] = "queued"
  <2>1. \A c \in Range(cmds) : c \in Commands /\ c \in Owned
    BY <1>1, RangeOfSeq DEF Owned
  <2> QED
    BY <2>1 DEF RInv, OnePlace
<1> HIDE DEF results, indexes, at
<1>8. \A i \in 1 .. Len(cmds) : cmds[i] \in Range(cmds) /\ at(cmds[i]) = i
  <2> SUFFICES ASSUME NEW i \in 1 .. Len(cmds)
               PROVE  cmds[i] \in Range(cmds) /\ at(cmds[i]) = i
    OBVIOUS
  <2>1. cmds[i] \in Range(cmds)
    BY <1>1 DEF Range
  <2> QED
    BY <1>1, <1>6, <2>1 DEF Distinct
<1>9. ToldOk(n)' = {c \in Range(cmds) : ~SkipResult /\ answer'[c].tag = "ok"}
  BY <1>1 DEF ToldOk
<1>10. CASE SkipResult
  <2>1. ToldOk(n)' = {} /\ items = <<>>
    BY <1>9, <1>10 DEF TaskIndexed
  <2>2. DOMAIN <<>> = {}
    OBVIOUS
  <2> QED
    BY <1>5, <2>1, <2>2, Zenon DEF Lists
<1>11. CASE ~SkipResult
  <2>1. PICK m \in 0 .. Len(cmds) :
          /\ DOMAIN items = 1 .. m
          /\ \A i \in 1 .. m :
               /\ items[i] = [index |-> indexes[i], val |-> TaskAnswer(results, i).val]
               /\ TaskAnswer(results, i).tag = "ok"
          /\ \A i \in 1 .. Len(cmds) : i > m => TaskAnswer(results, i).tag # "ok"
    BY <1>2, <1>3, <1>4, <1>11, ItemsOfTask
  <2>2. \A i \in 1 .. m : i \in 1 .. Len(cmds)
    BY <1>1
  <2> HIDE DEF items, cmds
  <2>3. ASSUME NEW i \in 1 .. m
        PROVE  /\ cmds[i] \in ToldOk(n)'
               /\ items[i] = [index |-> idx[cmds[i]], val |-> answer'[cmds[i]].val]
    <3>1. answer'[cmds[i]] = TaskAnswer(results, i) /\ cmds[i] \in Range(cmds)
      BY <1>6, <1>8, <2>2
    <3> QED
      BY <1>4, <1>9, <1>11, <2>1, <2>2, <3>1
  <2>4. ASSUME NEW c \in ToldOk(n)'
        PROVE  at(c) \in 1 .. m /\ items[at(c)].index = idx[c]
    <3>1. /\ c \in Range(cmds) /\ answer'[c].tag = "ok"
          /\ at(c) \in 1 .. Len(cmds) /\ cmds[at(c)] = c
          /\ answer'[c] = TaskAnswer(results, at(c))
      BY <1>6, <1>9
    <3>2. at(c) \in 1 .. m
      BY <1>1, <2>1, <3>1
    <3>3. items[at(c)] = [index |-> idx[c], val |-> answer'[c].val]
      BY <2>3, <3>1, <3>2
    <3> QED
      BY <3>2, <3>3
  <2>5. ASSUME NEW i \in 1 .. m, NEW j \in 1 .. m, items[i].index = items[j].index
        PROVE  i = j
    <3>1. /\ items[i] = [index |-> idx[cmds[i]], val |-> answer'[cmds[i]].val]
          /\ items[j] = [index |-> idx[cmds[j]], val |-> answer'[cmds[j]].val]
      BY <2>3
    <3>2. idx[cmds[i]] = idx[cmds[j]]
      BY <2>5, <3>1
    <3>3. /\ cmds[i] \in Commands /\ pc[cmds[i]] = "queued"
          /\ cmds[j] \in Commands /\ pc[cmds[j]] = "queued"
      BY <1>6, <1>8, <1>7, <2>2
    <3>4. cmds[i] = cmds[j]
      BY <3>2, <3>3 DEF Unique
    <3> QED
      BY <1>1, <2>2, <3>4 DEF Distinct
  <2> QED
    BY <1>5, <2>1, <2>3, <2>4, <2>5 DEF Lists
<1> QED
  BY <1>10, <1>11

\* Whom a node told Ok does not change while its callers keep their answers.
LEMMA ToldFrame ==
  ASSUME NEW n, nodeMap'[n] = nodeMap[n],
         \A c \in Range(nodeMap[n]) : idx'[c] = idx[c] /\ answer'[c] = answer[c]
  PROVE  /\ ToldOk(n)' = ToldOk(n)
         /\ \A c \in ToldOk(n) : idx'[c] = idx[c] /\ answer'[c] = answer[c]
BY DEF ToldOk

\* A step that joins nothing keeps what is collected, if the tasks that are done
\* keep their output and, like the nodes joined, their callers.  Only the task
\* of m may have finished.
LEMMA CollectedFrame ==
  ASSUME Collected, phase' # "ok" => phase # "ok", UNCHANGED <<allIndexed, responses>>,
         \A n \in Nodes : task'[n] = "joined" <=> task[n] = "joined",
         NEW m,
         \A n \in Nodes \ {m} : task'[n] = "ok" => task[n] = "ok" /\ done'[n] = done[n],
         \A n \in Nodes : task'[n] = "joined" \/ (n # m /\ task'[n] = "ok") =>
           /\ nodeMap'[n] = nodeMap[n]
           /\ \A c \in Range(nodeMap[n]) : idx'[c] = idx[c] /\ answer'[c] = answer[c],
         m \in Nodes /\ task'[m] = "ok" =>
           Lists(done'[m].indexed, ToldOk(m)', idx', answer')
  PROVE  Collected'
<1>1. ASSUME NEW n \in Nodes, task'[n] = "ok"
      PROVE  Lists(done'[n].indexed, ToldOk(n)', idx', answer')
  <2>1. CASE n = m
    BY <1>1, <2>1
  <2>2. CASE n # m
    <3>1. /\ Lists(done[n].indexed, ToldOk(n), idx, answer) /\ done'[n] = done[n]
          /\ nodeMap'[n] = nodeMap[n]
          /\ \A c \in Range(nodeMap[n]) : idx'[c] = idx[c] /\ answer'[c] = answer[c]
      BY <1>1, <2>2 DEF Collected
    <3>2. /\ ToldOk(n)' = ToldOk(n)
          /\ \A c \in ToldOk(n) : idx'[c] = idx[c] /\ answer'[c] = answer[c]
      BY <3>1, ToldFrame
    <3> QED
      BY <3>1, <3>2, ListsFrame
  <2> QED
    BY <2>1, <2>2
<1>2. ASSUME phase' # "ok"
      PROVE  responses' = <<>> /\ Lists(allIndexed', JoinedOk', idx', answer')
  <2>1. responses = <<>> /\ Lists(allIndexed, JoinedOk, idx, answer)
    BY <1>2 DEF Collected
  <2>2. \A n \in Nodes : task[n] = "joined" =>
          /\ ToldOk(n)' = ToldOk(n)
          /\ \A c \in ToldOk(n) : idx'[c] = idx[c] /\ answer'[c] = answer[c]
    BY ToldFrame
  <2>3. JoinedOk' = JoinedOk
    BY <2>2 DEF JoinedOk
  <2>4. \A c \in JoinedOk : idx'[c] = idx[c] /\ answer'[c] = answer[c]
    BY <2>2 DEF JoinedOk
  <2> QED
    BY <2>1, <2>3, <2>4, ListsFrame
<1> QED
  BY <1>1, <1>2 DEF Collected

\* Joining the task of a node takes over its items.
LEMMA JoinCollects ==
  ASSUME KInv, Unique, Collected, NEW n \in Nodes, Join(n)
  PROVE  Collected'
<1>1. /\ ExecTypes /\ TaskTypes /\ OnePlace
      /\ phase = "joining" /\ phase' = "joining" /\ task[n] = "ok"
      /\ task'[n] = "joined" /\ \A m \in Nodes \ {n} : task'[m] = task[m] /\ done'[m] = done[m]
      /\ allIndexed' = allIndexed \o done[n].indexed
      /\ UNCHANGED <<idx, answer, nodeMap, responses>>
  BY DEF KInv, RInv, IInv, TypeOK, Join, callVars, TaskTypes
<1>2. \A m \in Nodes : ToldOk(m)' = ToldOk(m)
  BY <1>1 DEF ToldOk
<1>3. \A m \in Nodes : ToldOk(m) \subseteq Commands
  BY <1>1, RangeOfSeq DEF ToldOk, ExecTypes
<1>4. JoinedOk' = JoinedOk \cup ToldOk(n)
  BY <1>1, <1>2, <1>3 DEF JoinedOk
<1>5. /\ responses = <<>>
      /\ Lists(allIndexed, JoinedOk, idx, answer)
      /\ Lists(done[n].indexed, ToldOk(n), idx, answer)
  BY <1>1 DEF Collected
<1>6. allIndexed \in Seq(Indexed) /\ done[n].indexed \in Seq(Indexed)
  <2>1. done[n] \in [synced : Nat, indexed : Seq(Indexed)]
    BY <1>1 DEF TaskTypes
  <2> QED
    BY <1>1, <2>1 DEF ExecTypes
<1>7. ASSUME NEW c \in JoinedOk, NEW d \in ToldOk(n) PROVE idx[c] # idx[d]
  <2>1. PICK m \in Nodes : task[m] = "joined" /\ c \in Range(nodeMap[m])
    BY <1>7 DEF JoinedOk, ToldOk
  <2>2. m # n /\ d \in Range(nodeMap[n])
    BY <1>1, <1>7, <2>1 DEF ToldOk
  <2>3. c # d /\ c \in Commands /\ d \in Commands /\ pc[c] = "queued" /\ pc[d] = "queued"
    BY <1>1, <2>1, <2>2, RangeOfSeq DEF OnePlace, Owned, ExecTypes
  <2> QED
    BY <2>3 DEF Unique
<1>8. Lists(allIndexed \o done[n].indexed, JoinedOk \cup ToldOk(n), idx, answer)
  BY <1>5, <1>6, <1>7, ListsConcat
<1>9. ASSUME NEW m \in Nodes, task'[m] = "ok"
      PROVE  Lists(done'[m].indexed, ToldOk(m)', idx', answer')
  <2>1. m # n /\ task[m] = "ok" /\ done'[m] = done[m]
    BY <1>1, <1>9
  <2>2. Lists(done[m].indexed, ToldOk(m), idx, answer)
    BY <2>1 DEF Collected
  <2> QED
    BY <1>1, <1>2, <2>1, <2>2
<1>10. responses' = <<>> /\ Lists(allIndexed', JoinedOk', idx', answer')
  BY <1>1, <1>4, <1>5, <1>8
<1> QED
  BY <1>9, <1>10 DEF Collected

\* No step loses or changes an item of a caller that was told Ok.
LEMMA CollectedStep ==
  ASSUME KInv, Unique, OnceEach, Collected, [Next]_vars
  PROVE  Collected'
<1>1. /\ RInv /\ IInv /\ OnePlace /\ NotSpawned /\ OneCloser /\ NoNode \notin Nodes
      /\ ExecTypes /\ TaskTypes
  BY ConfigAssumption DEF KInv, RInv, IInv, TypeOK
<1>2. \A n \in Nodes : \A c \in Range(nodeMap[n]) : c \in Commands /\ idx'[c] = idx[c]
  BY IndexKept DEF Owned
<1>3. ASSUME UNCHANGED <<task, nodeMap, answer, done, allIndexed, responses>>,
             phase' # "ok" => phase # "ok"
      PROVE  Collected'
  BY <1>1, <1>2, <1>3, CollectedFrame
<1>4. ASSUME \A n \in Nodes : task[n] # "joined" /\ task'[n] \notin {"ok", "joined"},
             UNCHANGED <<allIndexed, responses>>, phase' # "ok" => phase # "ok"
      PROVE  Collected'
  BY <1>1, <1>4, CollectedFrame
<1>5. CASE UNCHANGED core
  <2>1. UNCHANGED <<done, allIndexed, responses>>
    <3>1. ~Return
      BY <1>5 DEF Return, core
    <3>2. ASSUME NEW n \in Nodes PROVE ~Join(n) /\ ~TaskFinish(n)
      <4>1. task' = task
        BY <1>5 DEF core
      <4>2. Join(n) \/ TaskFinish(n) => task'[n] # task[n]
        BY <1>1 DEF Join, TaskFinish, TaskTypes
      <4> QED
        BY <4>1, <4>2
    <3> QED
      BY <3>1, <3>2, ItemFrame
  <2> QED
    BY <1>3, <1>5, <2>1 DEF core
<1>6. CASE DiscardClaim \/ ExecuteClaim
  BY <1>3, <1>6 DEF DiscardClaim, ExecuteClaim, callVars, taskVars
<1>7. CASE DiscardDrain \/ ExecuteTake
  <2>1. \A n \in Nodes : task[n] = "none"
    BY <1>1, <1>7 DEF DiscardDrain, ExecuteTake, OneCloser, NotSpawned, NotJoined, NotTaken
  <2>2. task' = task /\ UNCHANGED <<allIndexed, responses>> /\ (phase' # "ok" => phase # "ok")
    BY <1>7 DEF DiscardDrain, ExecuteTake, taskVars
  <2> QED
    BY <1>4, <2>1, <2>2
<1>8. CASE ResolveHit \/ ResolveMiss \/ ResolveDone \/ LoadFail \/ Spawn
  <2>1. /\ phase \in NotJoined /\ phase # "ok" /\ UNCHANGED <<allIndexed, responses>>
        /\ \/ task' = task
           \/ \A n \in Nodes : task'[n] \in {"spawned", "none"}
    BY <1>8 DEF ResolveHit, ResolveMiss, ResolveDone, LoadFail, Spawn, NotJoined, taskVars
  <2>2. \A n \in Nodes : task[n] = "none"
    BY <1>1, <2>1 DEF NotSpawned
  <2> QED
    BY <1>4, <2>1, <2>2
<1>9. CASE Return
  BY <1>1, <1>2, <1>9 DEF Return, Collected, taskVars
<1>10. ASSUME NEW n \in Nodes, JoinFail(n) PROVE Collected'
  BY <1>3, <1>10 DEF JoinFail, callVars, taskVars
<1>11. ASSUME NEW n \in Nodes, Join(n) PROVE Collected'
  BY <1>11, JoinCollects
<1>12. ASSUME NEW n \in Nodes, Task(n) PROVE Collected'
  <2>1. /\ \A c \in Commands : c \notin Range(nodeMap[n]) => answer'[c] = answer[c]
        /\ \A m \in Nodes \ {n} : task'[m] = task[m]
        /\ UNCHANGED <<phase, nodeMap>>
        /\ task[n] \in {"spawned", "sent", "replied"}
    BY <1>1, <1>12, TaskAnswers, TaskFrame
  <2>2. /\ UNCHANGED <<allIndexed, responses>> /\ task'[n] # "joined"
        /\ \A m \in Nodes \ {n} : done'[m] = done[m]
        /\ task'[n] = "ok" => TaskFinish(n)
    BY <1>1, <1>12 DEF Task, TaskSend, TaskBuildFail, RedisRun, ConnectionLost,
                       TaskFinish, TaskAborted, TaskTypes, execVars
  <2>3. ASSUME NEW m \in Nodes \ {n}, NEW c \in Range(nodeMap[m])
        PROVE  answer'[c] = answer[c]
    BY <1>1, <1>2, <2>1, <2>3 DEF OnePlace
  <2>4. ASSUME task'[n] = "ok" PROVE Lists(done'[n].indexed, ToldOk(n)', idx', answer')
    <3>1. TaskFinish(n) /\ idx' = idx
      BY <2>2, <2>4 DEF TaskFinish
    <3> QED
      BY <1>1, <3>1, FinishLists
  <2> QED
    BY <1>2, <2>1, <2>2, <2>3, <2>4, CollectedFrame
<1> QED
  BY <1>5, <1>6, <1>7, <1>8, <1>9, <1>10, <1>11, <1>12, Frame DEF Steps, core

\* All that execute_async took and that was told Ok.
AllTold == {c \in Taken : ~SkipResult /\ answer[c].tag = "ok"}

\* ResponsesAgree, now and after a step, speaks of what was told.
LEMMA AgreesIs ==
  /\ ResponsesAgree <=> (phase = "ok" => Agrees(AllTold, idx, answer, responses))
  /\ ResponsesAgree' <=> (phase' = "ok" => Agrees(AllTold', idx', answer', responses'))
BY DEF ResponsesAgree, Agrees, AllTold, Taken, BatchResult

\* Nothing else of the answers matters here either.
LEMMA AgreesFrame ==
  ASSUME NEW S, NEW index, NEW told, NEW list, NEW index2, NEW told2,
         Agrees(S, index, told, list),
         \A c \in S : index2[c] = index[c] /\ told2[c] = told[c]
  PROVE  Agrees(S, index2, told2, list)
<1> DEFINE n == Cardinality(S)
<1>1. PICK s \in [1 .. n -> S] :
        /\ \A i, j \in 1 .. n : i < j => index[s[i]] < index[s[j]]
        /\ list = [i \in 1 .. n |-> told[s[i]].val]
  BY DEF Agrees
<1> HIDE DEF n
<1>2. \A i \in 1 .. n : s[i] \in S
  OBVIOUS
<1>3. \A i, j \in 1 .. n : i < j => index2[s[i]] < index2[s[j]]
  BY <1>1, <1>2
<1>4. list = [i \in 1 .. n |-> told2[s[i]].val]
  BY <1>1, <1>2
<1> QED
  BY <1>3, <1>4 DEF Agrees, n

\* Nobody and no responses.
LEMMA NobodyAgrees ==
  ASSUME NEW index, NEW told
  PROVE  Agrees({}, index, told, <<>>)
<1>1. Cardinality({}) = 0 /\ 1 .. 0 = {}
  BY FS_EmptySet
<1>2. <<>> \in [{} -> {}] /\ <<>> = [i \in {} |-> told[<<>>[i]].val]
  OBVIOUS
<1> QED
  BY <1>1, <1>2 DEF Agrees

\* At the return the nodes joined are all those with callers.
LEMMA AgreeStep ==
  ASSUME SInv, [Next]_vars
  PROVE  ResponsesAgree'
<1>1. /\ KInv /\ RInv /\ IInv /\ OnePlace /\ AllJoined /\ OneCloser /\ Handed /\ Unique
      /\ Collected /\ ResponsesAgree /\ ExecTypes /\ BatchTypes /\ Untouched
  BY DEF SInv, KInv, RInv, IInv, TypeOK
<1> SUFFICES ASSUME phase' = "ok"
             PROVE  Agrees(AllTold', idx', answer', responses')
  BY AgreesIs
<1>2. \A c \in Owned : c \in Commands /\ idx'[c] = idx[c]
  BY <1>1, IndexKept
<1>3. ASSUME phase = "ok", UNCHANGED <<answer, pending, nodeMap, responses>>
      PROVE  Agrees(AllTold', idx', answer', responses')
  <2>1. AllTold' = AllTold /\ AllTold \subseteq Owned
    BY <1>3 DEF AllTold, Taken, Owned
  <2>2. Agrees(AllTold, idx, answer, responses)
    BY <1>1, <1>3, AgreesIs
  <2> QED
    BY <1>2, <1>3, <2>1, <2>2, AgreesFrame
<1>4. CASE UNCHANGED core
  <2>1. phase = "ok" /\ UNCHANGED <<answer, pending, nodeMap>>
    BY <1>4 DEF core
  <2>2. UNCHANGED responses
    <3>1. ~Return /\ \A n \in Nodes : ~Join(n) /\ ~TaskFinish(n)
      BY <1>1, <2>1 DEF Return, Join, TaskFinish, AllJoined
    <3> QED
      BY <3>1, ItemFrame
  <2> QED
    BY <1>3, <2>1, <2>2
<1>5. CASE DiscardClaim
  BY <1>3, <1>5 DEF DiscardClaim, callVars
<1>6. CASE DiscardDrain
  BY <1>1, <1>6 DEF DiscardDrain, OneCloser
<1>7. CASE ExecuteTake
  <2>1. Owned' = {}
    <3>1. queue = <<>>
      BY <1>7 DEF ExecuteTake
    <3> QED
      BY <1>1, <1>7, <3>1, ExecuteTakeOwned, RangeOfEmpty
  <2>2. AllTold' = {}
    BY <2>1 DEF AllTold, Taken
  <2>3. responses' = <<>>
    BY <1>1, <1>7 DEF ExecuteTake, Collected
  <2> QED
    BY <2>2, <2>3, NobodyAgrees
<1>8. CASE Return
  <2>1. /\ phase = "joining" /\ \A n \in Nodes : task[n] \in {"none", "joined"}
        /\ responses' = sort_by_index(allIndexed)
        /\ UNCHANGED <<idx, answer, pending, nodeMap>>
    BY <1>8 DEF Return, callVars
  <2>2. pending = <<>> /\ \A n \in Nodes : task[n] = "none" => nodeMap[n] = <<>>
    BY <1>1, <2>1 DEF Handed
  <2>3. ASSUME NEW c PROVE c \in Owned <=> \E n \in Nodes : task[n] = "joined" /\ c \in Range(nodeMap[n])
    BY <2>1, <2>2, RangeOfEmpty DEF Owned
  <2>4. AllTold' = AllTold
    BY <2>1 DEF AllTold, Taken, Owned
  <2>5. AllTold = JoinedOk
    BY <1>2, <2>3 DEF AllTold, Taken, JoinedOk, ToldOk
  <2>6. Lists(allIndexed, JoinedOk, idx, answer) /\ allIndexed \in Seq(Indexed)
    BY <1>1, <2>1 DEF Collected, ExecTypes
  <2>7. \A c, d \in JoinedOk : idx[c] = idx[d] => c = d
    BY <1>1 DEF JoinedOk, ToldOk, OnePlace, Owned, Unique
  <2>8. Agrees(JoinedOk, idx, answer, sort_by_index(allIndexed))
    BY <2>6, <2>7, SortedListsAgree
  <2> QED
    BY <2>1, <2>4, <2>5, <2>8
<1>9. CASE ExecuteClaim \/ ResolveHit \/ ResolveMiss \/ ResolveDone \/ LoadFail \/ Spawn
           \/ \E n \in Nodes : Join(n) \/ JoinFail(n)
  BY <1>9 DEF ExecuteClaim, ResolveHit, ResolveMiss, ResolveDone, LoadFail, Spawn, Join,
              JoinFail
<1>10. ASSUME NEW n \in Nodes, Task(n) PROVE FALSE
  BY <1>1, <1>10, TaskFrame DEF AllJoined
<1> QED
  BY <1>4, <1>5, <1>6, <1>7, <1>8, <1>9, <1>10, Frame DEF Steps, core

\* For every cluster, every set of commands and every option.
LEMMA ResponseInvariance == Spec => []SInv
<1>1. Init => Unique /\ OnceEach /\ Collected /\ ResponsesAgree
  <2> SUFFICES ASSUME Init PROVE Unique /\ OnceEach /\ Collected /\ ResponsesAgree
    OBVIOUS
  <2>1. /\ \A c \in Commands : pc[c] = "new"
        /\ \A n \in Nodes : nodeMap[n] = <<>> /\ task[n] = "none"
        /\ phase = "idle" /\ responses = <<>> /\ allIndexed = <<>>
    BY DEF Init
  <2>2. JoinedOk = {}
    BY <2>1 DEF JoinedOk
  <2>3. Lists(<<>>, {}, idx, answer)
    BY DEF Lists
  <2> QED
    BY <2>1, <2>2, <2>3, EmptyDistinct DEF Unique, OnceEach, Collected, ResponsesAgree
<1>2. KInv /\ OInv /\ Init => SInv
  BY <1>1 DEF SInv, OInv
<1>3. SInv /\ KInv' /\ OInv' /\ [Next]_vars => SInv'
  BY UniqueStep, OnceEachStep, CollectedStep, AgreeStep DEF SInv, KInv, OInv
<1> QED
  BY <1>2, <1>3, OrderInvariance, OutcomeInvariance, PTL DEF Spec

\* When execute_async returns Ok, its response list is, in index order, what the
\* callers it answered with Ok were told, whichever task was joined first.
THEOREM ResponsesAreTrue == Spec => []ResponsesAgree
<1>1. SInv => ResponsesAgree
  BY DEF SInv
<1> QED
  BY <1>1, ResponseInvariance, PTL
=============================================================================
