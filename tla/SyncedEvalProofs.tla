-------------------------- MODULE SyncedEvalProofs ---------------------------
(***************************************************************************)
(* What holds of SyncedEval for every set of calls, scripts, slots and     *)
(* nodes, whatever is lost, loaded, moved and restarted.  Most of it       *)
(* follows from where a call can be while its batch is where it is         *)
(* (Stage), from the single probe (ProbeInv) and from counting runs        *)
(* against lost replies (Counted).                                         *)
(***************************************************************************)
EXTENDS ExecutorScenes, FiniteSetTheorems, TLAPS

-----------------------------------------------------------------------------
(* The inductive invariant                                                   *)

Places ==
  {"new", "probe", "probing", "replicas", "informed", "batch", "executing",
   "sending", "checking", "waiting", "eval", "load", "retry", "done"}

ProgressTypes ==
  /\ pc \in [Calls -> Places]
  /\ kind \in [Calls -> Kinds \cup {"none"}]
  /\ result \in [Calls -> {"none", "ok", "null", "lost", "noscript", "unsynced"}]
  /\ left \in [Calls -> 1 .. CommandAttempts]
  /\ handle \in [Calls -> {"none", "spawned", "queued", "taken", "ok", "null",
                           "aborted"}]
  /\ at \in [Calls -> Nodes \cup {NoNode}]
  /\ entry \in [Calls -> Nodes \cup {NoNode}]
  /\ home \in [Slots -> Nodes]
  /\ route \in [Slots -> Nodes \cup {NoNode}]

ReplicaTypes ==
  /\ slaves \in [Nodes -> 0 .. MaxSlaves]
  /\ info \in [Calls -> Infos]
  /\ synced \in [Calls -> 0 .. MaxSlaves]
  /\ acked \in [Calls -> 0 .. MaxSlaves]
  /\ DOMAIN slaveInfo \subseteq Nodes
  /\ \A n \in DOMAIN slaveInfo : slaveInfo[n] \in Infos

ScriptTypes ==
  /\ cached \in [Nodes -> SUBSET Scripts]
  /\ loaded \in [Nodes -> SUBSET Scripts]
  /\ restarts \in [Nodes -> Nat]
  /\ seen \in [Calls -> Nat]

RunTypes == runs \in [Calls -> Nat] /\ losses \in Nat

\* One call at a time probes, and only until a probe has succeeded.
ProbeInv ==
  /\ prober = {c \in Calls : pc[c] = "probing"}
  /\ prober = {} \/ \E c \in Calls : prober = {c}
  /\ probed \in BOOLEAN
  /\ prober # {} => ~probed
  /\ wait_support \subseteq {"WAIT", "WAITAOF"}

\* The places of a call that has no batch.
Alone ==
  {"new", "probe", "probing", "replicas", "informed", "batch", "eval", "load",
   "retry"}

\* The task that adds the script is there as long as the batch is; nothing is
\* returned before the end; and who goes beyond the probe knows its result.
Stage(c) ==
  /\ pc[c] \in Alone => handle[c] = "none"
  /\ pc[c] \in {"executing", "sending", "checking", "waiting"} => handle[c] # "none"
  /\ pc[c] = "sending" <=> handle[c] = "taken"
  /\ handle[c] \in {"ok", "null"} => pc[c] \in {"checking", "waiting", "done"}
  /\ pc[c] # "done" => result[c] = "none"
  /\ pc[c] \in {"replicas", "informed", "batch"} \/ handle[c] # "none" => probed

\* Every run but the last was lost.
Counted(c) ==
  /\ runs[c] \leq 1 + losses
  /\ pc[c] \notin {"checking", "waiting", "done"} => runs[c] \leq losses
  /\ c \in NoRetry /\ handle[c] = "none" =>
       left[c] = 1 /\ runs[c] \leq 1 /\ (pc[c] # "done" => runs[c] = 0)

\* After SCRIPT LOAD the node that the options name has the script until it
\* restarts.
Found(c) ==
  pc[c] = "retry" /\ at[c] # NoNode =>
    /\ seen[c] \leq restarts[at[c]]
    /\ restarts[at[c]] = seen[c] => ScriptOf[c] \in loaded[at[c]]

\* A batch that ended well has run the script; if its WAIT did not go astray, the
\* replicas it counted have confirmed that run; and check_lock_synced_slaves was
\* satisfied before the result is looked at.
Confirmed(c) ==
  /\ handle[c] = "ok" => runs[c] > 0 /\ (c \notin astray => acked[c] = synced[c])
  /\ pc[c] = "waiting" => ~Unsynced(c)
  /\ result[c] = "ok" /\ Batched(c) => handle[c] = "ok" /\ ~Unsynced(c)

\* Why a call may fail with NOSCRIPT.
Reason(c) ==
  at[c] = NoNode \/ at[c] # Home(c) \/ restarts[at[c]] > seen[c]

IInv ==
  /\ ProgressTypes /\ ReplicaTypes /\ ProbeInv /\ ScriptTypes /\ RunTypes
  /\ \A c \in Calls : Stage(c) /\ Counted(c) /\ Found(c) /\ Confirmed(c)

-----------------------------------------------------------------------------
(* Every step keeps it.                                                      *)

\* A call is always at one of its places, its attempts stay in bounds, and nodes
\* own the slots.
LEMMA ProgressStep ==
  ASSUME ConfigAssumption, ProgressTypes, Next
  PROVE  ProgressTypes'
<1>1. ASSUME NEW c \in Calls,
             Start(c) \/ ProbeKnown(c) \/ ProbeStart(c) \/ ProbeDone(c) \/
             ProbeFail(c)
      PROVE  ProgressTypes'
  BY <1>1
    DEF Start, Enter, Goto, redisVars, routeVars, ProbeKnown, Proceed,
        ProbeStart, placeVars, ProbeDone, ProbeFail, Return, Lose, RedisKeeps,
        ProgressTypes, Places, ConfigAssumption
<1>2. ASSUME NEW c \in Calls,
             SlavesCached(c) \/ QueryInfo(c) \/ CacheInfo(c) \/ QueryFail(c)
      PROVE  ProgressTypes'
  BY <1>2
    DEF SlavesCached, Choose, Enter, Goto, redisVars, routeVars, QueryInfo,
        placeVars, CacheInfo, QueryFail, Return, Lose, RedisKeeps,
        ProgressTypes, Places, ConfigAssumption
<1>3. ASSUME NEW c \in Calls,
             SpawnAdd(c) \/ Add(c) \/ Take(c) \/ Resolve(c) \/ BatchLoad(c) \/
             BatchFail(c) \/ BatchRun(c) \/ BatchLost(c) \/ Check(c) \/
             AwaitAdd(c)
      PROVE  ProgressTypes'
  BY <1>3
    DEF SpawnAdd, Goto, placeVars, redisVars, routeVars, Add, Take, Resolve,
        BatchLoad, callVars, BatchFail, Return, Lose, RedisKeeps, BatchRun,
        BatchLost, Check, AwaitAdd, ProgressTypes, Places, ConfigAssumption
<1>4. ASSUME NEW c \in Calls,
             EvalUnknown(c) \/ EvalRun(c) \/ EvalMissing(c) \/ EvalLost(c) \/
             LoadScript(c) \/ LoadLost(c)
      PROVE  ProgressTypes'
  BY <1>4
    DEF EvalUnknown, Evaluating, placeVars, redisVars, routeVars, EvalRun,
        Return, Goto, EvalMissing, EvalLost, Lose, RedisKeeps, LoadScript,
        LoadLost, Attempts, ProgressTypes, Places, ConfigAssumption
<1>5. ASSUME NEW n \in Nodes, Restart(n) PROVE ProgressTypes'
  BY <1>5
    DEF Restart, callVars, placeVars, routeVars, ProgressTypes, Places,
        ConfigAssumption
<1>6. ASSUME NEW n \in Nodes, NEW k \in 0 .. MaxSlaves, SlavesChange(n, k)
      PROVE  ProgressTypes'
  BY <1>6
    DEF SlavesChange, callVars, placeVars, routeVars, ProgressTypes, Places,
        ConfigAssumption
<1>7. ASSUME NEW s \in Slots, Refresh(s) PROVE ProgressTypes'
  BY <1>7
    DEF Refresh, callVars, placeVars, ProgressTypes, Places, ConfigAssumption
<1>8. ASSUME NEW s \in Slots, NEW n \in Nodes, Move(s, n) PROVE ProgressTypes'
  BY <1>8 DEF Move, callVars, placeVars, ProgressTypes, Places, ConfigAssumption
<1>9. ASSUME NEW e \in Nodes \cup {Anywhere}, Listener(e) PROVE ProgressTypes'
  BY <1>9
    DEF Listener, callVars, placeVars, routeVars, ProgressTypes, Places,
        ConfigAssumption
<1> QED
  BY <1>1, <1>2, <1>3, <1>4, <1>5, <1>6, <1>7, <1>8, <1>9
    DEF Next, Step, SyncedCall, EvalCall

\* What is known of replicas, and what they answered, stays in bounds.
LEMMA ReplicaStep ==
  ASSUME ConfigAssumption, ProgressTypes, ReplicaTypes, Next
  PROVE  ReplicaTypes'
<1>1. ASSUME NEW c \in Calls,
             Start(c) \/ ProbeKnown(c) \/ ProbeStart(c) \/ ProbeDone(c) \/
             ProbeFail(c)
      PROVE  ReplicaTypes'
  BY <1>1
    DEF Start, Enter, Goto, cacheVars, redisVars, histVars, ProbeKnown, Proceed,
        ProbeStart, ProbeDone, ProbeFail, Return, Lose, RedisKeeps,
        ReplicaTypes, Infos, ProgressTypes, ConfigAssumption
<1>2. ASSUME NEW c \in Calls, QueryFail(c) PROVE ReplicaTypes'
  BY <1>2
    DEF QueryFail, Return, Goto, Lose, RedisKeeps, cacheVars, histVars,
        ReplicaTypes, Infos, ProgressTypes, ConfigAssumption
<1>3. ASSUME NEW c \in Calls, SlavesCached(c) PROVE ReplicaTypes'
  BY <1>3
    DEF SlavesCached, Choose, Enter, Goto, cacheVars, redisVars, histVars,
        ReplicaTypes, Infos, ProgressTypes, ConfigAssumption
<1>4. ASSUME NEW c \in Calls, QueryInfo(c) PROVE ReplicaTypes'
  BY <1>4
    DEF QueryInfo, Goto, cacheVars, redisVars, histVars, Reached, ReplicaTypes,
        Infos, ProgressTypes, ConfigAssumption
<1>5. ASSUME NEW c \in Calls, CacheInfo(c) PROVE ReplicaTypes'
  BY <1>5
    DEF CacheInfo, Choose, Enter, Goto, redisVars, histVars, Insert,
        ReplicaTypes, Infos, ProgressTypes, ConfigAssumption
<1>6. ASSUME NEW c \in Calls,
             SpawnAdd(c) \/ Add(c) \/ Take(c) \/ Resolve(c) \/ BatchLoad(c) \/
             BatchFail(c) \/ BatchLost(c) \/ AwaitAdd(c)
      PROVE  ReplicaTypes'
  BY <1>6
    DEF SpawnAdd, Goto, cacheVars, redisVars, histVars, Add, Take, Resolve,
        BatchLoad, callVars, BatchFail, Return, Lose, RedisKeeps, BatchLost,
        AwaitAdd, ReplicaTypes, Infos, ProgressTypes, ConfigAssumption
<1>7. ASSUME NEW c \in Calls, BatchRun(c) PROVE ReplicaTypes'
  BY <1>7
    DEF BatchRun, Goto, cacheVars, redisVars, ReplicaTypes, Infos,
        ProgressTypes, ConfigAssumption
<1>8. ASSUME NEW c \in Calls, Check(c) PROVE ReplicaTypes'
  BY <1>8
    DEF Check, Goto, Return, redisVars, histVars, Restrict, ReplicaTypes, Infos,
        ProgressTypes, ConfigAssumption
<1>9. ASSUME NEW c \in Calls,
             EvalUnknown(c) \/ EvalRun(c) \/ EvalMissing(c) \/ EvalLost(c) \/
             LoadScript(c) \/ LoadLost(c)
      PROVE  ReplicaTypes'
  BY <1>9
    DEF EvalUnknown, Evaluating, redisVars, histVars, EvalRun, Return, Goto,
        cacheVars, EvalMissing, EvalLost, Lose, RedisKeeps, LoadScript,
        LoadLost, ReplicaTypes, Infos, ProgressTypes, ConfigAssumption
<1>10. ASSUME NEW n \in Nodes, Restart(n) PROVE ReplicaTypes'
  BY <1>10
    DEF Restart, callVars, cacheVars, histVars, ReplicaTypes, Infos,
        ProgressTypes, ConfigAssumption
<1>11. ASSUME NEW n \in Nodes, NEW k \in 0 .. MaxSlaves, SlavesChange(n, k)
       PROVE  ReplicaTypes'
  BY <1>11
    DEF SlavesChange, callVars, cacheVars, histVars, ReplicaTypes, Infos,
        ProgressTypes, ConfigAssumption
<1>12. ASSUME NEW s \in Slots, Refresh(s) PROVE ReplicaTypes'
  BY <1>12
    DEF Refresh, callVars, cacheVars, histVars, ReplicaTypes, Infos,
        ProgressTypes, ConfigAssumption
<1>13. ASSUME NEW s \in Slots, NEW n \in Nodes, Move(s, n) PROVE ReplicaTypes'
  BY <1>13
    DEF Move, callVars, cacheVars, histVars, ReplicaTypes, Infos, ProgressTypes,
        ConfigAssumption
<1>14. ASSUME NEW e \in Nodes \cup {Anywhere}, Listener(e) PROVE ReplicaTypes'
  BY <1>14
    DEF Listener, callVars, histVars, Restrict, ReplicaTypes, Infos,
        ProgressTypes, ConfigAssumption
<1> QED
  BY <1>1, <1>2, <1>3, <1>4, <1>5, <1>6, <1>7, <1>8, <1>9, <1>10, <1>11, <1>12,
     <1>13, <1>14
    DEF Next, Step, SyncedCall, EvalCall

\* The mutex of the probe has one owner, and its result is stored once.
LEMMA ProbeStep ==
  ASSUME ProgressTypes, ProbeInv, Next
  PROVE  ProbeInv'
<1>1. ASSUME NEW c \in Calls, Start(c) PROVE ProbeInv'
  BY <1>1 DEF Start, Enter, Goto, probeVars, ProbeInv, ProgressTypes
<1>2. ASSUME NEW c \in Calls, ProbeKnown(c) PROVE ProbeInv'
  BY <1>2
    DEF ProbeKnown, Proceed, Enter, Goto, probeVars, ProbeInv, ProgressTypes
<1>3. ASSUME NEW c \in Calls, ProbeStart(c) PROVE ProbeInv'
  BY <1>3 DEF ProbeStart, Goto, ProbeInv, ProgressTypes
<1>4. ASSUME NEW c \in Calls, ProbeDone(c) PROVE ProbeInv'
  BY <1>4 DEF ProbeDone, Proceed, Enter, Goto, ProbeInv, ProgressTypes
<1>5. ASSUME NEW c \in Calls, ProbeFail(c) PROVE ProbeInv'
  BY <1>5 DEF ProbeFail, Return, Goto, Lose, RedisKeeps, ProbeInv, ProgressTypes
<1>6. ASSUME NEW c \in Calls,
             SlavesCached(c) \/ QueryInfo(c) \/ CacheInfo(c) \/ QueryFail(c)
      PROVE  ProbeInv'
  BY <1>6
    DEF SlavesCached, Choose, Enter, Goto, probeVars, QueryInfo, CacheInfo,
        QueryFail, Return, Lose, RedisKeeps, ProbeInv, ProgressTypes
<1>7. ASSUME NEW c \in Calls,
             SpawnAdd(c) \/ Add(c) \/ Take(c) \/ Resolve(c) \/ BatchLoad(c) \/
             BatchFail(c) \/ BatchRun(c) \/ BatchLost(c) \/ Check(c) \/
             AwaitAdd(c)
      PROVE  ProbeInv'
  BY <1>7
    DEF SpawnAdd, Goto, probeVars, Add, Take, Resolve, BatchLoad, callVars,
        BatchFail, Return, Lose, RedisKeeps, BatchRun, BatchLost, Check,
        AwaitAdd, ProbeInv, ProgressTypes
<1>8. ASSUME NEW c \in Calls,
             EvalUnknown(c) \/ EvalRun(c) \/ EvalMissing(c) \/ EvalLost(c) \/
             LoadScript(c) \/ LoadLost(c)
      PROVE  ProbeInv'
  BY <1>8
    DEF EvalUnknown, Evaluating, probeVars, EvalRun, Return, Goto, EvalMissing,
        EvalLost, Lose, RedisKeeps, LoadScript, LoadLost, ProbeInv,
        ProgressTypes
<1>9. ASSUME NEW n \in Nodes, Restart(n) PROVE ProbeInv'
  BY <1>9 DEF Restart, callVars, probeVars, ProbeInv, ProgressTypes
<1>10. ASSUME NEW n \in Nodes, NEW k \in 0 .. MaxSlaves, SlavesChange(n, k)
       PROVE  ProbeInv'
  BY <1>10 DEF SlavesChange, callVars, probeVars, ProbeInv, ProgressTypes
<1>11. ASSUME NEW s \in Slots, Refresh(s) PROVE ProbeInv'
  BY <1>11 DEF Refresh, callVars, probeVars, ProbeInv, ProgressTypes
<1>12. ASSUME NEW s \in Slots, NEW n \in Nodes, Move(s, n) PROVE ProbeInv'
  BY <1>12 DEF Move, callVars, probeVars, ProbeInv, ProgressTypes
<1>13. ASSUME NEW e \in Nodes \cup {Anywhere}, Listener(e) PROVE ProbeInv'
  BY <1>13 DEF Listener, callVars, probeVars, ProbeInv, ProgressTypes
<1> QED
  BY <1>1, <1>2, <1>3, <1>4, <1>5, <1>6, <1>7, <1>8, <1>9, <1>10, <1>11, <1>12,
     <1>13
    DEF Next, Step, SyncedCall, EvalCall

\* The scripts the nodes have, and those the cache says they have.
LEMMA ScriptStep ==
  ASSUME ConfigAssumption, ProgressTypes, ScriptTypes, Next
  PROVE  ScriptTypes'
<1>1. ASSUME NEW c \in Calls,
             Start(c) \/ ProbeKnown(c) \/ ProbeStart(c) \/ ProbeDone(c) \/
             ProbeFail(c)
      PROVE  ScriptTypes'
  BY <1>1
    DEF Start, Enter, Goto, cacheVars, redisVars, histVars, ProbeKnown, Proceed,
        ProbeStart, ProbeDone, ProbeFail, Return, Lose, RedisKeeps, ScriptTypes,
        ProgressTypes, ConfigAssumption
<1>2. ASSUME NEW c \in Calls,
             SlavesCached(c) \/ QueryInfo(c) \/ CacheInfo(c) \/ QueryFail(c)
      PROVE  ScriptTypes'
  BY <1>2
    DEF SlavesCached, Choose, Enter, Goto, cacheVars, redisVars, histVars,
        QueryInfo, CacheInfo, QueryFail, Return, Lose, RedisKeeps, ScriptTypes,
        ProgressTypes, ConfigAssumption
<1>3. ASSUME NEW c \in Calls,
             SpawnAdd(c) \/ Add(c) \/ Take(c) \/ Resolve(c) \/ BatchFail(c) \/
             BatchRun(c) \/ BatchLost(c) \/ Check(c) \/ AwaitAdd(c)
      PROVE  ScriptTypes'
  BY <1>3
    DEF SpawnAdd, Goto, cacheVars, redisVars, histVars, Add, Take, Resolve,
        BatchFail, Return, Lose, RedisKeeps, BatchRun, BatchLost, Check,
        AwaitAdd, ScriptTypes, ProgressTypes, ConfigAssumption
<1>4. ASSUME NEW c \in Calls, BatchLoad(c) PROVE ScriptTypes'
  BY <1>4 DEF BatchLoad, histVars, ScriptTypes, ProgressTypes, ConfigAssumption
<1>5. ASSUME NEW c \in Calls,
             EvalUnknown(c) \/ EvalRun(c) \/ EvalMissing(c) \/ EvalLost(c) \/
             LoadLost(c)
      PROVE  ScriptTypes'
  BY <1>5
    DEF EvalUnknown, Evaluating, redisVars, histVars, EvalRun, Return, Goto,
        cacheVars, EvalMissing, EvalLost, Lose, RedisKeeps, LoadLost,
        ScriptTypes, ProgressTypes, ConfigAssumption
<1>6. ASSUME NEW c \in Calls, LoadScript(c) PROVE ScriptTypes'
  BY <1>6
    DEF LoadScript, Goto, RedisKeeps, cacheVars, Reached, ScriptTypes,
        ProgressTypes, ConfigAssumption
<1>7. ASSUME NEW n \in Nodes, Restart(n) PROVE ScriptTypes'
  BY <1>7
    DEF Restart, cacheVars, histVars, ScriptTypes, ProgressTypes,
        ConfigAssumption
<1>8. ASSUME NEW n \in Nodes, NEW k \in 0 .. MaxSlaves, SlavesChange(n, k)
      PROVE  ScriptTypes'
  BY <1>8
    DEF SlavesChange, cacheVars, histVars, ScriptTypes, ProgressTypes,
        ConfigAssumption
<1>9. ASSUME NEW s \in Slots, Refresh(s) PROVE ScriptTypes'
  BY <1>9
    DEF Refresh, cacheVars, histVars, ScriptTypes, ProgressTypes,
        ConfigAssumption
<1>10. ASSUME NEW s \in Slots, NEW n \in Nodes, Move(s, n) PROVE ScriptTypes'
  BY <1>10
    DEF Move, cacheVars, histVars, ScriptTypes, ProgressTypes, ConfigAssumption
<1>11. ASSUME NEW e \in Nodes \cup {Anywhere}, Listener(e) PROVE ScriptTypes'
  BY <1>11 DEF Listener, histVars, ScriptTypes, ProgressTypes, ConfigAssumption
<1> QED
  BY <1>1, <1>2, <1>3, <1>4, <1>5, <1>6, <1>7, <1>8, <1>9, <1>10, <1>11
    DEF Next, Step, SyncedCall, EvalCall

\* Runs and losses are numbers.
LEMMA RunStep ==
  ASSUME RunTypes, Next
  PROVE  RunTypes'
<1>1. ASSUME NEW c \in Calls,
             Start(c) \/ ProbeKnown(c) \/ ProbeStart(c) \/ ProbeDone(c) \/
             ProbeFail(c)
      PROVE  RunTypes'
  BY <1>1
    DEF Start, Enter, Goto, redisVars, histVars, ProbeKnown, Proceed,
        ProbeStart, ProbeDone, ProbeFail, Return, Lose, RedisKeeps, RunTypes
<1>2. ASSUME NEW c \in Calls,
             SlavesCached(c) \/ QueryInfo(c) \/ CacheInfo(c) \/ QueryFail(c)
      PROVE  RunTypes'
  BY <1>2
    DEF SlavesCached, Choose, Enter, Goto, redisVars, histVars, QueryInfo,
        CacheInfo, QueryFail, Return, Lose, RedisKeeps, RunTypes
<1>3. ASSUME NEW c \in Calls,
             SpawnAdd(c) \/ Add(c) \/ Take(c) \/ Resolve(c) \/ BatchLoad(c) \/
             BatchFail(c) \/ Check(c) \/ AwaitAdd(c)
      PROVE  RunTypes'
  BY <1>3
    DEF SpawnAdd, Goto, redisVars, histVars, Add, Take, Resolve, BatchLoad,
        BatchFail, Return, Lose, RedisKeeps, Check, AwaitAdd, RunTypes
<1>4. ASSUME NEW c \in Calls, BatchRun(c) PROVE RunTypes'
  BY <1>4 DEF BatchRun, Goto, redisVars, RunTypes
<1>5. ASSUME NEW c \in Calls, BatchLost(c) PROVE RunTypes'
  BY <1>5 DEF BatchLost, Goto, Lose, RedisKeeps, RunTypes
<1>6. ASSUME NEW c \in Calls,
             EvalUnknown(c) \/ EvalMissing(c) \/ LoadScript(c) \/ LoadLost(c)
      PROVE  RunTypes'
  BY <1>6
    DEF EvalUnknown, Evaluating, redisVars, histVars, EvalMissing, Goto, Return,
        LoadScript, RedisKeeps, LoadLost, Lose, RunTypes
<1>7. ASSUME NEW c \in Calls, EvalRun(c) PROVE RunTypes'
  BY <1>7 DEF EvalRun, Return, Goto, Evaluating, redisVars, RunTypes
<1>8. ASSUME NEW c \in Calls, EvalLost(c) PROVE RunTypes'
  BY <1>8 DEF EvalLost, Return, Goto, Lose, RedisKeeps, Evaluating, RunTypes
<1>9. ASSUME NEW n \in Nodes, Restart(n) PROVE RunTypes'
  BY <1>9 DEF Restart, histVars, RunTypes
<1>10. ASSUME NEW n \in Nodes, NEW k \in 0 .. MaxSlaves, SlavesChange(n, k)
       PROVE  RunTypes'
  BY <1>10 DEF SlavesChange, histVars, RunTypes
<1>11. ASSUME NEW s \in Slots, Refresh(s) PROVE RunTypes'
  BY <1>11 DEF Refresh, histVars, RunTypes
<1>12. ASSUME NEW s \in Slots, NEW n \in Nodes, Move(s, n) PROVE RunTypes'
  BY <1>12 DEF Move, histVars, RunTypes
<1>13. ASSUME NEW e \in Nodes \cup {Anywhere}, Listener(e) PROVE RunTypes'
  BY <1>13 DEF Listener, histVars, RunTypes
<1> QED
  BY <1>1, <1>2, <1>3, <1>4, <1>5, <1>6, <1>7, <1>8, <1>9, <1>10, <1>11, <1>12,
     <1>13
    DEF Next, Step, SyncedCall, EvalCall

\* Where a call is says what became of its batch.
LEMMA StageStep ==
  ASSUME IInv, Next, NEW d \in Calls
  PROVE  Stage(d)'
<1>1. ASSUME NEW c \in Calls,
             Start(c) \/ ProbeKnown(c) \/ ProbeStart(c) \/ ProbeFail(c)
      PROVE  Stage(d)'
  BY <1>1
    DEF Start, Enter, Goto, probeVars, ProbeKnown, Proceed, ProbeStart,
        ProbeFail, Return, Lose, RedisKeeps, Stage, IInv, ProgressTypes,
        ProbeInv, Alone
<1>2. ASSUME NEW c \in Calls, ProbeDone(c) PROVE Stage(d)'
  BY <1>2
    DEF ProbeDone, Proceed, Enter, Goto, Stage, IInv, ProgressTypes, ProbeInv,
        Alone
<1>3. ASSUME NEW c \in Calls,
             SlavesCached(c) \/ QueryInfo(c) \/ CacheInfo(c) \/ QueryFail(c)
      PROVE  Stage(d)'
  BY <1>3
    DEF SlavesCached, Choose, Enter, Goto, probeVars, QueryInfo, CacheInfo,
        QueryFail, Return, Lose, RedisKeeps, Stage, IInv, ProgressTypes,
        ProbeInv, Alone
<1>4. ASSUME NEW c \in Calls,
             Add(c) \/ Resolve(c) \/ BatchLoad(c) \/ BatchFail(c) \/ Check(c) \/
             AwaitAdd(c)
      PROVE  Stage(d)'
  BY <1>4
    DEF Add, probeVars, Resolve, BatchLoad, callVars, BatchFail, Return, Goto,
        Lose, RedisKeeps, Check, AwaitAdd, Stage, IInv, ProgressTypes, ProbeInv,
        Alone
<1>5. ASSUME NEW c \in Calls, SpawnAdd(c) PROVE Stage(d)'
  BY <1>5
    DEF SpawnAdd, Goto, probeVars, Stage, IInv, ProgressTypes, ProbeInv, Alone
<1>6. ASSUME NEW c \in Calls, Take(c) PROVE Stage(d)'
  BY <1>6 DEF Take, Goto, probeVars, Stage, IInv, ProgressTypes, ProbeInv, Alone
<1>7. ASSUME NEW c \in Calls, BatchRun(c) PROVE Stage(d)'
  BY <1>7
    DEF BatchRun, Goto, probeVars, Stage, IInv, ProgressTypes, ProbeInv, Alone
<1>8. ASSUME NEW c \in Calls, BatchLost(c) PROVE Stage(d)'
  BY <1>8
    DEF BatchLost, Goto, Lose, RedisKeeps, probeVars, Stage, IInv,
        ProgressTypes, ProbeInv, Alone
<1>9. ASSUME NEW c \in Calls,
             EvalUnknown(c) \/ EvalRun(c) \/ EvalMissing(c) \/ EvalLost(c) \/
             LoadScript(c) \/ LoadLost(c)
      PROVE  Stage(d)'
  BY <1>9
    DEF EvalUnknown, Evaluating, probeVars, EvalRun, Return, Goto, EvalMissing,
        EvalLost, Lose, RedisKeeps, LoadScript, LoadLost, Stage, IInv,
        ProgressTypes, ProbeInv, Alone
<1>10. ASSUME NEW n \in Nodes, Restart(n) PROVE Stage(d)'
  BY <1>10
    DEF Restart, callVars, probeVars, Stage, IInv, ProgressTypes, ProbeInv,
        Alone
<1>11. ASSUME NEW n \in Nodes, NEW k \in 0 .. MaxSlaves, SlavesChange(n, k)
       PROVE  Stage(d)'
  BY <1>11
    DEF SlavesChange, callVars, probeVars, Stage, IInv, ProgressTypes, ProbeInv,
        Alone
<1>12. ASSUME NEW s \in Slots, Refresh(s) PROVE Stage(d)'
  BY <1>12
    DEF Refresh, callVars, probeVars, Stage, IInv, ProgressTypes, ProbeInv,
        Alone
<1>13. ASSUME NEW s \in Slots, NEW n \in Nodes, Move(s, n) PROVE Stage(d)'
  BY <1>13
    DEF Move, callVars, probeVars, Stage, IInv, ProgressTypes, ProbeInv, Alone
<1>14. ASSUME NEW e \in Nodes \cup {Anywhere}, Listener(e) PROVE Stage(d)'
  BY <1>14
    DEF Listener, callVars, probeVars, Stage, IInv, ProgressTypes, ProbeInv,
        Alone
<1> QED
  BY <1>1, <1>2, <1>3, <1>4, <1>5, <1>6, <1>7, <1>8, <1>9, <1>10, <1>11, <1>12,
     <1>13, <1>14
    DEF Next, Step, SyncedCall, EvalCall

\* A run needs a loss to be repeated, and a call that must not be repeated has
\* one attempt.
LEMMA CountStep ==
  ASSUME ConfigAssumption, IInv, Next, NEW d \in Calls
  PROVE  Counted(d)'
<1>1. ASSUME NEW c \in Calls,
             Start(c) \/ ProbeKnown(c) \/ ProbeStart(c) \/ ProbeDone(c) \/
             ProbeFail(c)
      PROVE  Counted(d)'
  BY <1>1
    DEF Start, Enter, Goto, redisVars, histVars, ProbeKnown, Proceed,
        ProbeStart, ProbeDone, ProbeFail, Return, Lose, RedisKeeps, Counted,
        IInv, Stage, ProgressTypes, RunTypes, Alone, ConfigAssumption
<1>2. ASSUME NEW c \in Calls,
             SlavesCached(c) \/ QueryInfo(c) \/ CacheInfo(c) \/ QueryFail(c)
      PROVE  Counted(d)'
  BY <1>2
    DEF SlavesCached, Choose, Enter, Goto, redisVars, histVars, QueryInfo,
        CacheInfo, QueryFail, Return, Lose, RedisKeeps, Counted, IInv, Stage,
        ProgressTypes, RunTypes, Alone, ConfigAssumption
<1>3. ASSUME NEW c \in Calls,
             Add(c) \/ Take(c) \/ Resolve(c) \/ BatchLoad(c) \/ BatchFail(c) \/
             Check(c) \/ AwaitAdd(c)
      PROVE  Counted(d)'
  BY <1>3
    DEF Add, redisVars, histVars, Take, Goto, Resolve, BatchLoad, callVars,
        BatchFail, Return, Lose, RedisKeeps, Check, AwaitAdd, Counted, IInv,
        Stage, ProgressTypes, RunTypes, Alone, ConfigAssumption
<1>4. ASSUME NEW c \in Calls, SpawnAdd(c) PROVE Counted(d)'
  BY <1>4
    DEF SpawnAdd, Goto, redisVars, histVars, Counted, IInv, Stage,
        ProgressTypes, RunTypes, Alone, ConfigAssumption
<1>5. ASSUME NEW c \in Calls, BatchRun(c) PROVE Counted(d)'
  BY <1>5
    DEF BatchRun, Goto, redisVars, Counted, IInv, Stage, ProgressTypes,
        RunTypes, Alone, ConfigAssumption
<1>6. ASSUME NEW c \in Calls, BatchLost(c) PROVE Counted(d)'
  BY <1>6
    DEF BatchLost, Goto, Lose, RedisKeeps, Counted, IInv, Stage, ProgressTypes,
        RunTypes, Alone, ConfigAssumption
<1>7. ASSUME NEW c \in Calls, EvalMissing(c) \/ LoadLost(c) PROVE Counted(d)'
  BY <1>7
    DEF EvalMissing, Goto, Return, Evaluating, redisVars, histVars, LoadLost,
        Lose, RedisKeeps, Counted, IInv, Stage, ProgressTypes, RunTypes, Alone,
        ConfigAssumption
<1>8. ASSUME NEW c \in Calls, EvalUnknown(c) PROVE Counted(d)'
  BY <1>8
    DEF EvalUnknown, Evaluating, redisVars, histVars, Attempts, Counted, IInv,
        Stage, ProgressTypes, RunTypes, Alone, ConfigAssumption
<1>9. ASSUME NEW c \in Calls, EvalRun(c) PROVE Counted(d)'
  BY <1>9
    DEF EvalRun, Return, Goto, Evaluating, redisVars, Counted, IInv, Stage,
        ProgressTypes, RunTypes, Alone, ConfigAssumption
<1>10. ASSUME NEW c \in Calls, EvalLost(c) PROVE Counted(d)'
  BY <1>10
    DEF EvalLost, Return, Goto, Lose, RedisKeeps, Evaluating, Counted, IInv,
        Stage, ProgressTypes, RunTypes, Alone, ConfigAssumption
<1>11. ASSUME NEW c \in Calls, LoadScript(c) PROVE Counted(d)'
  BY <1>11
    DEF LoadScript, Goto, RedisKeeps, Attempts, Counted, IInv, Stage,
        ProgressTypes, RunTypes, Alone, ConfigAssumption
<1>12. ASSUME NEW n \in Nodes, Restart(n) PROVE Counted(d)'
  BY <1>12
    DEF Restart, callVars, histVars, Counted, IInv, Stage, ProgressTypes,
        RunTypes, Alone, ConfigAssumption
<1>13. ASSUME NEW n \in Nodes, NEW k \in 0 .. MaxSlaves, SlavesChange(n, k)
       PROVE  Counted(d)'
  BY <1>13
    DEF SlavesChange, callVars, histVars, Counted, IInv, Stage, ProgressTypes,
        RunTypes, Alone, ConfigAssumption
<1>14. ASSUME NEW s \in Slots, Refresh(s) PROVE Counted(d)'
  BY <1>14
    DEF Refresh, callVars, histVars, Counted, IInv, Stage, ProgressTypes,
        RunTypes, Alone, ConfigAssumption
<1>15. ASSUME NEW s \in Slots, NEW n \in Nodes, Move(s, n) PROVE Counted(d)'
  BY <1>15
    DEF Move, callVars, histVars, Counted, IInv, Stage, ProgressTypes, RunTypes,
        Alone, ConfigAssumption
<1>16. ASSUME NEW e \in Nodes \cup {Anywhere}, Listener(e) PROVE Counted(d)'
  BY <1>16
    DEF Listener, callVars, histVars, Counted, IInv, Stage, ProgressTypes,
        RunTypes, Alone, ConfigAssumption
<1> QED
  BY <1>1, <1>2, <1>3, <1>4, <1>5, <1>6, <1>7, <1>8, <1>9, <1>10, <1>11, <1>12,
     <1>13, <1>14, <1>15, <1>16
    DEF Next, Step, SyncedCall, EvalCall

\* The node that got SCRIPT LOAD is the one that is tried again.
LEMMA FoundStep ==
  ASSUME ConfigAssumption, IInv, Next, NEW d \in Calls
  PROVE  Found(d)'
<1>1. ASSUME NEW c \in Calls,
             Start(c) \/ ProbeKnown(c) \/ ProbeStart(c) \/ ProbeDone(c) \/
             ProbeFail(c)
      PROVE  Found(d)'
  BY <1>1
    DEF Start, Enter, Goto, redisVars, histVars, ProbeKnown, Proceed,
        ProbeStart, placeVars, ProbeDone, ProbeFail, Return, Lose, RedisKeeps,
        Found, IInv, Stage, ProgressTypes, ScriptTypes, ConfigAssumption
<1>2. ASSUME NEW c \in Calls,
             SlavesCached(c) \/ QueryInfo(c) \/ CacheInfo(c) \/ QueryFail(c)
      PROVE  Found(d)'
  BY <1>2
    DEF SlavesCached, Choose, Enter, Goto, redisVars, histVars, QueryInfo,
        placeVars, CacheInfo, QueryFail, Return, Lose, RedisKeeps, Found, IInv,
        Stage, ProgressTypes, ScriptTypes, ConfigAssumption
<1>3. ASSUME NEW c \in Calls,
             SpawnAdd(c) \/ Add(c) \/ Take(c) \/ Resolve(c) \/ BatchFail(c) \/
             BatchRun(c) \/ BatchLost(c) \/ Check(c) \/ AwaitAdd(c)
      PROVE  Found(d)'
  BY <1>3
    DEF SpawnAdd, Goto, placeVars, redisVars, histVars, Add, Take, Resolve,
        BatchFail, Return, Lose, RedisKeeps, BatchRun, BatchLost, Check,
        AwaitAdd, Found, IInv, Stage, ProgressTypes, ScriptTypes,
        ConfigAssumption
<1>4. ASSUME NEW c \in Calls, BatchLoad(c) PROVE Found(d)'
  BY <1>4
    DEF BatchLoad, callVars, placeVars, histVars, Found, IInv, Stage,
        ProgressTypes, ScriptTypes, ConfigAssumption
<1>5. ASSUME NEW c \in Calls,
             EvalUnknown(c) \/ EvalRun(c) \/ EvalLost(c) \/ LoadLost(c)
      PROVE  Found(d)'
  BY <1>5
    DEF EvalUnknown, Evaluating, placeVars, redisVars, histVars, EvalRun,
        Return, Goto, EvalLost, Lose, RedisKeeps, LoadLost, Found, IInv, Stage,
        ProgressTypes, ScriptTypes, ConfigAssumption
<1>6. ASSUME NEW c \in Calls, EvalMissing(c) PROVE Found(d)'
  BY <1>6
    DEF EvalMissing, Goto, Return, Evaluating, placeVars, redisVars, histVars,
        Found, IInv, Stage, ProgressTypes, ScriptTypes, ConfigAssumption
<1>7. ASSUME NEW c \in Calls, LoadScript(c) PROVE Found(d)'
  BY <1>7
    DEF LoadScript, Goto, RedisKeeps, placeVars, Reached, Found, IInv, Stage,
        ProgressTypes, ScriptTypes, ConfigAssumption
<1>8. ASSUME NEW n \in Nodes, Restart(n) PROVE Found(d)'
  BY <1>8
    DEF Restart, callVars, placeVars, histVars, Found, IInv, Stage,
        ProgressTypes, ScriptTypes, ConfigAssumption
<1>9. ASSUME NEW n \in Nodes, NEW k \in 0 .. MaxSlaves, SlavesChange(n, k)
      PROVE  Found(d)'
  BY <1>9
    DEF SlavesChange, callVars, placeVars, histVars, Found, IInv, Stage,
        ProgressTypes, ScriptTypes, ConfigAssumption
<1>10. ASSUME NEW s \in Slots, Refresh(s) PROVE Found(d)'
  BY <1>10
    DEF Refresh, callVars, placeVars, histVars, Found, IInv, Stage,
        ProgressTypes, ScriptTypes, ConfigAssumption
<1>11. ASSUME NEW s \in Slots, NEW n \in Nodes, Move(s, n) PROVE Found(d)'
  BY <1>11
    DEF Move, callVars, placeVars, histVars, Found, IInv, Stage, ProgressTypes,
        ScriptTypes, ConfigAssumption
<1>12. ASSUME NEW e \in Nodes \cup {Anywhere}, Listener(e) PROVE Found(d)'
  BY <1>12
    DEF Listener, callVars, placeVars, histVars, Found, IInv, Stage,
        ProgressTypes, ScriptTypes, ConfigAssumption
<1> QED
  BY <1>1, <1>2, <1>3, <1>4, <1>5, <1>6, <1>7, <1>8, <1>9, <1>10, <1>11, <1>12
    DEF Next, Step, SyncedCall, EvalCall

\* What a replica confirmed is a run of the script.
LEMMA ConfirmStep ==
  ASSUME ConfigAssumption, IInv, Next, NEW d \in Calls
  PROVE  Confirmed(d)'
<1>1. ASSUME NEW c \in Calls,
             Start(c) \/ ProbeKnown(c) \/ ProbeStart(c) \/ ProbeFail(c)
      PROVE  Confirmed(d)'
  BY <1>1
    DEF Start, Enter, Goto, probeVars, histVars, ProbeKnown, Proceed,
        ProbeStart, ProbeFail, Return, Lose, RedisKeeps, Confirmed, Unsynced,
        Available, Batched, IInv, Stage, ProbeInv, ProgressTypes, ReplicaTypes,
        RunTypes, Alone, ConfigAssumption
<1>2. ASSUME NEW c \in Calls, ProbeDone(c) PROVE Confirmed(d)'
  BY <1>2
    DEF ProbeDone, Proceed, Enter, Goto, histVars, Confirmed, Unsynced,
        Available, Batched, IInv, Stage, ProbeInv, ProgressTypes, ReplicaTypes,
        RunTypes, Alone, ConfigAssumption
<1>3. ASSUME NEW c \in Calls,
             SlavesCached(c) \/ QueryInfo(c) \/ CacheInfo(c) \/ QueryFail(c)
      PROVE  Confirmed(d)'
  BY <1>3
    DEF SlavesCached, Choose, Enter, Goto, probeVars, histVars, QueryInfo,
        CacheInfo, QueryFail, Return, Lose, RedisKeeps, Confirmed, Unsynced,
        Available, Batched, IInv, Stage, ProbeInv, ProgressTypes, ReplicaTypes,
        RunTypes, Alone, ConfigAssumption
<1>4. ASSUME NEW c \in Calls,
             SpawnAdd(c) \/ Add(c) \/ Take(c) \/ Resolve(c) \/ BatchLoad(c) \/
             BatchFail(c)
      PROVE  Confirmed(d)'
  BY <1>4
    DEF SpawnAdd, Goto, probeVars, histVars, Add, Take, Resolve, BatchLoad,
        callVars, BatchFail, Return, Lose, RedisKeeps, Confirmed, Unsynced,
        Available, Batched, IInv, Stage, ProbeInv, ProgressTypes, ReplicaTypes,
        RunTypes, Alone, ConfigAssumption
<1>5. ASSUME NEW c \in Calls, BatchRun(c) PROVE Confirmed(d)'
  BY <1>5
    DEF BatchRun, Goto, probeVars, Confirmed, Unsynced, Available, Batched,
        IInv, Stage, ProbeInv, ProgressTypes, ReplicaTypes, RunTypes, Alone,
        ConfigAssumption
<1>6. ASSUME NEW c \in Calls, BatchLost(c) PROVE Confirmed(d)'
  BY <1>6
    DEF BatchLost, Goto, Lose, RedisKeeps, probeVars, Confirmed, Unsynced,
        Available, Batched, IInv, Stage, ProbeInv, ProgressTypes, ReplicaTypes,
        RunTypes, Alone, ConfigAssumption
<1>7. ASSUME NEW c \in Calls, Check(c) PROVE Confirmed(d)'
  BY <1>7
    DEF Check, Goto, Return, probeVars, histVars, Confirmed, Unsynced,
        Available, Batched, IInv, Stage, ProbeInv, ProgressTypes, ReplicaTypes,
        RunTypes, Alone, ConfigAssumption
<1>8. ASSUME NEW c \in Calls, AwaitAdd(c) PROVE Confirmed(d)'
  BY <1>8
    DEF AwaitAdd, Return, Goto, probeVars, histVars, Confirmed, Unsynced,
        Available, Batched, IInv, Stage, ProbeInv, ProgressTypes, ReplicaTypes,
        RunTypes, Alone, ConfigAssumption
<1>9. ASSUME NEW c \in Calls,
             EvalUnknown(c) \/ EvalMissing(c) \/ EvalLost(c) \/ LoadScript(c) \/
             LoadLost(c)
      PROVE  Confirmed(d)'
  BY <1>9
    DEF EvalUnknown, Evaluating, probeVars, histVars, EvalMissing, Goto, Return,
        EvalLost, Lose, RedisKeeps, LoadScript, LoadLost, Confirmed, Unsynced,
        Available, Batched, IInv, Stage, ProbeInv, ProgressTypes, ReplicaTypes,
        RunTypes, Alone, ConfigAssumption
<1>10. ASSUME NEW c \in Calls, EvalRun(c) PROVE Confirmed(d)'
  BY <1>10
    DEF EvalRun, Return, Goto, Evaluating, probeVars, Confirmed, Unsynced,
        Available, Batched, IInv, Stage, ProbeInv, ProgressTypes, ReplicaTypes,
        RunTypes, Alone, ConfigAssumption
<1>11. ASSUME NEW n \in Nodes, Restart(n) PROVE Confirmed(d)'
  BY <1>11
    DEF Restart, callVars, probeVars, histVars, Confirmed, Unsynced, Available,
        Batched, IInv, Stage, ProbeInv, ProgressTypes, ReplicaTypes, RunTypes,
        Alone, ConfigAssumption
<1>12. ASSUME NEW n \in Nodes, NEW k \in 0 .. MaxSlaves, SlavesChange(n, k)
       PROVE  Confirmed(d)'
  BY <1>12
    DEF SlavesChange, callVars, probeVars, histVars, Confirmed, Unsynced,
        Available, Batched, IInv, Stage, ProbeInv, ProgressTypes, ReplicaTypes,
        RunTypes, Alone, ConfigAssumption
<1>13. ASSUME NEW s \in Slots, Refresh(s) PROVE Confirmed(d)'
  BY <1>13
    DEF Refresh, callVars, probeVars, histVars, Confirmed, Unsynced, Available,
        Batched, IInv, Stage, ProbeInv, ProgressTypes, ReplicaTypes, RunTypes,
        Alone, ConfigAssumption
<1>14. ASSUME NEW s \in Slots, NEW n \in Nodes, Move(s, n) PROVE Confirmed(d)'
  BY <1>14
    DEF Move, callVars, probeVars, histVars, Confirmed, Unsynced, Available,
        Batched, IInv, Stage, ProbeInv, ProgressTypes, ReplicaTypes, RunTypes,
        Alone, ConfigAssumption
<1>15. ASSUME NEW e \in Nodes \cup {Anywhere}, Listener(e) PROVE Confirmed(d)'
  BY <1>15
    DEF Listener, callVars, probeVars, histVars, Confirmed, Unsynced, Available,
        Batched, IInv, Stage, ProbeInv, ProgressTypes, ReplicaTypes, RunTypes,
        Alone, ConfigAssumption
<1> QED
  BY <1>1, <1>2, <1>3, <1>4, <1>5, <1>6, <1>7, <1>8, <1>9, <1>10, <1>11, <1>12,
     <1>13, <1>14, <1>15
    DEF Next, Step, SyncedCall, EvalCall

\* NOSCRIPT is returned by a second attempt alone.
LEMMA NoscriptStep ==
  ASSUME IInv, Next, NEW d \in Calls,
         result'[d] = "noscript", result[d] # "noscript"
  PROVE  Reason(d)
<1>1. ASSUME NEW c \in Calls,
             Start(c) \/ ProbeKnown(c) \/ ProbeStart(c) \/ ProbeDone(c) \/
             ProbeFail(c)
      PROVE  Reason(d)
  BY <1>1
    DEF Start, Enter, Goto, ProbeKnown, Proceed, ProbeStart, ProbeDone,
        ProbeFail, Return, Lose, RedisKeeps, Reason, IInv, ProgressTypes
<1>2. ASSUME NEW c \in Calls,
             SlavesCached(c) \/ QueryInfo(c) \/ CacheInfo(c) \/ QueryFail(c)
      PROVE  Reason(d)
  BY <1>2
    DEF SlavesCached, Choose, Enter, Goto, QueryInfo, CacheInfo, QueryFail,
        Return, Lose, RedisKeeps, Reason, IInv, ProgressTypes
<1>3. ASSUME NEW c \in Calls,
             SpawnAdd(c) \/ Add(c) \/ Take(c) \/ Resolve(c) \/ BatchLoad(c) \/
             BatchFail(c) \/ BatchRun(c) \/ BatchLost(c) \/ Check(c) \/
             AwaitAdd(c)
      PROVE  Reason(d)
  BY <1>3
    DEF SpawnAdd, Goto, Add, Take, Resolve, BatchLoad, callVars, BatchFail,
        Return, Lose, RedisKeeps, BatchRun, BatchLost, Check, AwaitAdd, Reason,
        IInv, ProgressTypes
<1>4. ASSUME NEW c \in Calls,
             EvalUnknown(c) \/ EvalRun(c) \/ EvalLost(c) \/ LoadScript(c) \/
             LoadLost(c)
      PROVE  Reason(d)
  BY <1>4
    DEF EvalUnknown, Evaluating, EvalRun, Return, Goto, EvalLost, Lose,
        RedisKeeps, LoadScript, LoadLost, Reason, IInv, ProgressTypes
<1>5. ASSUME NEW c \in Calls, EvalMissing(c) PROVE Reason(d)
  BY <1>5
    DEF EvalMissing, Goto, Return, Evaluating, HasScript, Home, Found,
        ScriptTypes, Reason, IInv, ProgressTypes
<1>6. ASSUME NEW n \in Nodes, Restart(n) PROVE Reason(d)
  BY <1>6 DEF Restart, callVars, Reason, IInv, ProgressTypes
<1>7. ASSUME NEW n \in Nodes, NEW k \in 0 .. MaxSlaves, SlavesChange(n, k)
      PROVE  Reason(d)
  BY <1>7 DEF SlavesChange, callVars, Reason, IInv, ProgressTypes
<1>8. ASSUME NEW s \in Slots, Refresh(s) PROVE Reason(d)
  BY <1>8 DEF Refresh, callVars, Reason, IInv, ProgressTypes
<1>9. ASSUME NEW s \in Slots, NEW n \in Nodes, Move(s, n) PROVE Reason(d)
  BY <1>9 DEF Move, callVars, Reason, IInv, ProgressTypes
<1>10. ASSUME NEW e \in Nodes \cup {Anywhere}, Listener(e) PROVE Reason(d)
  BY <1>10 DEF Listener, callVars, Reason, IInv, ProgressTypes
<1> QED
  BY <1>1, <1>2, <1>3, <1>4, <1>5, <1>6, <1>7, <1>8, <1>9, <1>10
    DEF Next, Step, SyncedCall, EvalCall

-----------------------------------------------------------------------------
(* The theorems                                                              *)

\* IInv holds at first.
LEMMA InitIInv == ASSUME ConfigAssumption, Init PROVE IInv
<1>1. ProgressTypes
  BY DEF Init, ProgressTypes, Places, Attempts, ConfigAssumption
<1>2. ReplicaTypes
  BY DEF Init, ReplicaTypes, Infos, NoInfo, ConfigAssumption
<1>3. ProbeInv
  BY DEF Init, ProbeInv
<1>4. ScriptTypes
  BY DEF Init, ScriptTypes
<1>5. RunTypes
  BY DEF Init, RunTypes
<1>6. ASSUME NEW c \in Calls PROVE Stage(c) /\ Counted(c) /\ Found(c) /\ Confirmed(c)
  BY DEF Init, Stage, Counted, Found, Confirmed, Alone, Attempts, Batched,
         ConfigAssumption
<1> QED
  BY <1>1, <1>2, <1>3, <1>4, <1>5, <1>6 DEF IInv

\* IInv is inductive.
LEMMA IInvHolds == ConfigAssumption /\ Spec => []IInv
<1> SUFFICES ASSUME ConfigAssumption PROVE Spec => []IInv
  OBVIOUS
<1>1. Init => IInv
  BY InitIInv
<1>2. IInv /\ [Next]_vars => IInv'
  <2> SUFFICES ASSUME IInv, [Next]_vars PROVE IInv'
    OBVIOUS
  <2>1. CASE Next
    <3>1. ProgressTypes' /\ ReplicaTypes' /\ ProbeInv' /\ ScriptTypes' /\ RunTypes'
      BY <2>1, ProgressStep, ReplicaStep, ProbeStep, ScriptStep, RunStep DEF IInv
    <3>2. ASSUME NEW c \in Calls
          PROVE  (Stage(c) /\ Counted(c) /\ Found(c) /\ Confirmed(c))'
      BY <2>1, StageStep, CountStep, FoundStep, ConfirmStep
    <3> QED
      BY <3>1, <3>2 DEF IInv
  <2>2. CASE UNCHANGED vars
    BY <2>2 DEF vars, callVars, placeVars, probeVars, cacheVars, redisVars,
       routeVars, histVars, IInv, ProgressTypes, ReplicaTypes, ProbeInv,
       ScriptTypes, RunTypes, Stage, Counted, Found, Confirmed, Unsynced,
       Available, Batched
  <2> QED
    BY <2>1, <2>2
<1> QED
  BY <1>1, <1>2, PTL DEF Spec

\* Every variable keeps its type, one call at a time holds the mutex of
\* wait_support, and no script runs more often than replies are lost.
THEOREM TypeCorrect == ASSUME ConfigAssumption PROVE Spec => []TypeOK
<1>1. IInv => TypeOK
  <2> SUFFICES ASSUME IInv PROVE TypeOK
    OBVIOUS
  <2>1. Cardinality(prober) \leq 1
    <3>1. CASE prober = {}
      BY <3>1, FS_EmptySet
    <3>2. CASE \E c \in Calls : prober = {c}
      BY <3>2, FS_Singleton
    <3> QED
      BY <3>1, <3>2 DEF IInv, ProbeInv
  <2>2. \A c \in Calls : runs[c] \leq 1 + losses
    BY DEF IInv, Counted
  <2>3. {synced, acked} \subseteq [Calls -> 0 .. MaxSlaves]
    BY DEF IInv, ReplicaTypes
  <2>4. {at, entry} \subseteq [Calls -> Nodes \cup {NoNode}]
    BY DEF IInv, ProgressTypes
  <2>5. wait_support \subseteq Optional
    BY DEF IInv, ProbeInv, Optional
  <2> QED
    BY <2>1, <2>2, <2>3, <2>4, <2>5
       DEF IInv, TypeOK, ProgressTypes, Places, ReplicaTypes, ProbeInv, ScriptTypes
<1> QED
  BY <1>1, IInvHolds, PTL

\* Outside a batch, a script that eval_async may not repeat runs at most once.
THEOREM NoRetryIsSafe == ASSUME ConfigAssumption PROVE Spec => []NoRetryRunsOnce
<1>1. IInv => NoRetryRunsOnce
  BY DEF IInv, Counted, NoRetryRunsOnce, Batched, ConfigAssumption
<1> QED
  BY <1>1, IInvHolds, PTL

\* The doc comment of eval_async: a call fails with NOSCRIPT only if it had no node
\* to name, its slot has moved, or its node restarted after SCRIPT LOAD.
THEOREM LoadGoesWhereItIsNeeded ==
  ASSUME ConfigAssumption PROVE Spec => NoscriptHasReason
<1>1. IInv /\ [Next]_vars =>
        [\A c \in Calls :
           result'[c] = "noscript" /\ result[c] # "noscript" =>
             \/ at[c] = NoNode
             \/ at[c] # Home(c)
             \/ restarts[at[c]] > seen[c]]_vars
  BY NoscriptStep DEF Reason
<1> QED
  BY <1>1, IInvHolds, PTL DEF Spec, NoscriptHasReason

\* check_lock_synced_slaves: a synced_eval that found replicas and returned the
\* value of its script has run it, and a replica confirmed that run.
THEOREM OkIsReplicated == ASSUME ConfigAssumption PROVE Spec => []OkMeansAcked
<1>1. IInv => OkMeansAcked
  BY DEF IInv, ReplicaTypes, Confirmed, Unsynced, OkMeansAcked
<1> QED
  BY <1>1, IInvHolds, PTL

-----------------------------------------------------------------------------
(* The scenes: what is proved of CommandExecutor and RedisQueueBatch holds   *)
(* of their instances, which are those of ExecutorScenes definition by       *)
(* definition.                                                               *)

SingleProofs == INSTANCE CommandExecutorProofs WITH
  Calls <- Issued, NodeOf <- MasterOf, MaxLosses <- CommandLosses,
  pc <- cmd_pc, result <- cmd_result, losses <- cmd_losses

TransactionProofs == INSTANCE RedisQueueBatchProofs WITH
  Nodes <- Hosts, NodeOf <- HostOf, MaxLosses <- ConnectionLosses,
  pc <- rq_pc, idx <- rq_idx, answer <- rq_answer, executed <- rq_executed,
  next_index <- rq_next_index, slot <- rq_slot, entries <- rq_entries,
  holder <- rq_holder, phase <- rq_phase, discard <- rq_discard,
  taken <- rq_taken, execReply <- rq_execReply, synced <- rq_synced,
  responses <- rq_responses, target <- rq_target, turn <- rq_turn,
  txn <- rq_txn, log <- rq_log, timeouts <- rq_timeouts, losses <- rq_losses,
  used <- rq_used, lost <- rq_lost, strays <- rq_strays, unheard <- rq_unheard

\* The commands are commands.
LEMMA SingleAssumption ==
  Single!CommandAssumption <=> SingleProofs!CommandAssumption
BY DEF Single!CommandAssumption, SingleProofs!CommandAssumption,
       Single!Wellformed, SingleProofs!Wellformed, Single!Variants,
       SingleProofs!Variants, Single!KeyVariants, SingleProofs!KeyVariants,
       Single!ExpiryVariants, SingleProofs!ExpiryVariants, Single!HashVariants,
       SingleProofs!HashVariants, Single!SetVariants, SingleProofs!SetVariants,
       Single!SortedSetVariants, SingleProofs!SortedSetVariants,
       Single!ScriptVariants, SingleProofs!ScriptVariants, Single!SortVariants,
       SingleProofs!SortVariants, Single!WaitVariants,
       SingleProofs!WaitVariants, Single!ListVariants, SingleProofs!ListVariants

\* The single commands start as they are proved to.
LEMMA SingleInit == Single!Init <=> SingleProofs!Init
BY DEF Single!Init, SingleProofs!Init

\* They have the same variables.
LEMMA SingleVars == Single!vars = SingleProofs!vars
BY DEF Single!vars, SingleProofs!vars, Single!callVars, SingleProofs!callVars,
       Single!cacheVars, SingleProofs!cacheVars

\* They take the same steps.
LEMMA SingleNext == Single!Next <=> SingleProofs!Next
BY DEF Single!Next, SingleProofs!Next, Single!Send, SingleProofs!Send,
       Single!Goto, SingleProofs!Goto, Single!PipelineName,
       SingleProofs!PipelineName, Single!Request, SingleProofs!Request,
       Single!Name, SingleProofs!Name, Single!KeyVariants,
       SingleProofs!KeyVariants, Single!ExpiryVariants,
       SingleProofs!ExpiryVariants, Single!HashVariants,
       SingleProofs!HashVariants, Single!SetVariants, SingleProofs!SetVariants,
       Single!SortedSetVariants, SingleProofs!SortedSetVariants,
       Single!ScriptVariants, SingleProofs!ScriptVariants, Single!SortVariants,
       SingleProofs!SortVariants, Single!WaitVariants,
       SingleProofs!WaitVariants, Single!Downgrade, SingleProofs!Downgrade,
       Single!cacheVars, SingleProofs!cacheVars, Single!Answer,
       SingleProofs!Answer, Single!Reply, SingleProofs!Reply, Single!Known,
       SingleProofs!Known, Single!Key, SingleProofs!Key, Single!routing_key,
       SingleProofs!routing_key, Single!Refused, SingleProofs!Refused,
       Single!IsWrite, SingleProofs!IsWrite, Single!is_read_only,
       SingleProofs!is_read_only, Single!Changed, SingleProofs!Changed,
       Single!Range, SingleProofs!Range, Single!Stale, SingleProofs!Stale,
       Single!RefusedReply, SingleProofs!RefusedReply, Single!Fail,
       SingleProofs!Fail, Single!Finish, SingleProofs!Finish, Single!Unknown,
       SingleProofs!Unknown, Single!Lose, SingleProofs!Lose, Single!After,
       SingleProofs!After, Single!Return, SingleProofs!Return,
       Single!EvictStart, SingleProofs!EvictStart, Single!EvictOne,
       SingleProofs!EvictOne, Single!Restrict, SingleProofs!Restrict,
       Single!EvictDone, SingleProofs!EvictDone, Single!add_client_side_caching,
       SingleProofs!add_client_side_caching, Single!remove_client_side_caching,
       SingleProofs!remove_client_side_caching, Single!FillRead,
       SingleProofs!FillRead, Single!Insert, SingleProofs!Insert,
       Single!callVars, SingleProofs!callVars, Single!FillStore,
       SingleProofs!FillStore, Single!Upgrade, SingleProofs!Upgrade

\* The transaction starts as it is proved to.
LEMMA TransactionInit == Transaction!Init <=> TransactionProofs!Init
BY DEF Transaction!Init, TransactionProofs!Init, Transaction!NoAnswer,
       TransactionProofs!NoAnswer, Transaction!Nobody, TransactionProofs!Nobody,
       Transaction!StatusReply, TransactionProofs!StatusReply,
       Transaction!Connections, TransactionProofs!Connections,
       Transaction!Clients, TransactionProofs!Clients, Transaction!NoTxn,
       TransactionProofs!NoTxn

\* It has the same variables.
LEMMA TransactionVars == Transaction!vars = TransactionProofs!vars
BY DEF Transaction!vars, TransactionProofs!vars, Transaction!callVars,
       TransactionProofs!callVars, Transaction!batchVars,
       TransactionProofs!batchVars, Transaction!execVars,
       TransactionProofs!execVars, Transaction!redisVars,
       TransactionProofs!redisVars, Transaction!histVars,
       TransactionProofs!histVars

\* It takes the same steps.
LEMMA TransactionNext == Transaction!Next <=> TransactionProofs!Next
BY DEF Transaction!Next, TransactionProofs!Next, Transaction!Callers,
       TransactionProofs!Callers, Transaction!FetchIndex,
       TransactionProofs!FetchIndex, Transaction!execVars,
       TransactionProofs!execVars, Transaction!redisVars,
       TransactionProofs!redisVars, Transaction!histVars,
       TransactionProofs!histVars, Transaction!Call, TransactionProofs!Call,
       Transaction!Lock, TransactionProofs!Lock, Transaction!Nobody,
       TransactionProofs!Nobody, Transaction!is_wait_command,
       TransactionProofs!is_wait_command, Transaction!CallFails,
       TransactionProofs!CallFails, Transaction!Failure,
       TransactionProofs!Failure, Transaction!SendMulti,
       TransactionProofs!SendMulti, Transaction!Conn, TransactionProofs!Conn,
       Transaction!Use, TransactionProofs!Use, Transaction!PoolNext,
       TransactionProofs!PoolNext, Transaction!InTime, TransactionProofs!InTime,
       Transaction!Set, TransactionProofs!Set, Transaction!NewTxn,
       TransactionProofs!NewTxn, Transaction!Opened, TransactionProofs!Opened,
       Transaction!Late, TransactionProofs!Late, Transaction!Break,
       TransactionProofs!Break, Transaction!NoTxn, TransactionProofs!NoTxn,
       Transaction!SendCommand, TransactionProofs!SendCommand,
       Transaction!Receive, TransactionProofs!Receive,
       Transaction!SendCommandFails, TransactionProofs!SendCommandFails,
       Transaction!Refuse, TransactionProofs!Refuse, Transaction!DiscardClaim,
       TransactionProofs!DiscardClaim, Transaction!callVars,
       TransactionProofs!callVars, Transaction!DiscardDrain,
       TransactionProofs!DiscardDrain, Transaction!Range,
       TransactionProofs!Range, Transaction!ExecuteClaim,
       TransactionProofs!ExecuteClaim, Transaction!Executor,
       TransactionProofs!Executor, Transaction!ExecuteTake,
       TransactionProofs!ExecuteTake, Transaction!SendExec,
       TransactionProofs!SendExec, Transaction!ArrayReply,
       TransactionProofs!ArrayReply, Transaction!Spoilt,
       TransactionProofs!Spoilt, Transaction!ErrorReply,
       TransactionProofs!ErrorReply, Transaction!batchVars,
       TransactionProofs!batchVars, Transaction!SendWait,
       TransactionProofs!SendWait, Transaction!extract_synced_slaves,
       TransactionProofs!extract_synced_slaves, Transaction!StatusReply,
       TransactionProofs!StatusReply, Transaction!IntegerReply,
       TransactionProofs!IntegerReply, Transaction!Distribute,
       TransactionProofs!Distribute, Transaction!Ok, TransactionProofs!Ok,
       Transaction!ExecAnswer, TransactionProofs!ExecAnswer,
       Transaction!sort_by_index, TransactionProofs!sort_by_index,
       Transaction!place, TransactionProofs!place, Transaction!Cardinality,
       TransactionProofs!Cardinality, Transaction!collect_exec_indexed,
       TransactionProofs!collect_exec_indexed, Transaction!ExecuteTimeout,
       TransactionProofs!ExecuteTimeout, Transaction!ForeignCommand,
       TransactionProofs!ForeignCommand, Transaction!Connections,
       TransactionProofs!Connections, Transaction!Clients,
       TransactionProofs!Clients, Transaction!Disconnect,
       TransactionProofs!Disconnect, Transaction!Lose, TransactionProofs!Lose

\* A step of the scenes is a step of each instance, or none.
LEMMA SceneSteps ==
  /\ ScenesInit => Init /\ SingleProofs!Init /\ TransactionProofs!Init
  /\ [ScenesNext]_sceneVars =>
       /\ [Next]_vars
       /\ [SingleProofs!Next]_(SingleProofs!vars)
       /\ [TransactionProofs!Next]_(TransactionProofs!vars)
<1>1. ScenesInit => Init /\ SingleProofs!Init /\ TransactionProofs!Init
  BY SingleInit, TransactionInit DEF ScenesInit
<1>2. UNCHANGED commandVars => UNCHANGED SingleProofs!vars
  BY DEF commandVars, SingleProofs!vars, SingleProofs!callVars, SingleProofs!cacheVars
<1>3. UNCHANGED transactionVars => UNCHANGED TransactionProofs!vars
  BY DEF transactionVars, TransactionProofs!vars, TransactionProofs!callVars,
         TransactionProofs!batchVars, TransactionProofs!execVars,
         TransactionProofs!redisVars, TransactionProofs!histVars
<1>4. UNCHANGED sceneVars => UNCHANGED <<vars, commandVars, transactionVars>>
  BY DEF sceneVars
<1> QED
  BY <1>1, <1>2, <1>3, <1>4, SingleNext, TransactionNext DEF ScenesNext

\* So the scenes implement each component.
LEMMA ScenesImplement ==
  ScenesSpec => Spec /\ SingleProofs!Spec /\ TransactionProofs!Spec
BY SceneSteps, PTL DEF ScenesSpec, Spec, SingleProofs!Spec, TransactionProofs!Spec

\* async0 of the commands beside the scripts: after Ok no cache holds what the
\* write replaced, for every set of commands, keys, nodes and caches.
THEOREM CachesAreFresh == ASSUME ScenesAssumption PROVE ScenesSpec => []FreshAfterOk
<1> DEFINE Typed == Single!TypeOK
<1>0. SingleProofs!TypeOK => Typed
  BY DEF Typed, Single!TypeOK, SingleProofs!TypeOK, Single!Name,
         SingleProofs!Name, Single!PipelineName, SingleProofs!PipelineName,
         Single!Request, SingleProofs!Request, Single!Downgrade,
         SingleProofs!Downgrade, Single!KeyVariants, SingleProofs!KeyVariants,
         Single!ExpiryVariants, SingleProofs!ExpiryVariants, Single!HashVariants,
         SingleProofs!HashVariants, Single!SetVariants, SingleProofs!SetVariants,
         Single!SortedSetVariants, SingleProofs!SortedSetVariants,
         Single!ScriptVariants, SingleProofs!ScriptVariants, Single!SortVariants,
         SingleProofs!SortVariants, Single!WaitVariants, SingleProofs!WaitVariants
<1> HIDE DEF Typed
<1>a. SingleProofs!FreshAfterOk => Single!FreshAfterOk
  BY DEF Single!FreshAfterOk, SingleProofs!FreshAfterOk, Single!IsWrite,
         SingleProofs!IsWrite, Single!Key, SingleProofs!Key,
         Single!routing_key, SingleProofs!routing_key,
         Single!is_read_only, SingleProofs!is_read_only
<1>1. SingleProofs!TypeOK /\ SingleProofs!FreshAfterOk => FreshAfterOk
  BY <1>0, <1>a DEF FreshAfterOk, Typed
<1>2. /\ SingleProofs!Spec => []SingleProofs!TypeOK
      /\ SingleProofs!Spec => []SingleProofs!FreshAfterOk
  BY SingleAssumption, SingleProofs!TypeCorrect, SingleProofs!EvictionIsComplete
     DEF ScenesAssumption
<1> QED
  BY <1>1, <1>2, ScenesImplement, PTL

\* RedisCommand::execute: no name is unknown twice, whichever calls lower the flags
\* and whenever the servers are upgraded.
THEOREM NoNameIsUnknown == ASSUME ScenesAssumption PROVE ScenesSpec => []NeverUnknown
<1>1. SingleProofs!NeverUnknown => NeverUnknown
  BY DEF NeverUnknown, Single!NeverUnknown, SingleProofs!NeverUnknown
<1>2. SingleProofs!Spec => []SingleProofs!NeverUnknown
  BY SingleAssumption, SingleProofs!FallbackEnds DEF ScenesAssumption
<1> QED
  BY <1>1, <1>2, ScenesImplement, PTL

\* The transaction is configured as it is proved to be.
LEMMA TransactionAssumption ==
  ASSUME ScenesAssumption
  PROVE  TransactionProofs!ConfigAssumption /\ Null \notin Commands
BY DEF ScenesAssumption, Transaction!ConfigAssumption, TransactionProofs!ConfigAssumption

\* distribute_exec_results: while the batch keeps to one connection and Redis got
\* nothing else there, no caller gets the reply of another, whoever else uses the
\* pool.
THEOREM RepliesAreOwn ==
  ASSUME ScenesAssumption PROVE ScenesSpec => []ReplyIsOwn
<1>1. TransactionProofs!ReplyIsOwn => ReplyIsOwn
  BY DEF ReplyIsOwn, Transaction!ReplyIsOwn, TransactionProofs!ReplyIsOwn,
         Transaction!Intact, TransactionProofs!Intact, Transaction!Callers,
         TransactionProofs!Callers, Transaction!Range, TransactionProofs!Range
<1>2. TransactionProofs!Spec => []TransactionProofs!ReplyIsOwn
  BY TransactionAssumption, TransactionProofs!RepliesAreOwn
<1> QED
  BY <1>1, <1>2, ScenesImplement, PTL

\* execute_async: while the batch keeps to one connection nothing runs before the
\* EXEC.
THEOREM NothingRunsEarly ==
  ASSUME ScenesAssumption PROVE ScenesSpec => []IntactAwaitsExec
<1>1. TransactionProofs!IntactAwaitsExec => IntactAwaitsExec
  BY DEF IntactAwaitsExec, Transaction!IntactAwaitsExec,
         TransactionProofs!IntactAwaitsExec, Transaction!Intact,
         TransactionProofs!Intact, Transaction!CommandsAwaitExec,
         TransactionProofs!CommandsAwaitExec, Transaction!Callers,
         TransactionProofs!Callers, Transaction!Range, TransactionProofs!Range
<1>2. TransactionProofs!Spec => []TransactionProofs!IntactAwaitsExec
  BY TransactionAssumption, TransactionProofs!CommandsWait
<1> QED
  BY <1>1, <1>2, ScenesImplement, PTL

\* The transaction is atomic while the batch keeps to one connection, and its
\* callers are told the same.
THEOREM TransactionIsAtomic ==
  ASSUME ScenesAssumption PROVE ScenesSpec => []TransactionAllOrNothing
<1>1. TransactionProofs!TransactionAllOrNothing => TransactionAllOrNothing
  BY DEF TransactionAllOrNothing, Transaction!TransactionAllOrNothing,
         TransactionProofs!TransactionAllOrNothing, Transaction!Intact,
         TransactionProofs!Intact, Transaction!Range, TransactionProofs!Range
<1>2. TransactionProofs!Spec => []TransactionProofs!TransactionAllOrNothing
  BY TransactionAssumption, TransactionProofs!TransactionIsAtomic
<1> QED
  BY <1>1, <1>2, ScenesImplement, PTL

\* async0 and discard_async: what failed has not run while the batch keeps to one
\* connection, unless a reply came too late.
THEOREM FailuresAreTrue ==
  ASSUME ScenesAssumption PROVE ScenesSpec => []FailedNeverRan
<1>1. TransactionProofs!FailedNeverRan => FailedNeverRan
  BY DEF FailedNeverRan, Transaction!FailedNeverRan,
         TransactionProofs!FailedNeverRan, Transaction!Intact,
         TransactionProofs!Intact, Transaction!Callers,
         TransactionProofs!Callers, Transaction!Range, TransactionProofs!Range
<1>2. TransactionProofs!Spec => []TransactionProofs!FailedNeverRan
  BY TransactionAssumption, TransactionProofs!FailuresAreTrue
<1> QED
  BY <1>1, <1>2, ScenesImplement, PTL
=============================================================================
