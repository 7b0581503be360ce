---------------------------- MODULE ExecutorScenes ----------------------------
(***************************************************************************)
(* Three ways to have commands executed, in scenes that share no state:    *)
(* scripts (SyncedEval itself), single commands (an instance of            *)
(* CommandExecutor), and a transaction queued in Redis (an instance of     *)
(* RedisQueueBatch, whose pool may have other users, replies that come too *)
(* late and connections that break).                                       *)
(***************************************************************************)
EXTENDS SyncedEval

CONSTANTS
  Issued, CommandOf, Pipelined, Keys, MasterOf, Old, ReadFromReplica, Instances,
  CommandLosses,
  Commands, Foreign, WaitCalls, Hosts, HostOf, PoolSize, Null, SkipResult, SyncSlaves,
  MaxTimeouts, ConnectionLosses

VARIABLES
  scene,
  cmd_pc, request, sends, cmd_result, todo, wrote, unsupported, store, old,
  registered, cache, reading, cmd_losses, late,
  rq_pc, rq_idx, rq_answer, rq_executed, rq_next_index, rq_slot, rq_entries,
  rq_holder, rq_phase, rq_discard, rq_taken, rq_execReply, rq_synced,
  rq_responses, rq_target, rq_turn, rq_txn, rq_log, rq_timeouts, rq_losses,
  rq_used, rq_lost, rq_strays, rq_unheard

commandVars ==
  <<cmd_pc, request, sends, cmd_result, todo, wrote, unsupported, store, old,
    registered, cache, reading, cmd_losses, late>>

transactionVars ==
  <<rq_pc, rq_idx, rq_answer, rq_executed, rq_next_index, rq_slot, rq_entries,
    rq_holder, rq_phase, rq_discard, rq_taken, rq_execReply, rq_synced,
    rq_responses, rq_target, rq_turn, rq_txn, rq_log, rq_timeouts, rq_losses,
    rq_used, rq_lost, rq_strays, rq_unheard>>

sceneVars == <<vars, commandVars, transactionVars, scene>>

Single == INSTANCE CommandExecutor WITH
  Calls <- Issued, NodeOf <- MasterOf, MaxLosses <- CommandLosses,
  pc <- cmd_pc, result <- cmd_result, losses <- cmd_losses

Transaction == INSTANCE RedisQueueBatch WITH
  Nodes <- Hosts, NodeOf <- HostOf, MaxLosses <- ConnectionLosses,
  pc <- rq_pc, idx <- rq_idx, answer <- rq_answer, executed <- rq_executed,
  next_index <- rq_next_index, slot <- rq_slot, entries <- rq_entries,
  holder <- rq_holder, phase <- rq_phase, discard <- rq_discard,
  taken <- rq_taken, execReply <- rq_execReply, synced <- rq_synced,
  responses <- rq_responses, target <- rq_target, turn <- rq_turn,
  txn <- rq_txn, log <- rq_log, timeouts <- rq_timeouts, losses <- rq_losses,
  used <- rq_used, lost <- rq_lost, strays <- rq_strays, unheard <- rq_unheard

ScenesAssumption ==
  /\ ConfigAssumption
  /\ Single!CommandAssumption
  /\ Transaction!ConfigAssumption /\ Null \notin Commands

ScenesInit ==
  /\ Init
  /\ Single!Init
  /\ Transaction!Init
  /\ scene \in {"scripts", "commands", "transaction"}
  /\ scene # "scripts" =>
       route = home /\ home = [s \in Slots |-> CHOOSE n \in Nodes : TRUE]

ScenesNext ==
  /\ UNCHANGED scene
  /\ \/ scene = "scripts" /\ Next /\ UNCHANGED <<commandVars, transactionVars>>
     \/ scene = "commands" /\ Single!Next /\ UNCHANGED <<vars, transactionVars>>
     \/ scene = "transaction" /\ Transaction!Next /\ UNCHANGED <<vars, commandVars>>

ScenesSpec == ScenesInit /\ [][ScenesNext]_sceneVars

-----------------------------------------------------------------------------
(* The properties of the two instances.  Those of SyncedEval hold by their   *)
(* own names: in the other scenes its variables keep their first values.     *)

\* async0: after Ok no cache holds what the write replaced (and the variables
\* keep their types).
FreshAfterOk == Single!TypeOK /\ Single!FreshAfterOk

\* RedisCommand::execute: no command fails because its name is unknown, and the
\* fallback ends.
NeverUnknown == Single!NeverUnknown

\* While the batch keeps to one connection, every reply of the array of EXEC goes
\* to the caller whose command it answers.
ReplyIsOwn == Transaction!ReplyIsOwn

\* While the batch keeps to one connection, nothing runs before EXEC.
IntactAwaitsExec == Transaction!IntactAwaitsExec

\* While the batch keeps to one connection, the transaction runs as a whole or not
\* at all, and its callers agree on which.
TransactionAllOrNothing == Transaction!TransactionAllOrNothing

\* While the batch keeps to one connection, a command that is told to have failed
\* has run only if a reply came too late.
FailedNeverRan == Transaction!FailedNeverRan
===============================================================================
