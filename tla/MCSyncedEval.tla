---------------------------- MODULE MCSyncedEval -----------------------------
(* Instances of SyncedEval for TLC: one call of any kind, with one script;   *)
(* the second node is there for what goes astray.                            *)
EXTENDS SyncedEval

CONSTANTS x, n1, n2, s1, sha

MCScriptOf == [c \in Calls |-> sha]
MCSlotOf   == [c \in Calls |-> s1]
\* Redis 7.2 and Redis 6
MCKnows == [n \in Nodes |-> IF n = n1 THEN {"WAIT", "WAITAOF", "EVALSHA_RO"} ELSE {"WAIT"}]
MCReplicas == [n \in Nodes |-> IF n = n1 THEN 1 ELSE 0]
=============================================================================
