---------------------------- MODULE MCConnections ----------------------------
(* The connection manager itself (its instances are in MCConnectionManager), *)
(* and in a second scene that shares no state with it an instance of         *)
(* PatternPubSub: adds and removals of one pattern race on the subscriber's  *)
(* connections while a command fails.                                        *)
EXTENDS MCConnectionManager

CONSTANTS k1, k2, key, e1, e2, Client

VARIABLES
  scene,
  ps_pc, ps_already, ps_waiting, ps_broken, ps_listener_map, ps_subscribed,
  ps_tracked, ps_resub, ps_listed, ps_inbox, ps_published, ps_lagged, ps_owed,
  ps_got, ps_failures, ps_reconnects, ps_raced, ps_refused

subscriptionVars ==
  <<ps_pc, ps_already, ps_waiting, ps_broken, ps_listener_map, ps_subscribed,
    ps_tracked, ps_resub, ps_listed, ps_inbox, ps_published, ps_lagged,
    ps_owed, ps_got, ps_failures, ps_reconnects, ps_raced, ps_refused>>

Removal == INSTANCE PatternPubSub WITH
  Listeners <- {k1, k2}, Leavers <- {k1, k2}, Patterns <- {key},
  PatternOf <- [l \in {k1, k2} |-> key], KeyspacePatterns <- {key},
  Cluster <- TRUE, Nodes <- {n1, n2}, Messages <- {e1, e2}, Events <- {e1, e2},
  Matching <- [m \in {e1, e2} |-> {key}],
  Origin <- [m \in {e1, e2} |-> IF m = e1 THEN n1 ELSE n2],
  Capacity <- 1, MaxFailures <- 1, MaxReconnects <- 0,
  pc <- ps_pc, already <- ps_already, waiting <- ps_waiting, broken <-
  ps_broken, listener_map <- ps_listener_map, subscribed <- ps_subscribed,
  tracked <- ps_tracked, resub <- ps_resub, listed <- ps_listed, inbox <-
  ps_inbox, published <- ps_published, lagged <- ps_lagged, owed <- ps_owed,
  got <- ps_got, failures <- ps_failures, reconnects <- ps_reconnects,
  raced <- ps_raced, refused <- ps_refused

ASSUME Removal!ConfigAssumption

\* The other scene needs only one of the manager's initial states.
ScenesInit ==
  /\ Init
  /\ Removal!Init
  /\ \/ scene = "manager"
     \/ scene = "removal" /\ config = Default(n1) /\ ~sharded

ScenesNext ==
  /\ UNCHANGED scene
  /\ \/ scene = "manager" /\ Next /\ UNCHANGED subscriptionVars
     \/ scene = "removal" /\ Removal!Next /\ UNCHANGED vars

ScenesSpec == ScenesInit /\ [][ScenesNext]_<<vars, subscriptionVars, scene>>

-----------------------------------------------------------------------------
\* RemovedIsSilent: a listener gets nothing after its remove_listener returned,
\* nor after its add_listener failed, whatever calls race.
RemovedIsSilent == Removal!RemovedIsSilent
==============================================================================
