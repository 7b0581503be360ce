----------------------------- MODULE PubSubScenes -----------------------------
(***************************************************************************)
(* Subscriptions in scenes that share no state: calls that race, over a    *)
(* reconnection and a failing command (PatternPubSub itself), what a       *)
(* listener hears of overlapping patterns (Registry), the glob by itself,  *)
(* and the two entries of a lock, to be waited for and to be renewed.      *)
(***************************************************************************)
EXTENDS PatternPubSub, Glob

CONSTANTS
  Hearers, TopicOf, Quitters, Copied, Addresses, Unallocated, RegistryFailures,
  Tasks, MaxUnlocks, MaxTimeouts,
  Threads, LockNames, MaxQueue,
  Globs  \* patterns and texts for the glob

VARIABLES
  scene,
  glob,  \* the pattern that GlobAgrees looks at
  reg_pc, leaving, id, listeners, reg_subscribed, disturbed, astray, reg_inbox, todo,
  copies, dropped, reg_owed, heard, reg_failures,
  waiters, signal, wait_pc, free, messages, missed, unlocks, timeouts,
  thread2lock_name, thread_counter, threads_queue, holds

Registry == INSTANCE ListenerRegistry WITH
  Listeners <- Hearers, PatternOf <- TopicOf, Leavers <- Quitters, Messages <- Copied,
  MaxFailures <- RegistryFailures, pc <- reg_pc, subscribed <- reg_subscribed,
  inbox <- reg_inbox, owed <- reg_owed, failures <- reg_failures

Waiting == INSTANCE RedissonLockEntry WITH pc <- wait_pc

Renewal == INSTANCE LockEntry

ScenesAssumption ==
  /\ ConfigAssumption
  /\ Registry!RegistryAssumption
  /\ \A g \in Globs : g \in Seq(STRING)

\* Only the waiting scene needs the lock free at first.
ScenesInit ==
  /\ scene \in {"live", "registry", "globs", "waiting", "renewal"}
  /\ Init
  /\ Registry!Init
  /\ Waiting!Init /\ (free => scene = "waiting")
  /\ Renewal!Init
  /\ IF scene = "globs" THEN glob \in Globs ELSE glob = <<>>

regVars ==
  <<reg_pc, leaving, id, listeners, reg_subscribed, disturbed, astray, reg_inbox, todo,
    copies, dropped, reg_owed, heard, reg_failures>>
waitVars == <<waiters, signal, wait_pc, free, messages, missed, unlocks, timeouts>>
renewVars == <<thread2lock_name, thread_counter, threads_queue, holds>>
sceneVars == <<vars, regVars, waitVars, renewVars, scene, glob>>

ScenesNext ==
  /\ UNCHANGED <<scene, glob>>
  /\ \/ scene = "live" /\ Next /\ UNCHANGED <<regVars, waitVars, renewVars>>
     \/ scene = "registry" /\ Registry!Next /\ UNCHANGED <<vars, waitVars, renewVars>>
     \/ scene = "waiting" /\ Waiting!Next /\ UNCHANGED <<vars, regVars, renewVars>>
     \/ scene = "renewal" /\ Renewal!Next /\ UNCHANGED <<vars, regVars, waitVars>>

ScenesSpec == ScenesInit /\ [][ScenesNext]_sceneVars

-----------------------------------------------------------------------------
(* The properties of the instances.  Those of PatternPubSub hold by their    *)
(* own names: in the other scenes its variables keep their first values.     *)

\* RemoveTakesOwn: removing an id takes its own listener, whatever addresses
\* were used before (and the variables keep their types).
RemoveTakesOwn == Registry!TypeOK /\ Registry!RemoveTakesOwn

\* HearsEveryCopy: a listener hears every copy of what its pattern matches.
HearsEveryCopy == Registry!HearsEveryCopy

\* redis_glob_matches (the recursion of glob_inner): a text matches exactly if it
\* can be cut into pieces for the characters of the pattern, for all patterns
\* and texts of Globs, empty ones included.
GlobAgrees ==
  scene = "globs" =>
    \A t \in Globs : redis_glob_matches(glob, t) <=> Matches(glob, t)

\* UnlockIsHeard: nobody sleeps beside a free lock because its message came in
\* the wrong moment (and the waiters are counted).
UnlockIsHeard == Waiting!TypeOK /\ Waiting!UnlockIsHeard

\* FirstHolds: what is renewed is the lock of the thread that holds it longest.
FirstHolds == Renewal!FirstHolds
===============================================================================
