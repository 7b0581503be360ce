-------------------------- MODULE RedissonLockEntry --------------------------
(***************************************************************************)
(* The wait entry of one lock (pubsub/redisson_lock_entry.rs): the tasks   *)
(* that wait for the lock and the tokio Notify that wakes them.            *)
(*                                                                         *)
(* Nothing that is compiled uses it yet.  The lock, the messages that its  *)
(* release sends, and the callers are external: a caller registers, tries  *)
(* the lock, waits when that failed, tries again after every wait, and     *)
(* leaves.  So is Notify: notify_one wakes the task that has waited        *)
(* longest, or leaves one permit for the next; notify_waiters wakes those  *)
(* that wait at that moment.  A task that was woken by notify_one and      *)
(* goes on for another reason passes the wake-up on.                       *)
(***************************************************************************)
EXTENDS Integers, FiniteSets, Sequences, Functions

SE == INSTANCE SequencesExt

CONSTANTS
  Tasks,
  MaxUnlocks,  \* bound on releases of the lock by others
  MaxTimeouts  \* bound on waits that end by their timer

VARIABLES
  waiters,   \* the registered tasks
  signal,    \* the Notify: is a permit stored, and who is queued
  pc,        \* of each task
  free,      \* the lock
  messages,  \* what was published and has not come yet
  missed,    \* the tasks that try_run_all_listeners came too early for
  unlocks, timeouts

vars == <<waiters, signal, pc, free, messages, missed, unlocks, timeouts>>

UnlockMessages == {"unlock", "read_unlock"}

Init ==
  /\ waiters = <<>>
  /\ signal = [permit |-> FALSE, queue |-> <<>>]
  /\ pc = [t \in Tasks |-> "new"]
  /\ free \in BOOLEAN
  /\ messages = <<>>
  /\ missed = {}
  /\ unlocks = 0
  /\ timeouts = 0

Goto(t, label) == pc' = [pc EXCEPT ![t] = label]

add_waiter(t) ==
  /\ pc[t] = "new"
  /\ waiters' = Append(waiters, t)
  /\ Goto(t, "trying")
  /\ UNCHANGED <<signal, free, messages, missed, unlocks, timeouts>>

\* Whoever leaves, the last of the list goes: it is good for counting only.
remove_waiter(t) ==
  /\ pc[t] \in {"failed", "released"}
  /\ waiters' = SE!Front(waiters)
  /\ Goto(t, "left")
  /\ UNCHANGED <<signal, free, messages, missed, unlocks, timeouts>>

waiters_count == Len(waiters)
is_empty == waiters = <<>>

TryLock(t) ==
  /\ pc[t] = "trying"
  /\ Goto(t, IF free THEN "holding" ELSE "failed")
  /\ free' = FALSE
  /\ UNCHANGED <<waiters, signal, messages, missed, unlocks, timeouts>>

\* The release and what it publishes.
Unlock(t) ==
  /\ pc[t] = "holding"
  /\ Goto(t, "released")
  /\ free' = TRUE
  /\ messages' = Append(messages, "unlock")
  /\ UNCHANGED <<waiters, signal, missed, unlocks, timeouts>>

\* Some other process has the lock, as one of its readers or not, or takes it.
OtherUnlocks ==
  /\ unlocks < MaxUnlocks
  /\ ~free /\ \A t \in Tasks : pc[t] # "holding"
  /\ free' = TRUE
  /\ \E message \in UnlockMessages : messages' = Append(messages, message)
  /\ unlocks' = unlocks + 1
  /\ UNCHANGED <<waiters, signal, pc, missed, timeouts>>

OtherLocks ==
  /\ free
  /\ free' = FALSE
  /\ UNCHANGED <<waiters, signal, pc, messages, missed, unlocks, timeouts>>

\* A task is "woken" by notify_one and "called" by notify_waiters; labels is where
\* the tasks are otherwise.
notify_one(labels) ==
  IF signal.queue = <<>>
  THEN /\ signal' = [signal EXCEPT !.permit = TRUE]
       /\ pc' = labels
  ELSE /\ signal' = [signal EXCEPT !.queue = Tail(@)]
       /\ pc' = [labels EXCEPT ![Head(signal.queue)] = "woken"]

notify_waiters ==
  /\ signal' = [signal EXCEPT !.queue = <<>>]
  /\ pc' = [t \in Tasks |-> IF t \in Range(signal.queue) THEN "called" ELSE pc[t]]

\* Mutant: every message calls those that wait.
try_run_listener_all ==
  /\ messages # <<>> /\ Head(messages) = "unlock"
  /\ messages' = Tail(messages)
  /\ notify_waiters
  /\ UNCHANGED <<waiters, free, missed, unlocks, timeouts>>

try_run_listener ==
  /\ messages # <<>> /\ Head(messages) = "unlock"
  /\ messages' = Tail(messages)
  /\ notify_one(pc)
  /\ UNCHANGED <<waiters, free, missed, unlocks, timeouts>>

\* No permit is left for a task between its attempt and its wait.
try_run_all_listeners ==
  /\ messages # <<>> /\ Head(messages) = "read_unlock"
  /\ messages' = Tail(messages)
  /\ notify_waiters
  /\ missed' = missed \cup {t \in Tasks : pc[t] = "failed"}
  /\ UNCHANGED <<waiters, free, unlocks, timeouts>>

\* wait begins: it takes the permit, or its place in the queue.
wait(t) ==
  /\ pc[t] = "failed"
  /\ IF signal.permit
     THEN /\ signal' = [signal EXCEPT !.permit = FALSE]
          /\ Goto(t, "woken")
     ELSE /\ signal' = [signal EXCEPT !.queue = Append(@, t)]
          /\ Goto(t, "asleep")
  /\ UNCHANGED <<waiters, free, messages, missed, unlocks, timeouts>>

\* wait returns because it was woken,
WakeUp(t) ==
  /\ pc[t] \in {"woken", "called"}
  /\ Goto(t, "trying")
  /\ missed' = missed \ {t}
  /\ UNCHANGED <<waiters, signal, free, messages, unlocks, timeouts>>

\* or after a minute, be it that it was woken at that very moment.
Timeout(t) ==
  LET gone == [pc EXCEPT ![t] = "trying"] IN
  /\ timeouts < MaxTimeouts
  /\ timeouts' = timeouts + 1
  /\ \/ /\ pc[t] = "asleep"
        /\ \E i \in DOMAIN signal.queue :
             /\ signal.queue[i] = t
             /\ signal' = [signal EXCEPT !.queue = SE!RemoveAt(@, i)]
        /\ pc' = gone
     \/ pc[t] = "woken" /\ notify_one(gone)
  /\ missed' = missed \ {t}
  /\ UNCHANGED <<waiters, free, messages, unlocks>>

Next ==
  \/ OtherUnlocks
  \/ OtherLocks
  \/ try_run_listener
  \/ try_run_all_listeners
  \/ \E t \in Tasks :
       \/ add_waiter(t)
       \/ remove_waiter(t)
       \/ TryLock(t)
       \/ Unlock(t)
       \/ wait(t)
       \/ WakeUp(t)
       \/ Timeout(t)

Spec == Init /\ [][Next]_vars

-----------------------------------------------------------------------------
TypeOK ==
  /\ pc \in [Tasks -> {"new", "trying", "failed", "asleep", "woken", "called",
                       "holding", "released", "left"}]
  /\ waiters_count = Cardinality({t \in Tasks : pc[t] \notin {"new", "left"}})
  /\ is_empty <=> \A t \in Tasks : pc[t] \in {"new", "left"}
  /\ Range(signal.queue) = {t \in Tasks : pc[t] = "asleep"}
  /\ IsInjective(signal.queue)
  /\ Range(messages) \subseteq UnlockMessages
  /\ missed \subseteq Tasks

\* try_run_listener (wakes one waiter on an UNLOCK_MESSAGE) and wait: nobody
\* sleeps beside a free lock.  Once every message has come, a task that sleeps
\* although the lock is free has another one awake that will try the lock before
\* it, wherever between its attempt and its wait the message came.  The exception
\* is a task that try_run_all_listeners came too early for.
UnlockIsHeard ==
  free /\ messages = <<>> =>
    \A t \in Tasks : pc[t] = "asleep" =>
      \/ t \in missed
      \/ \E u \in Tasks : pc[u] \in {"woken", "called", "trying"}
==============================================================================
