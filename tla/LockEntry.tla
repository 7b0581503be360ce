------------------------------ MODULE LockEntry ------------------------------
(***************************************************************************)
(* The renewal bookkeeping of one lock (renewal/lock_entry.rs): a counter  *)
(* and a lock name per thread, and the queue of the threads in the order   *)
(* of their calls, from which a thread goes only when its counter is zero. *)
(* The renewal task that owns entries is not compiled; any order of calls  *)
(* is allowed here, one at a time: the methods take &mut self.             *)
(***************************************************************************)
EXTENDS Naturals, Sequences, Functions, Maps

CONSTANTS Threads, LockNames,
  MaxQueue  \* bound on the queue: it grows with every re-entrance

VARIABLES
  thread2lock_name, thread_counter, threads_queue,
  holds  \* the threads that hold the lock, from when, how often, by what name

vars == <<thread2lock_name, thread_counter, threads_queue, holds>>

Init ==
  /\ thread2lock_name = <<>>
  /\ thread_counter = <<>>
  /\ threads_queue = <<>>
  /\ holds = <<>>

\* The place in holds of a thread that is there.
HoldOf(t) == CHOOSE i \in DOMAIN holds : holds[i].thread = t

\* Thread t has taken the lock, once more or for the first time.
Taken(t, lock_name) ==
  IF \E i \in DOMAIN holds : holds[i].thread = t
  THEN [holds EXCEPT ![HoldOf(t)].times = @ + 1]
  ELSE Append(holds, [thread |-> t, times |-> 1, name |-> lock_name])

\* Thread t has released it once; with its last release it is out.
Released(t) ==
  LET i == HoldOf(t) IN
  IF holds[i].times > 1 THEN [holds EXCEPT ![i].times = @ - 1]
  ELSE SubSeq(holds, 1, i - 1) \o SubSeq(holds, i + 1, Len(holds))

\* VecDeque::retain: the elements of s that are in S, in their order.
retain(s, S) ==
  LET kept[n \in 0 .. Len(s)] ==
        IF n = 0 THEN <<>>
        ELSE IF s[n] \in S THEN Append(kept[n - 1], s[n]) ELSE kept[n - 1]
  IN  kept[Len(s)]

\* A thread that is there already keeps the name it came with.
add_thread_id(t, lock_name) ==
  LET counter == IF t \in DOMAIN thread_counter THEN thread_counter[t] ELSE 0 IN
  /\ Len(threads_queue) < MaxQueue
  /\ thread_counter' = Insert(thread_counter, t, counter + 1)
  /\ threads_queue' = Append(threads_queue, t)
  /\ thread2lock_name' = IF t \in DOMAIN thread2lock_name THEN thread2lock_name
                         ELSE Insert(thread2lock_name, t, lock_name)
  /\ holds' = Taken(t, lock_name)

Without(map, t) == Restrict(map, DOMAIN map \ {t})

\* Mutant: only the oldest place in the queue is given up.
remove_thread_id_oldest(t) ==
  /\ t \in DOMAIN thread_counter
  /\ holds' = Released(t)
  /\ IF thread_counter[t] > 1
     THEN /\ thread_counter' = [thread_counter EXCEPT ![t] = @ - 1]
          /\ UNCHANGED <<thread2lock_name, threads_queue>>
     ELSE /\ thread_counter' = Without(thread_counter, t)
          /\ thread2lock_name' = Without(thread2lock_name, t)
          /\ \E i \in DOMAIN threads_queue :
               /\ threads_queue[i] = t /\ \A j \in 1 .. i - 1 : threads_queue[j] # t
               /\ threads_queue' = SubSeq(threads_queue, 1, i - 1)
                                     \o SubSeq(threads_queue, i + 1, Len(threads_queue))

\* An unknown thread changes nothing.
remove_thread_id(t) ==
  /\ t \in DOMAIN thread_counter
  /\ holds' = Released(t)
  /\ IF thread_counter[t] > 1
     THEN /\ thread_counter' = [thread_counter EXCEPT ![t] = @ - 1]
          /\ UNCHANGED <<thread2lock_name, threads_queue>>
     ELSE /\ thread_counter' = Without(thread_counter, t)
          /\ thread2lock_name' = Without(thread2lock_name, t)
          /\ threads_queue' = retain(threads_queue, Threads \ {t})

has_no_threads == threads_queue = <<>>

\* An Option: empty, or the name.
get_first_lock_name ==
  IF threads_queue # <<>> /\ Head(threads_queue) \in DOMAIN thread2lock_name
  THEN <<thread2lock_name[Head(threads_queue)]>> ELSE <<>>

Next ==
  \E t \in Threads :
    \/ \E lock_name \in LockNames : add_thread_id(t, lock_name)
    \/ remove_thread_id(t)

Spec == Init /\ [][Next]_vars

-----------------------------------------------------------------------------
\* get_first_lock_name (the lock_name of the first thread in the queue, which
\* the renewal script looks for): it is always the name of the thread that has
\* held the lock longest, as that thread first gave it, and there is none, and
\* has_no_threads says so, exactly when nobody holds the lock any more.
FirstHolds ==
  /\ get_first_lock_name = IF holds = <<>> THEN <<>> ELSE <<holds[1].name>>
  /\ has_no_threads <=> holds = <<>>
==============================================================================
