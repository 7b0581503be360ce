---------------------------- MODULE PatternPubSub ----------------------------
(***************************************************************************)
(* The pattern subscriptions of PublishSubscribeService, through the       *)
(* add_listener and remove_listener of a pattern topic.  One service keeps *)
(* a concurrent map from pattern to listeners; the first listener of a     *)
(* pattern subscribes at Redis, the last one to leave unsubscribes.  A     *)
(* keyspace pattern of a cluster is subscribed at every master, any other  *)
(* pattern once, by fred's SubscriberClient.                               *)
(*                                                                         *)
(* pattern_listeners and keyspace_pattern_listeners are one map here: a    *)
(* pattern is in one or the other for good.  Redis and fred are external.  *)
(***************************************************************************)
EXTENDS Integers, Sequences, Functions, FiniteSets, Maps

SE == INSTANCE SequencesExt

CONSTANTS
  Listeners,        \* each is added once, and has an id of its own
  Leavers,          \* the listeners that may be removed again
  Patterns,
  PatternOf,        \* the pattern topic a listener is added to
  KeyspacePatterns, \* is_keyspace()
  Cluster,          \* config.mode
  Nodes,            \* the masters of get_entry_set()
  Client,           \* the connection of the SubscriberClient
  Messages,
  Events,           \* the messages that are keyspace notifications
  Matching,         \* the patterns whose glob matches a message's channel
  Origin,           \* the connection whose server sees the message
  Capacity,         \* of the broadcast channels message_rx, keyspace_event_rx
  MaxFailures,      \* bound on failing subscribe commands
  MaxReconnects     \* bound on lost connections

Connections == Nodes \cup {Client}

\* Where a pattern is subscribed.
Targets(p) == IF Cluster /\ p \in KeyspacePatterns THEN Nodes ELSE {Client}

ConfigAssumption ==
  /\ Leavers \subseteq Listeners
  /\ IsFiniteSet(Patterns)
  /\ PatternOf \in [Listeners -> Patterns]
  /\ KeyspacePatterns \subseteq Patterns
  /\ Cluster \in BOOLEAN
  /\ Client \notin Nodes
  /\ Events \subseteq Messages
  /\ Matching \in [Messages -> SUBSET Patterns]
  /\ \A m \in Messages : \A p \in Matching[m] :
       (m \in Events) <=> (p \in KeyspacePatterns)
  /\ \A m \in Messages : \A p \in Matching[m] : Origin[m] \in Targets(p)
  /\ Origin \in [Messages -> Connections]
  /\ Capacity \in Nat \ {0}
  /\ {MaxFailures, MaxReconnects} \subseteq Nat

VARIABLES
  pc,            \* each listener's add_listener, then its remove_listener
  already,       \* what contains_key said
  waiting,       \* servers that have not answered yet
  broken,        \* one of them answered with an error
  listener_map,  \* pattern -> listeners, for the patterns with an entry
  subscribed,    \* Redis: the connections a pattern is subscribed on
  tracked,       \* fred: the patterns the SubscriberClient resubscribes
  resub,         \* the task a reconnection starts: "idle", "woken", "listed"
  listed,        \* the patterns it read from the map
  inbox,         \* the two broadcast channels
  published, lagged, owed, got,
  failures, reconnects,
  raced,         \* the patterns an addition and a removal worked on at once
  refused        \* those a command failed for, by its kind

callVars == <<pc, already, waiting, broken>>
subVars  == <<subscribed, tracked, refused>>
connVars == <<resub, listed, reconnects>>
msgVars  == <<inbox, published, lagged, owed, got>>
vars == <<callVars, listener_map, subVars, connVars, msgVars, failures, raced>>

Init ==
  /\ pc = [l \in Listeners |-> "new"]
  /\ already = [l \in Listeners |-> FALSE]
  /\ waiting = [l \in Listeners |-> {}]
  /\ broken = [l \in Listeners |-> FALSE]
  /\ listener_map = <<>>
  /\ subscribed = [p \in Patterns |-> {}]
  /\ tracked = {}
  /\ resub = [n \in Connections |-> "idle"]
  /\ listed = [n \in Connections |-> {}]
  /\ inbox = [kind \in {"message", "keyspace"} |-> <<>>]
  /\ published = {}
  /\ lagged = {}
  /\ owed = {}
  /\ got = {}
  /\ failures = 0
  /\ reconnects = 0
  /\ raced = {}
  /\ refused = [command \in {"psubscribe", "punsubscribe"} |-> {}]

InCall(l) == pc[l] \notin {"new", "added", "failed", "removed"}

\* Somebody else is at one of these places with pattern p.
Others(l, places) ==
  \E k \in Listeners \ {l} : PatternOf[k] = PatternOf[l] /\ pc[k] \in places

\* A call meets one of the other kind in the middle of its work.
Race(l, met) == raced' = IF met THEN raced \cup {PatternOf[l]} ELSE raced

Refused(command, ps) == refused' = [refused EXCEPT ![command] = @ \cup ps]

Goto(l, to) == pc' = [pc EXCEPT ![l] = to]

-----------------------------------------------------------------------------
(* add_listener: psubscribe with one new listener                            *)

Contains(l) ==
  /\ pc[l] = "new"
  /\ Goto(l, "adding")
  /\ already' = [already EXCEPT ![l] = PatternOf[l] \in DOMAIN listener_map]
  /\ Race(l, Others(l, {"emptied", "leaving"}))
  /\ UNCHANGED <<waiting, broken, listener_map, subVars, connVars, msgVars, failures>>

\* entry().or_default().extend()
\* Mutant: a listener that joins does not look at who is there.
ExtendedAlone(l) == {l}
Extended(l) ==
  {l} \cup IF PatternOf[l] \in DOMAIN listener_map
           THEN listener_map[PatternOf[l]] ELSE {}

\* Ok at once when the pattern was there, else a PSUBSCRIBE to each target.
Extend(l) ==
  LET p == PatternOf[l]
  IN
  /\ pc[l] = "adding"
  /\ listener_map' = Insert(listener_map, p, Extended(l))
  /\ IF already[l]
     THEN Goto(l, "added") /\ UNCHANGED waiting
     ELSE Goto(l, "joining") /\ waiting' = [waiting EXCEPT ![l] = Targets(p)]
  /\ UNCHANGED <<already, broken, subVars, connVars, msgVars, failures, raced>>

\* Server n answers a PSUBSCRIBE; one that fails may have taken effect.
Subscribe(l, n) ==
  LET p == PatternOf[l]
      TakesEffect == subscribed' = [subscribed EXCEPT ![p] = @ \cup {n}]
  IN
  /\ pc[l] = "joining"
  /\ n \in waiting[l]
  /\ waiting' = [waiting EXCEPT ![l] = @ \ {n}]
  /\ \/ /\ TakesEffect
        /\ tracked' = IF n = Client THEN tracked \cup {p} ELSE tracked
        /\ UNCHANGED <<broken, failures, refused>>
     \/ /\ failures < MaxFailures
        /\ failures' = failures + 1
        /\ broken' = [broken EXCEPT ![l] = TRUE]
        /\ Refused("psubscribe", {p})
        /\ TakesEffect \/ UNCHANGED subscribed
        /\ UNCHANGED tracked
  /\ UNCHANGED <<pc, already, listener_map, connVars, msgVars, raced>>

\* An error clears the listeners of the pattern; the entry stays, empty.
\* Mutant: a failed subscription keeps its listeners.
ClearedNot(p) == listener_map
Cleared(p) ==
  [q \in DOMAIN listener_map |-> IF q = p THEN {} ELSE listener_map[q]]

\* All answers are in (join_all).
SubscribeDone(l) ==
  /\ pc[l] = "joining"
  /\ waiting[l] = {}
  /\ \/ /\ broken[l]
        /\ Goto(l, "failed")
        /\ listener_map' = Cleared(PatternOf[l])
     \/ /\ ~broken[l]
        /\ Goto(l, "added")
        /\ UNCHANGED listener_map
  /\ UNCHANGED <<already, waiting, broken, subVars, connVars, msgVars, failures, raced>>

-----------------------------------------------------------------------------
(* remove_listener with the one id add_listener returned                     *)

Retain(l) ==
  LET p    == PatternOf[l]
      kept == listener_map[p] \ {l}
  IN
  /\ l \in Leavers
  /\ pc[l] = "added"
  /\ IF p \in DOMAIN listener_map
     THEN /\ listener_map' = [listener_map EXCEPT ![p] = kept]
          /\ Goto(l, IF kept = {} THEN "emptied" ELSE "removed")
          /\ Race(l, kept = {} /\ Others(l, {"adding", "joining"}))
     ELSE /\ Goto(l, "removed")
          /\ UNCHANGED <<listener_map, raced>>
  /\ UNCHANGED <<already, waiting, broken, subVars, connVars, msgVars, failures>>

\* Mutant: a cluster unsubscribes at one node only.
LeftAtOne(p) == {CHOOSE n \in Targets(p) : TRUE}
\* Mutant: the SubscriberClient is told too.
LeftEverywhere(p) == Connections
LeftAt(p) == Targets(p)

\* map.remove(): the entry goes, with what was added to it since.
MapRemove(l) ==
  LET p == PatternOf[l]
  IN
  /\ pc[l] = "emptied"
  /\ listener_map' = Restrict(listener_map, DOMAIN listener_map \ {p})
  /\ Goto(l, "leaving")
  /\ waiting' = [waiting EXCEPT ![l] = LeftAt(p)]
  /\ UNCHANGED <<already, broken, subVars, connVars, msgVars, failures, raced>>

Punsubscribe(l, n) ==
  LET p == PatternOf[l]
      TakesEffect == subscribed' = [subscribed EXCEPT ![p] = @ \ {n}]
  IN
  /\ pc[l] = "leaving"
  /\ n \in waiting[l]
  /\ waiting' = [waiting EXCEPT ![l] = @ \ {n}]
  /\ \/ /\ TakesEffect
        /\ tracked' = IF n = Client THEN tracked \ {p} ELSE tracked
        /\ UNCHANGED <<failures, refused>>
     \/ /\ failures < MaxFailures
        /\ failures' = failures + 1
        /\ Refused("punsubscribe", {p})
        /\ TakesEffect \/ UNCHANGED subscribed
        /\ UNCHANGED tracked
  /\ UNCHANGED <<pc, already, broken, listener_map, connVars, msgVars, raced>>

\* Ok or an error: either way the call is over.
PartDone(l) ==
  /\ pc[l] = "leaving"
  /\ waiting[l] = {}
  /\ Goto(l, "removed")
  /\ UNCHANGED <<already, waiting, broken, listener_map, subVars, connVars,
                 msgVars, failures, raced>>

-----------------------------------------------------------------------------
(* Reconnections                                                             *)

\* The server behind n forgets the subscriptions of the old connection.  One
\* task per server at a time: MaxReconnects is as small.
Reconnect(n) ==
  /\ reconnects < MaxReconnects
  /\ resub[n] = "idle"
  /\ n = Client \/ Cluster
  /\ reconnects' = reconnects + 1
  /\ resub' = [resub EXCEPT ![n] = "woken"]
  /\ subscribed' = [p \in Patterns |-> subscribed[p] \ {n}]
  /\ UNCHANGED <<callVars, listener_map, tracked, refused, listed, msgVars, failures,
                 raced>>

\* The keys of keyspace_pattern_listeners for a node of a cluster; fred's own
\* task goes by the patterns it tracks.
\* Mutant: the task goes by them too, and misses what was subscribed node by
\* node.
ToResubscribeTracked(n) == tracked
ToResubscribe(n) ==
  IF n = Client THEN tracked ELSE DOMAIN listener_map \cap KeyspacePatterns

ListPatterns(n) ==
  /\ resub[n] = "woken"
  /\ resub' = [resub EXCEPT ![n] = "listed"]
  /\ listed' = [listed EXCEPT ![n] = ToResubscribe(n)]
  /\ UNCHANGED <<callVars, listener_map, subVars, reconnects, msgVars, failures, raced>>

\* PSUBSCRIBE what was listed.  A failure is logged and nothing tries again.
Resubscribe(n) ==
  /\ resub[n] = "listed"
  /\ resub' = [resub EXCEPT ![n] = "idle"]
  /\ listed' = [listed EXCEPT ![n] = {}]
  /\ \/ /\ subscribed' = [p \in Patterns |->
                            IF p \in listed[n] THEN subscribed[p] \cup {n}
                            ELSE subscribed[p]]
        /\ UNCHANGED <<failures, refused>>
     \/ /\ failures < MaxFailures
        /\ failures' = failures + 1
        /\ Refused("psubscribe", listed[n])
        /\ UNCHANGED subscribed
  /\ UNCHANGED <<callVars, listener_map, tracked, reconnects, msgVars, raced>>

-----------------------------------------------------------------------------
(* Messages                                                                  *)

Kind(m) == IF m \in Events THEN "keyspace" ELSE "message"

\* Nobody is changing pattern p, and none of its connections is recovering.
Quiet(p) ==
  /\ \A l \in Listeners : PatternOf[l] = p => ~InCall(l)
  /\ \A n \in Targets(p) : resub[n] = "idle"

\* A broadcast channel that is full drops its oldest messages.
KeepLatest(queue) ==
  SubSeq(queue, 1 + IF Len(queue) > Capacity THEN Len(queue) - Capacity ELSE 0,
         Len(queue))

\* Redis sends a copy per matching pattern of the connection.
Publish(m) ==
  LET copies == Cardinality({p \in Matching[m] : Origin[m] \in subscribed[p]})
      queue  == inbox[Kind(m)] \o [i \in 1 .. copies |-> m]
      kept   == KeepLatest(queue)
  IN
  /\ m \notin published
  /\ published' = published \cup {m}
  /\ inbox' = [inbox EXCEPT ![Kind(m)] = kept]
  /\ lagged' = lagged \cup {queue[i] : i \in 1 .. Len(queue) - Len(kept)}
  /\ owed' = owed \cup {<<l, m>> : l \in {k \in Listeners :
                /\ pc[k] = "added"
                /\ PatternOf[k] \in Matching[m]
                /\ Quiet(PatternOf[k])}}
  /\ UNCHANGED <<callVars, listener_map, subVars, connVars, got, failures, raced>>

\* A copy goes to the listeners of every pattern that matches the message.
Served(m) == {p \in DOMAIN listener_map : p \in Matching[m]}

\* The two dispatch loops.
Dispatch(kind) ==
  LET m == Head(inbox[kind])
  IN
  /\ inbox[kind] # <<>>
  /\ inbox' = [inbox EXCEPT ![kind] = Tail(@)]
  /\ got' = got \cup ((UNION {listener_map[p] : p \in Served(m)}) \X {m})
  /\ UNCHANGED <<callVars, listener_map, subVars, connVars,
                 published, lagged, owed, failures, raced>>

-----------------------------------------------------------------------------
Call(l) ==
  \/ Contains(l)
  \/ Extend(l)
  \/ \E n \in Connections : Subscribe(l, n)
  \/ SubscribeDone(l)
  \/ Retain(l)
  \/ MapRemove(l)
  \/ \E n \in Connections : Punsubscribe(l, n)
  \/ PartDone(l)

Resubscription(n) == ListPatterns(n) \/ Resubscribe(n)

Next ==
  \/ \E l \in Listeners : Call(l)
  \/ \E n \in Connections : Reconnect(n) \/ Resubscription(n)
  \/ \E m \in Messages : Publish(m)
  \/ \E kind \in DOMAIN inbox : Dispatch(kind)

Spec == Init /\ [][Next]_vars

\* Tasks that can run do run, and Redis or a timeout answers each command.
FairSpec ==
  /\ Spec
  /\ \A l \in Listeners : WF_vars(Call(l) /\ InCall(l))
  /\ \A n \in Connections : WF_vars(Resubscription(n))
  /\ \A kind \in {"message", "keyspace"} : WF_vars(Dispatch(kind))

-----------------------------------------------------------------------------
(* Properties                                                                *)

\* Every variable stays in its type: the map holds a listener only under its
\* own pattern, a pattern is subscribed only where the code subscribes it,
\* and a channel never holds more than its capacity.
TypeOK ==
  /\ pc \in [Listeners -> {"new", "adding", "joining", "added", "failed",
                           "emptied", "leaving", "removed"}]
  /\ {already, broken} \subseteq [Listeners -> BOOLEAN]
  /\ DOMAIN listener_map \subseteq Patterns
  /\ \A p \in DOMAIN listener_map :
       listener_map[p] \subseteq {l \in Listeners : PatternOf[l] = p}
  /\ DOMAIN subscribed = Patterns
  /\ \A p \in Patterns : subscribed[p] \subseteq Targets(p)
  /\ \A l \in Listeners : waiting[l] \subseteq Targets(PatternOf[l])
  /\ tracked \subseteq Patterns
  /\ resub \in [Connections -> {"idle", "woken", "listed"}]
  /\ listed \in [Connections -> SUBSET Patterns]
  /\ \A kind \in DOMAIN inbox :
       /\ Len(inbox[kind]) \leq Capacity
       /\ SE!ToSet(inbox[kind]) \subseteq published
  /\ published \cup lagged \subseteq Messages
  /\ owed \cup got \subseteq Listeners \X Messages
  /\ failures \in 0 .. MaxFailures
  /\ reconnects \in 0 .. MaxReconnects
  /\ raced \subseteq Patterns
  /\ refused \in [{"psubscribe", "punsubscribe"} -> SUBSET Patterns]

\* The pattern's subscription may be other than the map says: an addition met
\* a removal, or Redis refused a PSUBSCRIBE.
Disturbed(p) == p \in raced \cup refused["psubscribe"]

\* psubscribe (Ok at once when the pattern is there): once nobody works on its
\* pattern any more, a listener whose add_listener returned Ok is in the map,
\* and its pattern is subscribed everywhere it should be, over reconnections and
\* whatever else fails.  Two things break this in the code, and nothing else does:
\* an addition that meets a removal, and a PSUBSCRIBE of this pattern that failed.
OkMeansSubscribed ==
  \A l \in Listeners :
    LET p == PatternOf[l]
    IN pc[l] = "added" /\ Quiet(p) /\ ~Disturbed(p) =>
         /\ p \in DOMAIN listener_map
         /\ l \in listener_map[p]
         /\ Targets(p) \subseteq subscribed[p]

\* remove_listener (punsubscribe at every node of a cluster): a pattern that
\* nobody listens to any more is not left subscribed at some server, unless the
\* task of a reconnection put it back from its snapshot, an addition met a
\* removal, or the PUNSUBSCRIBE failed.
NoSubscriptionLeak ==
  \A p \in Patterns :
    /\ reconnects = 0 /\ Quiet(p) /\ subscribed[p] # {}
    /\ p \notin raced \cup refused["punsubscribe"]
    => p \in DOMAIN listener_map

\* The dispatch loops: a listener gets nothing after its remove_listener
\* returned, nor after its add_listener failed.
RemovedIsSilent ==
  [][\A l \in Listeners :
       pc[l] \in {"failed", "removed"} =>
         \A m \in Messages : <<l, m>> \in got' => <<l, m>> \in got]_vars

\* tests/pubsub_test.rs, test_receives_published_message: a message published
\* after add_listener returned Ok reaches the listener, unless the channel
\* overflowed or the listener left first.
Delivered ==
  \A l \in Listeners, m \in Messages :
    <<l, m>> \in owed ~> \/ <<l, m>> \in got
                         \/ m \in lagged
                         \/ pc[l] # "added"

\* The same, of a pattern that is not disturbed, and when the loop is through with
\* the message: nothing else keeps it from a listener that stays, reconnections
\* that are over by then included.
DeliveredIfUndisturbed ==
  \A l \in Listeners, m \in Messages :
    /\ <<l, m>> \in owed
    /\ m \notin SE!ToSet(inbox[Kind(m)])
    /\ pc[l] = "added" /\ ~Disturbed(PatternOf[l])
    => <<l, m>> \in got \/ m \in lagged
=============================================================================
