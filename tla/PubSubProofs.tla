----------------------------- MODULE PubSubProofs -----------------------------
(***************************************************************************)
(* What holds of PatternPubSub for every set of listeners, patterns,       *)
(* servers and messages, whichever calls run at once, over any number of   *)
(* reconnections and failing commands: a listener that was removed is      *)
(* silent; and of each pattern whose additions met no removal, and of      *)
(* which Redis refused no command, a listener whose add_listener returned  *)
(* Ok is subscribed and gets its messages, and nothing stays subscribed    *)
(* that nobody listens to.  Then the wait entry of a lock: for every set   *)
(* of tasks, the release of a lock is heard; the glob, for all patterns    *)
(* and texts; and the maps and the loops of ListenerRegistry: an id takes  *)
(* its own listener, and a listener hears every copy it is owed.  Last the *)
(* renewal entry: what is renewed is the lock of who has held it longest.  *)
(***************************************************************************)
EXTENDS PubSubScenes, SequenceLemmas, FiniteSetTheorems, TLAPS

-----------------------------------------------------------------------------
(* The invariants                                                            *)

CallTypes ==
  /\ pc \in [Listeners -> {"new", "adding", "joining", "added", "failed",
                           "emptied", "leaving", "removed"}]
  /\ already \in [Listeners -> BOOLEAN] /\ broken \in [Listeners -> BOOLEAN]
  /\ waiting \in [Listeners -> SUBSET Connections]
  /\ \A l \in Listeners : waiting[l] \subseteq Targets(PatternOf[l])
  /\ failures \in 0 .. MaxFailures

\* The task of a reconnection works on what belongs on its connection.
ServerTypes ==
  /\ subscribed \in [Patterns -> SUBSET Connections]
  /\ \A p \in Patterns : subscribed[p] \subseteq Targets(p)
  /\ tracked \subseteq {p \in Patterns : Client \in Targets(p)}
  /\ resub \in [Connections -> {"idle", "woken", "listed"}]
  /\ \A n \in Connections : resub[n] # "idle" => n = Client \/ Cluster
  /\ listed \in [Connections -> SUBSET Patterns]
  /\ \A n \in Connections : listed[n] \subseteq {p \in Patterns : n \in Targets(p)}
  /\ reconnects \in 0 .. MaxReconnects

\* The map holds a listener only under its own pattern, and only while its
\* add_listener is under way or returned Ok.
Mapped ==
  /\ DOMAIN listener_map \subseteq Patterns
  /\ \A p \in DOMAIN listener_map : \A l \in listener_map[p] :
       l \in Listeners /\ PatternOf[l] = p /\ pc[l] \in {"joining", "added"}

ChannelTypes ==
  /\ inbox \in [{"message", "keyspace"} -> Seq(Messages)]
  /\ \A kind \in {"message", "keyspace"} :
       /\ Len(inbox[kind]) \leq Capacity
       /\ \A i \in DOMAIN inbox[kind] : inbox[kind][i] \in published
  /\ published \subseteq Messages /\ lagged \subseteq Messages
  /\ owed \subseteq Listeners \X Messages /\ got \subseteq Listeners \X Messages

HistoryTypes ==
  /\ raced \subseteq Patterns
  /\ refused \in [{"psubscribe", "punsubscribe"} -> SUBSET Patterns]

MInv == CallTypes /\ ServerTypes /\ HistoryTypes /\ Mapped

\* An addition and a removal that emptied the pattern are at work at once only
\* where they raced.
Met ==
  \A k, l \in Listeners :
    /\ PatternOf[k] = PatternOf[l]
    /\ pc[k] \in {"emptied", "leaving"} /\ pc[l] \in {"adding", "joining"}
    => PatternOf[l] \in raced

\* So elsewhere the map forgets nobody (an error clears it), what contains_key
\* said of an entry stays true, and nothing is added to an entry that goes.
Kept ==
  \A l \in Listeners :
    LET p == PatternOf[l]
    IN
    /\ broken[l] => p \in refused["psubscribe"]
    /\ p \notin raced =>
         /\ pc[l] = "adding" /\ already[l] => p \in DOMAIN listener_map
         /\ pc[l] = "joining" => p \in DOMAIN listener_map
         /\ pc[l] = "emptied" /\ p \in DOMAIN listener_map => listener_map[p] = {}
    /\ ~Disturbed(p) =>
         /\ pc[l] = "leaving" => p \notin DOMAIN listener_map
         /\ pc[l] \in {"joining", "added"} =>
              p \in DOMAIN listener_map /\ l \in listener_map[p]

\* A PSUBSCRIBE of pattern p is on its way to n.
Coming(p, n) ==
  \E l \in Listeners : PatternOf[l] = p /\ pc[l] = "joining" /\ n \in waiting[l]

\* A pattern of the map is subscribed where it should be, or will be by a call
\* or by the task of a reconnection; and fred will know of it.
Covered ==
  \A p \in DOMAIN listener_map : \A n \in Targets(p) : ~Disturbed(p) =>
    /\ \/ n \in subscribed[p]
       \/ Coming(p, n)
       \/ resub[n] = "woken"
       \/ resub[n] = "listed" /\ p \in listed[n]
    /\ n = Client => p \in tracked \/ Coming(p, n)

\* A pattern that is not in the map is subscribed only where a removal has still
\* to unsubscribe it.
Leaving(p, n) ==
  \E l \in Listeners : PatternOf[l] = p /\ pc[l] = "leaving" /\ n \in waiting[l]

NotLeft ==
  reconnects = 0 =>
    /\ \A n \in Connections : resub[n] = "idle"
    /\ \A p \in Patterns \ DOMAIN listener_map : \A n \in subscribed[p] :
         p \notin raced \cup refused["punsubscribe"] => Leaving(p, n)

IInv == MInv /\ Met /\ Kept /\ Covered /\ NotLeft

-----------------------------------------------------------------------------
(* Every step keeps the types and the map.                                   *)

\* The targets of a pattern are servers.
LEMMA TargetFacts ==
  ASSUME ConfigAssumption, NEW p \in Patterns
  PROVE  /\ Targets(p) \subseteq Connections /\ Client \in Connections
         /\ \A n \in Targets(p) : n # Client => p \in KeyspacePatterns
         /\ Cluster /\ p \in KeyspacePatterns => Targets(p) = Nodes
  BY DEF Targets, Connections, ConfigAssumption

\* The bounds are numbers.
LEMMA BoundFacts ==
  ASSUME ConfigAssumption
  PROVE  MaxFailures \in Nat /\ MaxReconnects \in Nat /\ Capacity \in Nat \ {0}
  BY DEF ConfigAssumption

\* The calls keep their types.
LEMMA CallTypeStep ==
  ASSUME ConfigAssumption, CallTypes, Next
  PROVE  CallTypes'
<1>1. ASSUME NEW l \in Listeners, Contains(l) PROVE CallTypes'
  BY <1>1 DEF Contains, Goto, CallTypes
<1>2. ASSUME NEW l \in Listeners, Extend(l) PROVE CallTypes'
  BY <1>2, TargetFacts DEF Extend, Goto, CallTypes, ConfigAssumption
<1>3. ASSUME NEW l \in Listeners, SubscribeDone(l) PROVE CallTypes'
  BY <1>3 DEF SubscribeDone, Goto, CallTypes
<1>4. ASSUME NEW l \in Listeners, Retain(l) PROVE CallTypes'
  BY <1>4 DEF Retain, Goto, CallTypes
<1>5. ASSUME NEW l \in Listeners, MapRemove(l) PROVE CallTypes'
  BY <1>5, TargetFacts DEF MapRemove, Goto, CallTypes, LeftAt, ConfigAssumption
<1>6. ASSUME NEW l \in Listeners, PartDone(l) PROVE CallTypes'
  BY <1>6 DEF PartDone, Goto, CallTypes
<1>7. ASSUME NEW l \in Listeners, NEW n \in Connections, Subscribe(l, n) PROVE CallTypes'
  <2>1. failures' \in 0 .. MaxFailures
    BY <1>7, BoundFacts DEF Subscribe, CallTypes
  <2>2. pc' = pc /\ already' = already /\ broken' \in [Listeners -> BOOLEAN]
    BY <1>7 DEF Subscribe, CallTypes
  <2>3. /\ waiting' \in [Listeners -> SUBSET Connections]
        /\ \A k \in Listeners : waiting'[k] \subseteq waiting[k]
    BY <1>7 DEF Subscribe, CallTypes
  <2> QED
    BY <2>1, <2>2, <2>3 DEF CallTypes
<1>8. ASSUME NEW l \in Listeners, NEW n \in Connections, Punsubscribe(l, n) PROVE CallTypes'
  <2>1. failures' \in 0 .. MaxFailures
    BY <1>8, BoundFacts DEF Punsubscribe, CallTypes
  <2>2. pc' = pc /\ already' = already /\ broken' \in [Listeners -> BOOLEAN]
    BY <1>8 DEF Punsubscribe, CallTypes
  <2>3. /\ waiting' \in [Listeners -> SUBSET Connections]
        /\ \A k \in Listeners : waiting'[k] \subseteq waiting[k]
    BY <1>8 DEF Punsubscribe, CallTypes
  <2> QED
    BY <2>1, <2>2, <2>3 DEF CallTypes
<1>9. ASSUME NEW n \in Connections, Reconnect(n) PROVE CallTypes'
  BY <1>9 DEF Reconnect, callVars, CallTypes
<1>10. ASSUME NEW n \in Connections, ListPatterns(n) PROVE CallTypes'
  BY <1>10 DEF ListPatterns, callVars, CallTypes
<1>11. ASSUME NEW n \in Connections, Resubscribe(n) PROVE CallTypes'
  BY <1>11, BoundFacts DEF Resubscribe, callVars, CallTypes
<1>12. ASSUME NEW m \in Messages, Publish(m) PROVE CallTypes'
  BY <1>12 DEF Publish, callVars, CallTypes
<1>13. ASSUME NEW kind \in DOMAIN inbox, Dispatch(kind) PROVE CallTypes'
  BY <1>13 DEF Dispatch, callVars, CallTypes
<1> QED
  BY <1>1, <1>2, <1>3, <1>4, <1>5, <1>6, <1>7, <1>8, <1>9, <1>10, <1>11, <1>12,
     <1>13
    DEF Next, Call, Resubscription

\* And the servers and the tasks of the reconnections.
LEMMA ServerTypeStep ==
  ASSUME ConfigAssumption, CallTypes, ServerTypes, Mapped, Next
  PROVE  ServerTypes'
<1>1. ASSUME NEW l \in Listeners, Contains(l) PROVE ServerTypes'
  BY <1>1 DEF Contains, Goto, subVars, connVars, ServerTypes
<1>2. ASSUME NEW l \in Listeners, Extend(l) PROVE ServerTypes'
  BY <1>2 DEF Extend, Goto, subVars, connVars, ServerTypes
<1>3. ASSUME NEW l \in Listeners, SubscribeDone(l) PROVE ServerTypes'
  BY <1>3 DEF SubscribeDone, Goto, subVars, connVars, ServerTypes
<1>4. ASSUME NEW l \in Listeners, Retain(l) PROVE ServerTypes'
  BY <1>4 DEF Retain, Goto, subVars, connVars, ServerTypes
<1>5. ASSUME NEW l \in Listeners, MapRemove(l) PROVE ServerTypes'
  BY <1>5 DEF MapRemove, Goto, subVars, connVars, ServerTypes
<1>6. ASSUME NEW l \in Listeners, PartDone(l) PROVE ServerTypes'
  BY <1>6 DEF PartDone, Goto, subVars, connVars, ServerTypes
<1>7. ASSUME NEW l \in Listeners, NEW n \in Connections, Subscribe(l, n) PROVE ServerTypes'
  BY <1>7, TargetFacts
    DEF Subscribe, connVars, ServerTypes, CallTypes, ConfigAssumption
<1>8. ASSUME NEW l \in Listeners, NEW n \in Connections, Punsubscribe(l, n) PROVE ServerTypes'
  BY <1>8 DEF Punsubscribe, connVars, ServerTypes, CallTypes
<1>9. ASSUME NEW n \in Connections, Reconnect(n) PROVE ServerTypes'
  BY <1>9, BoundFacts DEF Reconnect, ServerTypes
<1>10. ASSUME NEW n \in Connections, ListPatterns(n) PROVE ServerTypes'
  BY <1>10, TargetFacts
    DEF ListPatterns, subVars, ServerTypes, ToResubscribe, Mapped, Connections
<1>11. ASSUME NEW n \in Connections, Resubscribe(n) PROVE ServerTypes'
  BY <1>11 DEF Resubscribe, ServerTypes
<1>12. ASSUME NEW m \in Messages, Publish(m) PROVE ServerTypes'
  BY <1>12 DEF Publish, subVars, connVars, ServerTypes
<1>13. ASSUME NEW kind \in DOMAIN inbox, Dispatch(kind) PROVE ServerTypes'
  BY <1>13 DEF Dispatch, subVars, connVars, ServerTypes
<1> QED
  BY <1>1, <1>2, <1>3, <1>4, <1>5, <1>6, <1>7, <1>8, <1>9, <1>10, <1>11, <1>12,
     <1>13
    DEF Next, Call, Resubscription

\* The races and refusals are of patterns, and are not forgotten.
LEMMA HistoryStep ==
  ASSUME ConfigAssumption, CallTypes, ServerTypes, HistoryTypes, Next
  PROVE  /\ HistoryTypes'
         /\ raced \subseteq raced'
         /\ \A c \in {"psubscribe", "punsubscribe"} : refused[c] \subseteq refused'[c]
<1> DEFINE G == /\ HistoryTypes' /\ raced \subseteq raced'
                /\ \A c \in {"psubscribe", "punsubscribe"} : refused[c] \subseteq refused'[c]
<1>1. ASSUME NEW l \in Listeners, Contains(l) \/ Extend(l) \/ SubscribeDone(l) \/ Retain(l)
                                    \/ MapRemove(l) \/ PartDone(l)
      PROVE  G
  <2>1. raced' = raced \/ raced' = raced \cup {PatternOf[l]}
    BY <1>1 DEF Contains, Extend, SubscribeDone, Retain, MapRemove, PartDone, Race
  <2>2. refused' = refused
    BY <1>1 DEF Contains, Extend, SubscribeDone, Retain, MapRemove, PartDone, subVars
  <2> QED
    BY <2>1, <2>2 DEF HistoryTypes, ConfigAssumption
<1>2. ASSUME NEW l \in Listeners, NEW n \in Connections, Subscribe(l, n) \/ Punsubscribe(l, n)
      PROVE  G
  <2>1. PatternOf[l] \in Patterns
    BY DEF ConfigAssumption
  <2>2. \E c \in {"psubscribe", "punsubscribe"} :
          refused' = refused \/ refused' = [refused EXCEPT ![c] = @ \cup {PatternOf[l]}]
    BY <1>2 DEF Subscribe, Punsubscribe, Refused
  <2>3. raced' = raced
    BY <1>2 DEF Subscribe, Punsubscribe
  <2> QED
    BY <2>1, <2>2, <2>3 DEF HistoryTypes
<1>3. ASSUME NEW n \in Connections, Reconnect(n) \/ ListPatterns(n) \/ Resubscribe(n)
      PROVE  G
  <2>1. listed[n] \subseteq Patterns
    BY DEF ServerTypes
  <2>2. \/ refused' = refused
        \/ refused' = [refused EXCEPT !["psubscribe"] = @ \cup listed[n]]
    BY <1>3 DEF Reconnect, ListPatterns, Resubscribe, Refused, subVars
  <2>3. raced' = raced
    BY <1>3 DEF Reconnect, ListPatterns, Resubscribe
  <2> QED
    BY <2>1, <2>2, <2>3 DEF HistoryTypes
<1>4. ASSUME NEW m \in Messages, Publish(m) PROVE G
  BY <1>4 DEF Publish, subVars, HistoryTypes
<1>5. ASSUME NEW kind \in DOMAIN inbox, Dispatch(kind) PROVE G
  BY <1>5 DEF Dispatch, subVars, HistoryTypes
<1> QED
  BY <1>1, <1>2, <1>3, <1>4, <1>5 DEF Next, Call, Resubscription

\* The map holds those that were added and not removed.
LEMMA MapStep ==
  ASSUME ConfigAssumption, CallTypes, Mapped, Next
  PROVE  Mapped'
<1>1. ASSUME NEW l \in Listeners, Contains(l) PROVE Mapped'
  BY <1>1 DEF Contains, Goto, Mapped, CallTypes
<1>2. ASSUME NEW l \in Listeners, Extend(l) PROVE Mapped'
  BY <1>2 DEF Extend, Goto, Mapped, CallTypes, Insert, Extended, ConfigAssumption
<1>3. ASSUME NEW l \in Listeners, SubscribeDone(l) PROVE Mapped'
  BY <1>3 DEF SubscribeDone, Goto, Mapped, CallTypes, Cleared
<1>4. ASSUME NEW l \in Listeners, Retain(l) PROVE Mapped'
  BY <1>4 DEF Retain, Goto, Mapped, CallTypes
<1>5. ASSUME NEW l \in Listeners, MapRemove(l) PROVE Mapped'
  BY <1>5 DEF MapRemove, Goto, Mapped, CallTypes, Restrict
<1>6. ASSUME NEW l \in Listeners, PartDone(l) PROVE Mapped'
  BY <1>6 DEF PartDone, Goto, Mapped, CallTypes
<1>7. ASSUME NEW l \in Listeners, NEW n \in Connections, Subscribe(l, n) PROVE Mapped'
  BY <1>7 DEF Subscribe, Mapped, CallTypes
<1>8. ASSUME NEW l \in Listeners, NEW n \in Connections, Punsubscribe(l, n) PROVE Mapped'
  BY <1>8 DEF Punsubscribe, Mapped, CallTypes
<1>9. ASSUME NEW n \in Connections, Reconnect(n) PROVE Mapped'
  BY <1>9 DEF Reconnect, callVars, Mapped, CallTypes
<1>10. ASSUME NEW n \in Connections, ListPatterns(n) PROVE Mapped'
  BY <1>10 DEF ListPatterns, callVars, Mapped, CallTypes
<1>11. ASSUME NEW n \in Connections, Resubscribe(n) PROVE Mapped'
  BY <1>11 DEF Resubscribe, callVars, Mapped, CallTypes
<1>12. ASSUME NEW m \in Messages, Publish(m) PROVE Mapped'
  BY <1>12 DEF Publish, callVars, Mapped, CallTypes
<1>13. ASSUME NEW kind \in DOMAIN inbox, Dispatch(kind) PROVE Mapped'
  BY <1>13 DEF Dispatch, callVars, Mapped, CallTypes
<1> QED
  BY <1>1, <1>2, <1>3, <1>4, <1>5, <1>6, <1>7, <1>8, <1>9, <1>10, <1>11, <1>12,
     <1>13
    DEF Next, Call, Resubscription

\* An addition that meets a removal raced.
LEMMA MetStep ==
  ASSUME ConfigAssumption, IInv, Next
  PROVE  Met'
<1>1. ASSUME NEW l \in Listeners, Contains(l) PROVE Met'
  BY <1>1 DEF Contains, Race, Others, Goto, Met, IInv, MInv, CallTypes
<1>2. ASSUME NEW l \in Listeners, Extend(l) PROVE Met'
  BY <1>2 DEF Extend, Goto, Met, IInv, MInv, CallTypes
<1>3. ASSUME NEW l \in Listeners, SubscribeDone(l) PROVE Met'
  BY <1>3 DEF SubscribeDone, Goto, Met, IInv, MInv, CallTypes
<1>4. ASSUME NEW l \in Listeners, Retain(l) PROVE Met'
  BY <1>4 DEF Retain, Race, Others, Goto, Met, IInv, MInv, CallTypes
<1>5. ASSUME NEW l \in Listeners, MapRemove(l) PROVE Met'
  BY <1>5 DEF MapRemove, Goto, Met, IInv, MInv, CallTypes
<1>6. ASSUME NEW l \in Listeners, PartDone(l) PROVE Met'
  BY <1>6 DEF PartDone, Goto, Met, IInv, MInv, CallTypes
<1>7. ASSUME NEW l \in Listeners, NEW n \in Connections, Subscribe(l, n) PROVE Met'
  BY <1>7 DEF Subscribe, Goto, Met, IInv, MInv, CallTypes
<1>8. ASSUME NEW l \in Listeners, NEW n \in Connections, Punsubscribe(l, n) PROVE Met'
  BY <1>8 DEF Punsubscribe, Goto, Met, IInv, MInv, CallTypes
<1>9. ASSUME NEW n \in Connections, Reconnect(n) PROVE Met'
  BY <1>9 DEF Reconnect, callVars, Goto, Met, IInv, MInv, CallTypes
<1>10. ASSUME NEW n \in Connections, ListPatterns(n) PROVE Met'
  BY <1>10 DEF ListPatterns, callVars, Goto, Met, IInv, MInv, CallTypes
<1>11. ASSUME NEW n \in Connections, Resubscribe(n) PROVE Met'
  BY <1>11 DEF Resubscribe, callVars, Goto, Met, IInv, MInv, CallTypes
<1>12. ASSUME NEW m \in Messages, Publish(m) PROVE Met'
  BY <1>12 DEF Publish, callVars, Goto, Met, IInv, MInv, CallTypes
<1>13. ASSUME NEW kind \in DOMAIN inbox, Dispatch(kind) PROVE Met'
  BY <1>13 DEF Dispatch, callVars, Goto, Met, IInv, MInv, CallTypes
<1> QED
  BY <1>1, <1>2, <1>3, <1>4, <1>5, <1>6, <1>7, <1>8, <1>9, <1>10, <1>11, <1>12,
     <1>13
    DEF Next, Call, Resubscription

\* What Extend does to the map.
MapGrows(l) ==
  /\ DOMAIN listener_map' = DOMAIN listener_map \cup {PatternOf[l]}
  /\ l \in listener_map'[PatternOf[l]]
  /\ \A q \in DOMAIN listener_map :
       /\ q # PatternOf[l] => listener_map'[q] = listener_map[q]
       /\ listener_map[q] \subseteq listener_map'[q]

\* The listener is in the map, and nobody went.
LEMMA ExtendFacts ==
  ASSUME ConfigAssumption, NEW l \in Listeners, Extend(l)
  PROVE  MapGrows(l)
  BY DEF Extend, MapGrows, Insert, Extended

\* Nobody is forgotten.
LEMMA KeptStep ==
  ASSUME ConfigAssumption, IInv, Next
  PROVE  Kept'
<1>1. ASSUME NEW l \in Listeners, Contains(l) PROVE Kept'
  BY <1>1 DEF Contains, HistoryTypes, Disturbed, Race, Others, Refused, Goto, subVars, connVars, Kept, IInv, MInv, CallTypes, Mapped
<1>2. ASSUME NEW l \in Listeners, Extend(l) PROVE Kept'
  <2>1. MapGrows(l) /\ pc[l] = "adding" /\ UNCHANGED <<already, broken, raced, refused>>
    BY <1>2, ExtendFacts DEF Extend, subVars
  <2>2. /\ DOMAIN pc' = Listeners /\ \A k \in Listeners : k # l => pc'[k] = pc[k]
        /\ pc'[l] = IF already[l] THEN "added" ELSE "joining"
    BY <1>2 DEF Extend, Goto, IInv, MInv, CallTypes
  <2>3. \A q : Disturbed(q)' <=> Disturbed(q)
    BY <2>1 DEF Disturbed
  <2>4. \A k \in Listeners : PatternOf[k] = PatternOf[l] /\ pc[k] \in {"emptied", "leaving"} =>
          PatternOf[l] \in raced
    BY <2>1 DEF IInv, Met
  <2>5. ASSUME NEW k \in Listeners, k # l
        PROVE  LET p == PatternOf[k]
               IN
               /\ broken'[k] => p \in refused'["psubscribe"]
               /\ p \notin raced' =>
                    /\ pc'[k] = "adding" /\ already'[k] => p \in DOMAIN listener_map'
                    /\ pc'[k] = "joining" => p \in DOMAIN listener_map'
                    /\ pc'[k] = "emptied" /\ p \in DOMAIN listener_map' =>
                         listener_map'[p] = {}
               /\ ~Disturbed(p)' =>
                    /\ pc'[k] = "leaving" => p \notin DOMAIN listener_map'
                    /\ pc'[k] \in {"joining", "added"} =>
                         p \in DOMAIN listener_map' /\ k \in listener_map'[p]
    BY <2>1, <2>2, <2>3, <2>4, <2>5 DEF IInv, Kept, MapGrows, Disturbed
  <2>6. LET p == PatternOf[l]
        IN  /\ broken'[l] => p \in refused'["psubscribe"]
            /\ p \in DOMAIN listener_map' /\ l \in listener_map'[p]
            /\ pc'[l] \in {"added", "joining"}
    BY <2>1, <2>2 DEF IInv, Kept, MapGrows
  <2> QED
    BY <2>5, <2>6 DEF Kept
<1>3. ASSUME NEW l \in Listeners, SubscribeDone(l) PROVE Kept'
  BY <1>3
    DEF SubscribeDone, HistoryTypes, Disturbed, Race, Others, Refused, Goto, subVars, connVars, Kept, IInv, MInv, CallTypes,
        Mapped, Cleared
<1>4. ASSUME NEW l \in Listeners, Retain(l) PROVE Kept'
  BY <1>4
    DEF Retain, HistoryTypes, Disturbed, Race, Others, Refused, Goto, subVars, connVars, Kept, IInv, MInv, CallTypes, Mapped,
        Met
<1>5. ASSUME NEW l \in Listeners, MapRemove(l) PROVE Kept'
  BY <1>5
    DEF MapRemove, HistoryTypes, Disturbed, Race, Others, Refused, Goto, subVars, connVars, Kept, IInv, MInv, CallTypes,
        Mapped, Restrict, Met
<1>6. ASSUME NEW l \in Listeners, PartDone(l) PROVE Kept'
  BY <1>6 DEF PartDone, HistoryTypes, Disturbed, Race, Others, Refused, Goto, subVars, connVars, Kept, IInv, MInv, CallTypes, Mapped
<1>7. ASSUME NEW l \in Listeners, NEW n \in Connections, Subscribe(l, n) PROVE Kept'
  BY <1>7 DEF Subscribe, HistoryTypes, Disturbed, Race, Others, Refused, connVars, Kept, IInv, MInv, CallTypes, Mapped
<1>8. ASSUME NEW l \in Listeners, NEW n \in Connections, Punsubscribe(l, n) PROVE Kept'
  BY <1>8 DEF Punsubscribe, HistoryTypes, Disturbed, Race, Others, Refused, connVars, Kept, IInv, MInv, CallTypes, Mapped
<1>9. ASSUME NEW n \in Connections, Reconnect(n) PROVE Kept'
  BY <1>9 DEF Reconnect, HistoryTypes, Disturbed, Race, Others, Refused, callVars, Kept, IInv, MInv, CallTypes, Mapped
<1>10. ASSUME NEW n \in Connections, ListPatterns(n) PROVE Kept'
  BY <1>10 DEF ListPatterns, HistoryTypes, Disturbed, Race, Others, Refused, callVars, subVars, Kept, IInv, MInv, CallTypes, Mapped
<1>11. ASSUME NEW n \in Connections, Resubscribe(n) PROVE Kept'
  BY <1>11 DEF Resubscribe, HistoryTypes, Disturbed, Race, Others, Refused, callVars, Kept, IInv, MInv, CallTypes, Mapped
<1>12. ASSUME NEW m \in Messages, Publish(m) PROVE Kept'
  BY <1>12
    DEF Publish, HistoryTypes, Disturbed, Race, Others, Refused, callVars, subVars, connVars, Kept, IInv, MInv, CallTypes,
        Mapped
<1>13. ASSUME NEW kind \in DOMAIN inbox, Dispatch(kind) PROVE Kept'
  BY <1>13
    DEF Dispatch, HistoryTypes, Disturbed, Race, Others, Refused, callVars, subVars, connVars, Kept, IInv, MInv, CallTypes,
        Mapped
<1> QED
  BY <1>1, <1>2, <1>3, <1>4, <1>5, <1>6, <1>7, <1>8, <1>9, <1>10, <1>11, <1>12,
     <1>13
    DEF Next, Call, Resubscription

\* What is subscribed stays so, or will be again.
LEMMA CoveredStep ==
  ASSUME ConfigAssumption, IInv, Next
  PROVE  Covered'
<1>1. ASSUME NEW l \in Listeners, Contains(l) PROVE Covered'
  BY <1>1
    DEF Contains, HistoryTypes, Disturbed, Race, Others, Refused, Goto, subVars, connVars, Covered, Coming, IInv, MInv,
        CallTypes, ServerTypes, Mapped
<1>2. ASSUME NEW l \in Listeners, Extend(l) PROVE Covered'
  <2>1. /\ MapGrows(l) /\ pc[l] = "adding"
        /\ UNCHANGED <<already, raced, refused, subscribed, tracked, resub, listed>>
    BY <1>2, ExtendFacts DEF Extend, subVars, connVars
  <2>2. /\ \A k \in Listeners : k # l => pc'[k] = pc[k] /\ waiting'[k] = waiting[k]
        /\ ~already[l] => pc'[l] = "joining" /\ waiting'[l] = Targets(PatternOf[l])
    BY <1>2, TargetFacts DEF Extend, Goto, IInv, MInv, CallTypes, ConfigAssumption
  <2>3. \A q : Disturbed(q)' <=> Disturbed(q)
    BY <2>1 DEF Disturbed
  <2>4. \A q, n : Coming(q, n) => Coming(q, n)'
    BY <2>1, <2>2 DEF Coming
  <2>5. PatternOf[l] \notin DOMAIN listener_map /\ ~Disturbed(PatternOf[l]) =>
          \A n \in Targets(PatternOf[l]) : Coming(PatternOf[l], n)'
    BY <2>1, <2>2 DEF IInv, Kept, Disturbed, Coming
  <2>6. \A q \in DOMAIN listener_map' : q \in DOMAIN listener_map \/ q = PatternOf[l]
    BY <2>1 DEF MapGrows
  <2> QED
    BY <2>1, <2>3, <2>4, <2>5, <2>6 DEF IInv, Covered
<1>3. ASSUME NEW l \in Listeners, SubscribeDone(l) PROVE Covered'
  BY <1>3
    DEF SubscribeDone, HistoryTypes, Disturbed, Race, Others, Refused, Goto, subVars, connVars, Covered, Coming, IInv, MInv,
        CallTypes, ServerTypes, Mapped, Cleared, Kept
<1>4. ASSUME NEW l \in Listeners, Retain(l) PROVE Covered'
  BY <1>4
    DEF Retain, HistoryTypes, Disturbed, Race, Others, Refused, Goto, subVars, connVars, Covered, Coming, IInv, MInv,
        CallTypes, ServerTypes, Mapped
<1>5. ASSUME NEW l \in Listeners, MapRemove(l) PROVE Covered'
  BY <1>5
    DEF MapRemove, HistoryTypes, Disturbed, Race, Others, Refused, Goto, subVars, connVars, Covered, Coming, IInv, MInv,
        CallTypes, ServerTypes, Mapped, Restrict
<1>6. ASSUME NEW l \in Listeners, PartDone(l) PROVE Covered'
  BY <1>6
    DEF PartDone, HistoryTypes, Disturbed, Race, Others, Refused, Goto, subVars, connVars, Covered, Coming, IInv, MInv,
        CallTypes, ServerTypes, Mapped
<1>7. ASSUME NEW l \in Listeners, NEW n \in Connections, Subscribe(l, n) PROVE Covered'
  BY <1>7
    DEF Subscribe, HistoryTypes, Disturbed, Race, Others, Refused, connVars, Covered, Coming, IInv, MInv, CallTypes,
        ServerTypes, Mapped
<1>8. ASSUME NEW l \in Listeners, NEW n \in Connections, Punsubscribe(l, n) PROVE Covered'
  BY <1>8
    DEF Punsubscribe, HistoryTypes, Disturbed, Race, Others, Refused, connVars, Covered, Coming, IInv, MInv, CallTypes,
        ServerTypes, Mapped, Kept
<1>9. ASSUME NEW n \in Connections, Reconnect(n) PROVE Covered'
  BY <1>9
    DEF Reconnect, HistoryTypes, Disturbed, Race, Others, Refused, callVars, Covered, Coming, IInv, MInv, CallTypes,
        ServerTypes, Mapped
<1>10. ASSUME NEW n \in Connections, ListPatterns(n) PROVE Covered'
  BY <1>10, TargetFacts
    DEF ListPatterns, HistoryTypes, Disturbed, Race, Others, Refused, callVars, subVars, Covered, Coming, IInv, MInv,
        CallTypes, ServerTypes, Mapped, ToResubscribe, Targets,
        ConfigAssumption
<1>11. ASSUME NEW n \in Connections, Resubscribe(n) PROVE Covered'
  BY <1>11
    DEF Resubscribe, HistoryTypes, Disturbed, Race, Others, Refused, callVars, Covered, Coming, IInv, MInv, CallTypes,
        ServerTypes, Mapped
<1>12. ASSUME NEW m \in Messages, Publish(m) PROVE Covered'
  BY <1>12
    DEF Publish, HistoryTypes, Disturbed, Race, Others, Refused, callVars, subVars, connVars, Covered, Coming, IInv, MInv,
        CallTypes, ServerTypes, Mapped
<1>13. ASSUME NEW kind \in DOMAIN inbox, Dispatch(kind) PROVE Covered'
  BY <1>13
    DEF Dispatch, HistoryTypes, Disturbed, Race, Others, Refused, callVars, subVars, connVars, Covered, Coming, IInv, MInv,
        CallTypes, ServerTypes, Mapped
<1> QED
  BY <1>1, <1>2, <1>3, <1>4, <1>5, <1>6, <1>7, <1>8, <1>9, <1>10, <1>11, <1>12,
     <1>13
    DEF Next, Call, Resubscription

\* A removal takes all subscriptions with it.
LEMMA NotLeftStep ==
  ASSUME ConfigAssumption, IInv, Next
  PROVE  NotLeft'
<1>1. ASSUME NEW l \in Listeners, Contains(l) PROVE NotLeft'
  BY <1>1
    DEF Contains, HistoryTypes, Disturbed, Race, Others, Refused, Goto, subVars, connVars, NotLeft, Leaving, IInv, MInv,
        CallTypes, ServerTypes, Mapped
<1>2. ASSUME NEW l \in Listeners, Extend(l) PROVE NotLeft'
  BY <1>2
    DEF Extend, HistoryTypes, Disturbed, Race, Others, Refused, Goto, subVars, connVars, NotLeft, Leaving, IInv, MInv,
        CallTypes, ServerTypes, Mapped, Insert, Extended, ConfigAssumption
<1>3. ASSUME NEW l \in Listeners, SubscribeDone(l) PROVE NotLeft'
  BY <1>3
    DEF SubscribeDone, HistoryTypes, Disturbed, Race, Others, Refused, Goto, subVars, connVars, NotLeft, Leaving, IInv, MInv,
        CallTypes, ServerTypes, Mapped, Cleared
<1>4. ASSUME NEW l \in Listeners, Retain(l) PROVE NotLeft'
  BY <1>4
    DEF Retain, HistoryTypes, Disturbed, Race, Others, Refused, Goto, subVars, connVars, NotLeft, Leaving, IInv, MInv,
        CallTypes, ServerTypes, Mapped
<1>5. ASSUME NEW l \in Listeners, MapRemove(l) PROVE NotLeft'
  BY <1>5
    DEF MapRemove, HistoryTypes, Disturbed, Race, Others, Refused, Goto, subVars, connVars, NotLeft, Leaving, IInv, MInv,
        CallTypes, ServerTypes, Mapped, Restrict, LeftAt
<1>6. ASSUME NEW l \in Listeners, PartDone(l) PROVE NotLeft'
  BY <1>6
    DEF PartDone, HistoryTypes, Disturbed, Race, Others, Refused, Goto, subVars, connVars, NotLeft, Leaving, IInv, MInv,
        CallTypes, ServerTypes, Mapped
<1>7. ASSUME NEW l \in Listeners, NEW n \in Connections, Subscribe(l, n) PROVE NotLeft'
  BY <1>7
    DEF Subscribe, HistoryTypes, Disturbed, Race, Others, Refused, connVars, NotLeft, Leaving, IInv, MInv, CallTypes,
        ServerTypes, Mapped, Kept
<1>8. ASSUME NEW l \in Listeners, NEW n \in Connections, Punsubscribe(l, n) PROVE NotLeft'
  BY <1>8
    DEF Punsubscribe, HistoryTypes, Disturbed, Race, Others, Refused, connVars, NotLeft, Leaving, IInv, MInv, CallTypes,
        ServerTypes, Mapped, Kept
<1>9. ASSUME NEW n \in Connections, Reconnect(n) PROVE NotLeft'
  BY <1>9
    DEF Reconnect, HistoryTypes, Disturbed, Race, Others, Refused, callVars, NotLeft, Leaving, IInv, MInv, CallTypes,
        ServerTypes, Mapped
<1>10. ASSUME NEW n \in Connections, ListPatterns(n) PROVE NotLeft'
  BY <1>10
    DEF ListPatterns, HistoryTypes, Disturbed, Race, Others, Refused, callVars, subVars, NotLeft, Leaving, IInv, MInv,
        CallTypes, ServerTypes, Mapped
<1>11. ASSUME NEW n \in Connections, Resubscribe(n) PROVE NotLeft'
  BY <1>11
    DEF Resubscribe, HistoryTypes, Disturbed, Race, Others, Refused, callVars, NotLeft, Leaving, IInv, MInv, CallTypes,
        ServerTypes, Mapped
<1>12. ASSUME NEW m \in Messages, Publish(m) PROVE NotLeft'
  BY <1>12
    DEF Publish, HistoryTypes, Disturbed, Race, Others, Refused, callVars, subVars, connVars, NotLeft, Leaving, IInv, MInv,
        CallTypes, ServerTypes, Mapped
<1>13. ASSUME NEW kind \in DOMAIN inbox, Dispatch(kind) PROVE NotLeft'
  BY <1>13
    DEF Dispatch, HistoryTypes, Disturbed, Race, Others, Refused, callVars, subVars, connVars, NotLeft, Leaving, IInv, MInv,
        CallTypes, ServerTypes, Mapped
<1> QED
  BY <1>1, <1>2, <1>3, <1>4, <1>5, <1>6, <1>7, <1>8, <1>9, <1>10, <1>11, <1>12,
     <1>13
    DEF Next, Call, Resubscription

\* What a full channel keeps is the end of what it was given.
LEMMA KeepLatestFacts ==
  ASSUME ConfigAssumption, NEW S, NEW queue \in Seq(S)
  PROVE  /\ KeepLatest(queue) \in Seq(S)
         /\ Len(KeepLatest(queue)) \leq Capacity
         /\ Len(queue) - Len(KeepLatest(queue)) \in 0 .. Len(queue)
<1> DEFINE l == Len(queue)
           d == IF l > Capacity THEN l - Capacity ELSE 0
<1>1. l \in Nat /\ Capacity \in Nat
  BY BoundFacts
<1>2. d \in 0 .. l /\ l - d \leq Capacity
  BY <1>1
<1>3. KeepLatest(queue) = SubSeq(queue, 1 + d, l)
  BY DEF KeepLatest
<1> HIDE DEF d, l
<1>4. 1 + d \in 1 .. l + 1
  BY <1>1, <1>2
<1>5. \A i \in 1 + d .. l : queue[i] \in S
  BY <1>1, <1>2 DEF l
<1>6. SubSeq(queue, 1 + d, l) \in Seq(S) /\ Len(SubSeq(queue, 1 + d, l)) = l - d
  BY <1>1, <1>2, <1>4, <1>5 DEF l
<1> QED
  BY <1>1, <1>2, <1>3, <1>6 DEF l

\* What a full channel does not keep is what went in first.
LEMMA KeepLatestKeeps ==
  ASSUME ConfigAssumption, NEW S, NEW queue \in Seq(S), NEW i \in DOMAIN queue
  PROVE  \/ i \in 1 .. Len(queue) - Len(KeepLatest(queue))
         \/ \E j \in DOMAIN KeepLatest(queue) : KeepLatest(queue)[j] = queue[i]
<1> DEFINE l == Len(queue)
           d == IF l > Capacity THEN l - Capacity ELSE 0
<1>1. l \in Nat /\ Capacity \in Nat /\ i \in 1 .. l
  BY BoundFacts
<1>2. d \in 0 .. l
  BY <1>1
<1>3. KeepLatest(queue) = SubSeq(queue, 1 + d, l)
  BY DEF KeepLatest
<1> HIDE DEF d, l
<1>4. 1 + d \in 1 .. l + 1
  BY <1>1, <1>2
<1>5. \A k \in 1 + d .. l : queue[k] \in S
  BY <1>1, <1>2 DEF l
<1>6. /\ Len(SubSeq(queue, 1 + d, l)) = l - d
      /\ DOMAIN SubSeq(queue, 1 + d, l) = 1 .. l - d
      /\ \A k \in 1 .. l - d : SubSeq(queue, 1 + d, l)[k] = queue[d + k]
  BY <1>1, <1>2, <1>4, <1>5 DEF l
<1>7. CASE i \leq d
  BY <1>1, <1>2, <1>3, <1>6, <1>7 DEF l
<1>8. CASE i > d
  <2>1. i - d \in 1 .. l - d /\ d + (i - d) = i
    BY <1>1, <1>2, <1>8
  <2> QED
    BY <1>3, <1>6, <2>1
<1> QED
  BY <1>1, <1>2, <1>7, <1>8

\* Redis sends a finite number of copies, at most the channel's capacity stay.
LEMMA PublishStep ==
  ASSUME ConfigAssumption, ChannelTypes, NEW m \in Messages, Publish(m)
  PROVE  ChannelTypes'
<1> DEFINE matching == {p \in Matching[m] : Origin[m] \in subscribed[p]}
           more     == [i \in 1 .. Cardinality(matching) |-> m]
           queue    == inbox[Kind(m)] \o more
           kept     == KeepLatest(queue)
<1>1. Kind(m) \in {"message", "keyspace"} /\ published' = published \cup {m}
  BY DEF Publish, Kind
<1>2. inbox' = [inbox EXCEPT ![Kind(m)] = kept]
  BY DEF Publish
<1>3. lagged' = lagged \cup {queue[i] : i \in 1 .. Len(queue) - Len(kept)}
  BY DEF Publish
<1>4. owed' \subseteq Listeners \X Messages /\ got' = got
  BY DEF Publish, ChannelTypes
<1>5. Cardinality(matching) \in Nat
  <2>1. Matching[m] \subseteq Patterns /\ IsFiniteSet(Patterns)
    BY DEF ConfigAssumption
  <2>2. IsFiniteSet(matching)
    BY <2>1, FS_Subset
  <2> QED
    BY <2>2, FS_CardinalityType
<1> HIDE DEF matching
<1>6. published' \subseteq Messages
  BY <1>1 DEF ChannelTypes
<1>7. more \in Seq(published')
  BY <1>1, <1>5
<1>8. \A kind \in {"message", "keyspace"} : inbox[kind] \in Seq(published')
  BY <1>1 DEF ChannelTypes
<1> HIDE DEF more
<1>9. queue \in Seq(published')
  BY <1>1, <1>7, <1>8
<1> HIDE DEF queue
<1>10. /\ kept \in Seq(published') /\ Len(kept) \leq Capacity
       /\ Len(queue) - Len(kept) \in 0 .. Len(queue)
  BY <1>9, KeepLatestFacts
<1> HIDE DEF kept
<1>11. lagged' \subseteq Messages
  <2>1. \A i \in 1 .. Len(queue) - Len(kept) : queue[i] \in published'
    BY <1>9, <1>10
  <2> QED
    BY <1>3, <1>6, <2>1 DEF ChannelTypes
<1>12. \A kind \in {"message", "keyspace"} :
         inbox'[kind] \in Seq(published') /\ Len(inbox'[kind]) \leq Capacity
  BY <1>1, <1>2, <1>8, <1>10 DEF ChannelTypes
<1>13. \A kind \in {"message", "keyspace"} :
         inbox'[kind] \in Seq(Messages)
         /\ \A i \in DOMAIN inbox'[kind] : inbox'[kind][i] \in published'
  BY <1>6, <1>12
<1>14. inbox' \in [{"message", "keyspace"} -> Seq(Messages)]
  BY <1>2, <1>13 DEF ChannelTypes
<1> QED
  BY <1>4, <1>6, <1>11, <1>12, <1>13, <1>14 DEF ChannelTypes

\* A copy is delivered to listeners of the map.
LEMMA DispatchStep ==
  ASSUME ConfigAssumption, Mapped, ChannelTypes, NEW kind \in DOMAIN inbox, Dispatch(kind)
  PROVE  ChannelTypes'
<1>1. kind \in {"message", "keyspace"} /\ inbox[kind] # <<>>
  BY DEF ChannelTypes, Dispatch
<1>2. /\ inbox' = [inbox EXCEPT ![kind] = Tail(inbox[kind])]
      /\ UNCHANGED <<published, lagged, owed>>
      /\ got' = got \cup ((UNION {listener_map[p] : p \in Served(Head(inbox[kind]))})
                            \X {Head(inbox[kind])})
  BY DEF Dispatch
<1>3. Tail(inbox[kind]) \in Seq(Messages)
  BY <1>1 DEF ChannelTypes
<1>4. \A i \in DOMAIN Tail(inbox[kind]) :
        i + 1 \in DOMAIN inbox[kind] /\ Tail(inbox[kind])[i] = inbox[kind][i + 1]
  BY <1>1 DEF ChannelTypes
<1>5. Len(Tail(inbox[kind])) \leq Capacity
  <2>1. Len(Tail(inbox[kind])) = Len(inbox[kind]) - 1 /\ Len(inbox[kind]) \in Nat
    BY <1>1 DEF ChannelTypes
  <2>2. Len(inbox[kind]) \leq Capacity
    BY <1>1 DEF ChannelTypes
  <2>3. Capacity \in Nat
    BY BoundFacts
  <2> QED
    BY <2>1, <2>2, <2>3
<1>6. Head(inbox[kind]) \in Messages
  BY <1>1 DEF ChannelTypes
<1>7. got' \subseteq Listeners \X Messages
  BY <1>2, <1>6 DEF ChannelTypes, Mapped, Served
<1> QED
  BY <1>1, <1>2, <1>3, <1>4, <1>5, <1>7 DEF ChannelTypes

\* The channels hold what was published, and no more than their capacity.
LEMMA ChannelStep ==
  ASSUME ConfigAssumption, ServerTypes, Mapped, ChannelTypes, Next
  PROVE  ChannelTypes'
<1>1. ASSUME NEW l \in Listeners,
             Contains(l) \/ Extend(l) \/ SubscribeDone(l) \/ Retain(l) \/
             MapRemove(l) \/ PartDone(l)
      PROVE  ChannelTypes'
  BY <1>1
    DEF Contains, Goto, msgVars, Extend, SubscribeDone, Retain, MapRemove,
        PartDone, ChannelTypes
<1>2. ASSUME NEW l \in Listeners, NEW n \in Connections,
             Subscribe(l, n) \/ Punsubscribe(l, n)
      PROVE  ChannelTypes'
  BY <1>2 DEF Subscribe, msgVars, Punsubscribe, ChannelTypes
<1>3. ASSUME NEW n \in Connections, Reconnect(n) \/ ListPatterns(n) \/ Resubscribe(n)
      PROVE  ChannelTypes'
  BY <1>3 DEF Reconnect, msgVars, ListPatterns, Resubscribe, ChannelTypes
<1>4. ASSUME NEW m \in Messages, Publish(m) PROVE ChannelTypes'
  BY <1>4, PublishStep
<1>5. ASSUME NEW kind \in DOMAIN inbox, Dispatch(kind) PROVE ChannelTypes'
  BY <1>5, DispatchStep
<1> QED
  BY <1>1, <1>2, <1>3, <1>4, <1>5 DEF Next, Call, Resubscription

\* What the invariant says of a listener that nobody works on.
LEMMA OkFromInv == ASSUME IInv PROVE OkMeansSubscribed
<1> SUFFICES ASSUME NEW l \in Listeners, pc[l] = "added", Quiet(PatternOf[l]),
                    ~Disturbed(PatternOf[l])
             PROVE  /\ PatternOf[l] \in DOMAIN listener_map
                    /\ l \in listener_map[PatternOf[l]]
                    /\ Targets(PatternOf[l]) \subseteq subscribed[PatternOf[l]]
  BY DEF OkMeansSubscribed
<1>1. PatternOf[l] \in DOMAIN listener_map /\ l \in listener_map[PatternOf[l]]
  BY DEF IInv, Kept
<1>2. \A n \in Targets(PatternOf[l]) : resub[n] = "idle" /\ ~Coming(PatternOf[l], n)
  BY DEF Quiet, InCall, Coming
<1> QED
  BY <1>1, <1>2 DEF IInv, Covered

-----------------------------------------------------------------------------
(* What a listener is owed.                                                  *)

\* The message is still in its channel.
InChannel(m) == \E i \in DOMAIN inbox[Kind(m)] : inbox[Kind(m)][i] = m

\* Who is owed a message returned Ok before; if it is still there, and nothing
\* disturbed its pattern, it has the message or will have it.
Awaited(l, m) ==
  /\ pc[l] \in {"added", "emptied", "leaving", "removed"}
  /\ PatternOf[l] \in Matching[m]
  /\ pc[l] = "added" /\ ~Disturbed(PatternOf[l]) => <<l, m>> \in got \/ m \in lagged \/ InChannel(m)

AllAwaited == \A l \in Listeners, m \in Messages : <<l, m>> \in owed => Awaited(l, m)

\* What was in a channel before a message came is in it, or lagged; the message is
\* too, if its server has a subscription for it.
LEMMA PublishLeaves ==
  ASSUME ConfigAssumption, ServerTypes, ChannelTypes, NEW x \in Messages, Publish(x),
         NEW m \in Messages,
         \/ InChannel(m)
         \/ m = x /\ \E p \in Matching[x] : Origin[x] \in subscribed[p]
  PROVE  m \in lagged' \/ InChannel(m)'
<1> DEFINE matching == {p \in Matching[x] : Origin[x] \in subscribed[p]}
           n        == Cardinality(matching)
           more     == [i \in 1 .. n |-> x]
           queue    == inbox[Kind(x)] \o more
           kept     == KeepLatest(queue)
<1>1. Kind(x) \in {"message", "keyspace"} /\ Kind(m) \in {"message", "keyspace"}
  BY DEF Kind
<1>2. inbox' = [inbox EXCEPT ![Kind(x)] = kept]
  BY DEF Publish
<1>3. lagged' = lagged \cup {queue[i] : i \in 1 .. Len(queue) - Len(kept)}
  BY DEF Publish
<1>4. n \in Nat /\ (matching # {} => n # 0)
  <2>1. Matching[x] \subseteq Patterns /\ IsFiniteSet(Patterns)
    BY DEF ConfigAssumption
  <2>2. IsFiniteSet(matching)
    BY <2>1, FS_Subset
  <2> QED
    BY <2>2, FS_CardinalityType, FS_EmptySet
<1>5. (\E p \in Matching[x] : Origin[x] \in subscribed[p]) => n # 0
  BY <1>4
<1> HIDE DEF n
<1>6. inbox[Kind(x)] \in Seq(Messages) /\ more \in Seq(Messages)
  BY <1>1, <1>4 DEF ChannelTypes
<1>7. Len(more) = n /\ \A i \in 1 .. n : more[i] = x
  BY <1>4
<1>8. inbox'[Kind(x)] = kept /\ (Kind(m) # Kind(x) => inbox'[Kind(m)] = inbox[Kind(m)])
  BY <1>1, <1>2 DEF ChannelTypes
<1> HIDE DEF more
<1>9. /\ queue \in Seq(Messages)
      /\ DOMAIN queue = 1 .. Len(inbox[Kind(x)]) + n
      /\ Len(inbox[Kind(x)]) \in Nat /\ DOMAIN inbox[Kind(x)] = 1 .. Len(inbox[Kind(x)])
      /\ \A i \in DOMAIN inbox[Kind(x)] : queue[i] = inbox[Kind(x)][i]
      /\ \A i \in 1 .. n : queue[Len(inbox[Kind(x)]) + i] = x
  BY <1>6, <1>7
<1> HIDE DEF queue
<1>10. CASE Kind(m) # Kind(x)
  <2>1. InChannel(m)
    BY <1>10
  <2> QED
    BY <1>8, <1>10, <2>1 DEF InChannel, Kind
<1>11. CASE Kind(m) = Kind(x)
  <2>1. \E i \in DOMAIN queue : queue[i] = m
    <3>1. CASE InChannel(m)
      BY <1>4, <1>9, <1>11, <3>1 DEF InChannel
    <3>2. CASE m = x /\ n # 0
      <4>1. 1 \in 1 .. n /\ Len(inbox[Kind(x)]) + 1 \in DOMAIN queue
        BY <1>4, <1>9, <3>2
      <4> QED
        BY <1>9, <3>2, <4>1
    <3> QED
      BY <1>5, <3>1, <3>2
  <2>2. PICK i \in DOMAIN queue : queue[i] = m
    BY <2>1
  <2>3. i \in 1 .. Len(queue) - Len(kept) \/ \E j \in DOMAIN kept : kept[j] = queue[i]
    BY <1>9, KeepLatestKeeps
  <2> HIDE DEF kept
  <2> QED
    BY <1>3, <1>8, <1>11, <2>2, <2>3 DEF InChannel, Kind
<1> QED
  BY <1>10, <1>11

\* Who is owed a message that is sent now has a subscription where it comes from.
LEMMA PublishAwaited ==
  ASSUME ConfigAssumption, IInv, ChannelTypes, AllAwaited, NEW x \in Messages, Publish(x)
  PROVE  AllAwaited'
<1>1. /\ UNCHANGED <<pc, got, raced, refused>> /\ lagged \subseteq lagged'
      /\ owed' = owed \cup {<<l, x>> : l \in {k \in Listeners :
                   pc[k] = "added" /\ PatternOf[k] \in Matching[x] /\ Quiet(PatternOf[k])}}
  BY DEF Publish, callVars, subVars
<1>2. \A l \in Listeners : Disturbed(PatternOf[l])' <=> Disturbed(PatternOf[l])
  BY <1>1 DEF Disturbed
<1> SUFFICES ASSUME NEW l \in Listeners, NEW m \in Messages, <<l, m>> \in owed'
             PROVE  Awaited(l, m)'
  BY DEF AllAwaited
<1>3. ServerTypes
  BY DEF IInv, MInv
<1>4. CASE <<l, m>> \in owed
  <2>1. Awaited(l, m)
    BY <1>4 DEF AllAwaited
  <2>2. InChannel(m) => m \in lagged' \/ InChannel(m)'
    BY <1>3, PublishLeaves
  <2> QED
    BY <1>1, <1>2, <2>1, <2>2 DEF Awaited
<1>5. CASE /\ m = x /\ pc[l] = "added" /\ PatternOf[l] \in Matching[x]
           /\ Quiet(PatternOf[l])
  <2>1. ~Disturbed(PatternOf[l]) => Origin[x] \in subscribed[PatternOf[l]]
    <3>1. PatternOf[l] \in Patterns
      BY DEF ConfigAssumption
    <3>2. Origin[x] \in Targets(PatternOf[l])
      BY <1>5, <3>1 DEF ConfigAssumption
    <3>3. OkMeansSubscribed
      BY OkFromInv
    <3> QED
      BY <1>5, <3>2, <3>3 DEF OkMeansSubscribed
  <2>2. ~Disturbed(PatternOf[l]) => m \in lagged' \/ InChannel(m)'
    BY <1>3, <1>5, <2>1, PublishLeaves
  <2> QED
    BY <1>1, <1>2, <1>5, <2>2 DEF Awaited
<1> QED
  BY <1>1, <1>4, <1>5

\* A copy that leaves its channel goes to everybody who waits for it.
LEMMA DispatchAwaited ==
  ASSUME ConfigAssumption, IInv, ChannelTypes, AllAwaited,
         NEW kind \in DOMAIN inbox, Dispatch(kind)
  PROVE  AllAwaited'
<1>1. /\ inbox[kind] # <<>> /\ inbox' = [inbox EXCEPT ![kind] = Tail(inbox[kind])]
      /\ got' = got \cup ((UNION {listener_map[p] : p \in Served(Head(inbox[kind]))})
                            \X {Head(inbox[kind])})
      /\ UNCHANGED <<pc, raced, refused, lagged, owed>>
  BY DEF Dispatch, callVars, subVars
<1>2. \A l \in Listeners : Disturbed(PatternOf[l])' <=> Disturbed(PatternOf[l])
  BY <1>1 DEF Disturbed
<1> SUFFICES ASSUME NEW l \in Listeners, NEW m \in Messages, <<l, m>> \in owed
             PROVE  Awaited(l, m)'
  BY <1>1 DEF AllAwaited
<1>3. Awaited(l, m)
  BY DEF AllAwaited
<1>4. ASSUME pc[l] = "added", ~Disturbed(PatternOf[l]), InChannel(m)
      PROVE  <<l, m>> \in got' \/ InChannel(m)'
  <2>1. PICK i \in DOMAIN inbox[Kind(m)] : inbox[Kind(m)][i] = m
    BY <1>4 DEF InChannel
  <2>2. Kind(m) \in {"message", "keyspace"} /\ inbox[Kind(m)] \in Seq(Messages)
    BY DEF Kind, ChannelTypes
  <2>3. CASE kind # Kind(m)
    <3>1. inbox'[Kind(m)] = inbox[Kind(m)]
      BY <1>1, <2>2, <2>3 DEF ChannelTypes
    <3> QED
      BY <2>1, <3>1 DEF InChannel, Kind
  <2>4. CASE kind = Kind(m) /\ i = 1
    <3>1. Head(inbox[kind]) = m
      BY <1>1, <2>1, <2>2, <2>4
    <3>2. PatternOf[l] \in DOMAIN listener_map /\ l \in listener_map[PatternOf[l]]
      BY <1>4 DEF IInv, Kept
    <3>3. PatternOf[l] \in Served(m)
      BY <1>3, <3>2 DEF Awaited, Served
    <3> QED
      BY <1>1, <3>1, <3>2, <3>3
  <2>5. CASE kind = Kind(m) /\ i # 1
    <3>1. inbox'[Kind(m)] = Tail(inbox[Kind(m)])
      BY <1>1, <2>2, <2>5 DEF ChannelTypes
    <3>2. i - 1 \in DOMAIN Tail(inbox[Kind(m)]) /\ Tail(inbox[Kind(m)])[i - 1] = m
      BY <1>1, <2>1, <2>2, <2>5
    <3> QED
      BY <3>1, <3>2 DEF InChannel, Kind
  <2> QED
    BY <2>3, <2>4, <2>5
<1> QED
  BY <1>1, <1>2, <1>3, <1>4 DEF Awaited

\* The calls and the tasks of a reconnection: who was owed a message may leave, or
\* have its pattern disturbed.
LEMMA CallAwaited ==
  ASSUME CallTypes, HistoryTypes, AllAwaited,
         UNCHANGED <<inbox, lagged, owed, got>>,
         raced \subseteq raced', refused["psubscribe"] \subseteq refused'["psubscribe"],
         \A l \in Listeners : pc'[l] # pc[l] =>
           \/ pc[l] \notin {"added", "emptied", "leaving", "removed"}
           \/ pc'[l] \in {"emptied", "leaving", "removed"}
  PROVE  AllAwaited'
<1>1. \A p : Disturbed(p) => Disturbed(p)'
  BY DEF Disturbed
<1>2. \A m \in Messages : InChannel(m)' <=> InChannel(m)
  BY DEF InChannel, Kind
<1> QED
  BY <1>1, <1>2 DEF AllAwaited, Awaited

\* Every step keeps it.
LEMMA AwaitedStep ==
  ASSUME ConfigAssumption, IInv, ChannelTypes, AllAwaited, [Next]_vars
  PROVE  AllAwaited'
<1>1. CallTypes /\ HistoryTypes
  BY DEF IInv, MInv
<1>2. CASE UNCHANGED vars
  BY <1>1, <1>2, CallAwaited DEF vars, callVars, msgVars, subVars
<1>3. ASSUME NEW l \in Listeners,
             Contains(l) \/ Extend(l) \/ SubscribeDone(l) \/ Retain(l) \/ MapRemove(l) \/
             PartDone(l)
      PROVE  AllAwaited'
  <2>1. /\ UNCHANGED <<inbox, lagged, owed, got, refused>> /\ raced \subseteq raced'
        /\ \A k \in Listeners \ {l} : pc'[k] = pc[k]
    BY <1>1, <1>3 DEF Contains, Extend, SubscribeDone, Retain, MapRemove, PartDone, Goto, Race,
                      msgVars, subVars, CallTypes
  <2>2. pc'[l] # pc[l] => \/ pc[l] \notin {"added", "emptied", "leaving", "removed"}
                          \/ pc'[l] \in {"emptied", "leaving", "removed"}
    BY <1>1, <1>3 DEF Contains, Extend, SubscribeDone, Retain, MapRemove, PartDone, Goto,
                      CallTypes
  <2> QED
    BY <1>1, <2>1, <2>2, CallAwaited
<1>4. ASSUME NEW l \in Listeners, NEW n \in Connections,
             Subscribe(l, n) \/ Punsubscribe(l, n)
      PROVE  AllAwaited'
  <2>1. UNCHANGED <<pc, inbox, lagged, owed, got, raced>>
    BY <1>4 DEF Subscribe, Punsubscribe, msgVars
  <2>2. refused["psubscribe"] \subseteq refused'["psubscribe"]
    BY <1>1, <1>4 DEF Subscribe, Punsubscribe, Refused, HistoryTypes
  <2> QED
    BY <1>1, <2>1, <2>2, CallAwaited
<1>5. ASSUME NEW n \in Connections, Reconnect(n) \/ ListPatterns(n) \/ Resubscribe(n)
      PROVE  AllAwaited'
  <2>1. UNCHANGED <<pc, inbox, lagged, owed, got, raced>>
    BY <1>5 DEF Reconnect, ListPatterns, Resubscribe, callVars, msgVars
  <2>2. refused["psubscribe"] \subseteq refused'["psubscribe"]
    BY <1>1, <1>5 DEF Reconnect, ListPatterns, Resubscribe, Refused, subVars, HistoryTypes
  <2> QED
    BY <1>1, <2>1, <2>2, CallAwaited
<1> QED
  BY <1>2, <1>3, <1>4, <1>5, PublishAwaited, DispatchAwaited
     DEF Next, Call, Resubscription

-----------------------------------------------------------------------------
(* The theorems                                                              *)

\* The invariants hold at first.
LEMMA InitInv == ASSUME ConfigAssumption, Init PROVE IInv /\ ChannelTypes
<1>1. CallTypes
  BY BoundFacts DEF Init, CallTypes
<1>2. ServerTypes
  BY BoundFacts DEF Init, ServerTypes
<1>3. Mapped /\ Covered
  <2>1. DOMAIN listener_map = {}
    BY DEF Init
  <2> QED
    BY <2>1 DEF Mapped, Covered
<1>4. HistoryTypes /\ Met /\ Kept /\ NotLeft
  BY DEF Init, HistoryTypes, Met, Kept, NotLeft
<1>5. ChannelTypes
  <2>1. \A kind \in {"message", "keyspace"} : inbox[kind] = <<>>
    BY DEF Init
  <2>2. inbox \in [{"message", "keyspace"} -> Seq(Messages)]
    BY DEF Init
  <2> QED
    BY <2>1, <2>2, BoundFacts DEF Init, ChannelTypes
<1> QED
  BY <1>1, <1>2, <1>3, <1>4, <1>5 DEF IInv, MInv

\* Nothing happens to them in a stuttering step.
LEMMA Stutter ==
  ASSUME UNCHANGED vars
  PROVE  /\ MInv => MInv'
         /\ IInv => IInv'
         /\ ChannelTypes => ChannelTypes'
<1>1. UNCHANGED <<pc, already, waiting, broken, listener_map, subscribed, tracked, resub,
                  listed, reconnects, inbox, published, lagged, owed, got, failures,
                  raced, refused>>
  BY DEF vars, callVars, subVars, connVars, msgVars
<1>2. MInv => MInv'
  BY <1>1 DEF MInv, CallTypes, ServerTypes, HistoryTypes, Mapped
<1>3. ChannelTypes => ChannelTypes'
  BY <1>1 DEF ChannelTypes
<1>4. Met /\ Kept => Met' /\ Kept'
  BY <1>1 DEF Met, Kept, Disturbed
<1>5. Covered /\ NotLeft => Covered' /\ NotLeft'
  BY <1>1 DEF Covered, NotLeft, Coming, Leaving, Disturbed
<1> QED
  BY <1>2, <1>3, <1>4, <1>5 DEF IInv

\* The types, and what the map holds, however the calls interleave.
LEMMA MInvHolds == ASSUME ConfigAssumption PROVE Spec => [](MInv /\ ChannelTypes)
<1>1. Init => MInv /\ ChannelTypes
  BY InitInv DEF IInv
<1>2. MInv /\ ChannelTypes /\ [Next]_vars => MInv' /\ ChannelTypes'
  BY CallTypeStep, ServerTypeStep, HistoryStep, MapStep, ChannelStep, Stutter DEF MInv
<1> QED
  BY <1>1, <1>2, PTL DEF Spec

\* And what is true of the patterns that nothing disturbed.
LEMMA IInvHolds == ASSUME ConfigAssumption PROVE Spec => []IInv
<1>1. Init => IInv
  BY InitInv
<1>2. IInv /\ [Next]_vars => IInv'
  BY CallTypeStep, ServerTypeStep, HistoryStep, MapStep, MetStep, KeptStep, CoveredStep,
     NotLeftStep, Stutter
     DEF IInv, MInv
<1> QED
  BY <1>1, <1>2, PTL DEF Spec

\* psubscribe, punsubscribe and the dispatch loops keep every variable in its
\* type: no pattern is subscribed where it should not be, and the channels are
\* bounded.
THEOREM TypeCorrect == ASSUME ConfigAssumption PROVE Spec => []TypeOK
<1>1. MInv /\ ChannelTypes => TypeOK
  <2> SUFFICES ASSUME MInv, ChannelTypes PROVE TypeOK
    OBVIOUS
  <2>1. \A kind \in DOMAIN inbox :
          Len(inbox[kind]) \leq Capacity /\ SE!ToSet(inbox[kind]) \subseteq published
    BY DEF ChannelTypes, SE!ToSet
  <2>2. published \cup lagged \subseteq Messages /\ owed \cup got \subseteq Listeners \X Messages
    BY DEF ChannelTypes
  <2>3. \A p \in DOMAIN listener_map :
          p \in Patterns /\ listener_map[p] \subseteq {l \in Listeners : PatternOf[l] = p}
    BY DEF MInv, Mapped
  <2>4. {already, broken} \subseteq [Listeners -> BOOLEAN]
    BY DEF MInv, CallTypes
  <2> QED
    BY <2>1, <2>2, <2>3, <2>4 DEF MInv, CallTypes, ServerTypes, HistoryTypes, TypeOK
<1> QED
  BY <1>1, MInvHolds, PTL

\* The dispatch loops (they read the map, message by message): a listener that
\* was removed, or whose add_listener failed, gets nothing any more, whichever
\* calls are under way on its pattern.
THEOREM RemovedGetNothing == ASSUME ConfigAssumption PROVE Spec => RemovedIsSilent
<1> DEFINE Silent == \A l \in Listeners :
             pc[l] \in {"failed", "removed"} =>
               \A m \in Messages : <<l, m>> \in got' => <<l, m>> \in got
<1>1. MInv /\ ChannelTypes /\ [Next]_vars => [Silent]_vars
  <2> SUFFICES ASSUME MInv, [Next]_vars,
                      NEW l \in Listeners, pc[l] \in {"failed", "removed"},
                      NEW m \in Messages, <<l, m>> \in got'
               PROVE  <<l, m>> \in got
    OBVIOUS
  <2>1. CASE got' = got
    BY <2>1
  <2>2. ASSUME NEW kind \in DOMAIN inbox, Dispatch(kind) PROVE <<l, m>> \in got
    <3>1. got' = got \cup ((UNION {listener_map[p] : p \in Served(Head(inbox[kind]))})
                             \X {Head(inbox[kind])})
      BY <2>2 DEF Dispatch
    <3>2. \A p \in DOMAIN listener_map : l \notin listener_map[p]
      BY DEF MInv, Mapped
    <3> QED
      BY <3>1, <3>2 DEF Served
  <2>3. Next => got' = got \/ \E kind \in DOMAIN inbox : Dispatch(kind)
    BY DEF Next, Call, Resubscription, Contains, Extend, Subscribe, SubscribeDone, Retain,
           MapRemove, Punsubscribe, PartDone, Reconnect, ListPatterns, Resubscribe, Publish,
           msgVars
  <2> QED
    BY <2>1, <2>2, <2>3 DEF vars, msgVars
<1> QED
  BY <1>1, MInvHolds, PTL DEF Spec, RemovedIsSilent

\* psubscribe: Ok means that the listener is in the map and its pattern is
\* subscribed at every target, whatever calls race on other patterns and whatever
\* commands fail there, reconnections included.  On its own pattern only a removal
\* that an addition met, or a PSUBSCRIBE that failed, can take it away.
THEOREM OkIsSubscribed == ASSUME ConfigAssumption PROVE Spec => []OkMeansSubscribed
BY OkFromInv, IInvHolds, PTL

\* Publish and the dispatch loops, over calls that race, commands that fail and
\* reconnections: a listener whose add_listener returned Ok before a message was
\* sent, and that stays, gets it, if nothing disturbed its own pattern and the
\* channel did not overflow.
THEOREM StaysDelivered == ASSUME ConfigAssumption PROVE Spec => []DeliveredIfUndisturbed
<1>1. Init => AllAwaited
  BY DEF Init, AllAwaited
<1>2. IInv /\ ChannelTypes /\ AllAwaited /\ [Next]_vars => AllAwaited'
  BY AwaitedStep
<1>3. ChannelTypes /\ AllAwaited => DeliveredIfUndisturbed
  <2> SUFFICES ASSUME AllAwaited, ChannelTypes, NEW l \in Listeners, NEW m \in Messages,
                      <<l, m>> \in owed, m \notin SE!ToSet(inbox[Kind(m)]),
                      pc[l] = "added", ~Disturbed(PatternOf[l])
               PROVE  <<l, m>> \in got \/ m \in lagged
    BY DEF DeliveredIfUndisturbed
  <2>1. ~InChannel(m)
    BY DEF InChannel, SE!ToSet
  <2> QED
    BY <2>1 DEF AllAwaited, Awaited
<1> QED
  BY <1>1, <1>2, <1>3, IInvHolds, MInvHolds, PTL DEF Spec

\* punsubscribe: no pattern stays subscribed at any server after its last listener
\* left, unless an addition met the removal or the PUNSUBSCRIBE failed; a PSUBSCRIBE
\* that failed does not matter.
THEOREM NothingIsLeftBehind == ASSUME ConfigAssumption PROVE Spec => []NoSubscriptionLeak
<1>1. IInv => NoSubscriptionLeak
  <2> SUFFICES ASSUME IInv, NEW p \in Patterns, reconnects = 0, Quiet(p),
                      p \notin raced \cup refused["punsubscribe"],
                      NEW n \in subscribed[p], p \notin DOMAIN listener_map
               PROVE  FALSE
    BY DEF NoSubscriptionLeak
  <2>1. Leaving(p, n)
    BY DEF IInv, NotLeft
  <2> QED
    BY <2>1 DEF Leaving, Quiet, InCall
<1> QED
  BY <1>1, IInvHolds, PTL

-----------------------------------------------------------------------------
(* The wait entry of a lock                                                  *)

\* The registered tasks, and those that sleep.
Present == {t \in Tasks : wait_pc[t] \notin {"new", "left"}}
Asleep  == {t \in Tasks : wait_pc[t] = "asleep"}

WaitTypes ==
  /\ wait_pc \in [Tasks -> {"new", "trying", "failed", "asleep", "woken", "called",
                            "holding", "released", "left"}]
  /\ signal.permit \in BOOLEAN /\ signal.queue \in Seq(Tasks)
  /\ signal = [permit |-> signal.permit, queue |-> signal.queue]
  /\ free \in BOOLEAN
  /\ messages \in Seq({"unlock", "read_unlock"})
  /\ missed \subseteq Tasks

\* A task sleeps exactly as long as it is in the queue of the Notify.
Queued == Range(signal.queue) = Asleep /\ Distinct(signal.queue)

Counted ==
  waiters \in Seq(Tasks) /\ IsFiniteSet(Present) /\ Cardinality(Present) = Len(waiters)

\* Beside a free lock a message is on its way, or a task will try the lock, or
\* the tasks that wait, and those about to, were missed by try_run_all_listeners;
\* for one about to wait a permit will do.
Heard ==
  free =>
    \/ messages # <<>>
    \/ \E u \in Tasks : wait_pc[u] \in {"woken", "called", "trying"}
    \/ \A t \in Tasks : /\ wait_pc[t] = "asleep" => t \in missed
                        /\ wait_pc[t] = "failed" => t \in missed \/ signal.permit

WInv == WaitTypes /\ Queued /\ Counted /\ Heard

-----------------------------------------------------------------------------
(* What wakes a task                                                         *)

\* notify_one wakes the first of the queue, or leaves a permit.
LEMMA NotifyOne ==
  ASSUME WInv, NEW labels, Waiting!notify_one(labels)
  PROVE  \/ /\ Asleep = {} /\ signal' = [permit |-> TRUE, queue |-> signal.queue]
            /\ wait_pc' = labels
         \/ \E u \in Asleep :
              /\ signal' = [permit |-> signal.permit, queue |-> Tail(signal.queue)]
              /\ wait_pc' = [labels EXCEPT ![u] = "woken"]
              /\ Tail(signal.queue) \in Seq(Tasks) /\ Distinct(Tail(signal.queue))
              /\ Range(Tail(signal.queue)) = Asleep \ {u}
<1> DEFINE queue == signal.queue
<1>1. /\ queue \in Seq(Tasks) /\ Range(queue) = Asleep /\ Distinct(queue)
      /\ signal = [permit |-> signal.permit, queue |-> queue]
  BY DEF WInv, WaitTypes, Queued
<1>2. CASE queue = <<>>
  <2>1. Asleep = {}
    BY <1>1, <1>2, RangeOfEmpty
  <2>2. signal' = [signal EXCEPT !.permit = TRUE] /\ wait_pc' = labels
    BY <1>2 DEF Waiting!notify_one
  <2> QED
    BY <1>1, <2>1, <2>2
<1>3. CASE queue # <<>>
  <2>1. signal' = [signal EXCEPT !.queue = Tail(queue)]
        /\ wait_pc' = [labels EXCEPT ![Head(queue)] = "woken"]
    BY <1>3 DEF Waiting!notify_one
  <2> HIDE DEF queue
  <2>2. /\ Asleep = {Head(queue)} \cup Range(Tail(queue)) /\ Tail(queue) \in Seq(Tasks)
    BY <1>1, <1>3, RangeOfHeadTail
  <2>3. Distinct(Tail(queue)) /\ Head(queue) \notin Range(Tail(queue))
    BY <1>1, <1>3, DistinctTail
  <2>4. signal' = [permit |-> signal.permit, queue |-> Tail(queue)]
    BY <1>1, <2>1
  <2>5. Head(queue) \in Asleep /\ Range(Tail(queue)) = Asleep \ {Head(queue)}
    BY <2>2, <2>3
  <2> QED
    BY <2>1, <2>2, <2>3, <2>4, <2>5 DEF queue
<1> QED
  BY <1>2, <1>3

\* notify_waiters wakes the whole queue.
LEMMA NotifyWaiters ==
  ASSUME WInv, Waiting!notify_waiters
  PROVE  /\ signal' = [permit |-> signal.permit, queue |-> <<>>]
         /\ wait_pc' = [t \in Tasks |-> IF t \in Asleep THEN "called" ELSE wait_pc[t]]
<1>1. /\ Range(signal.queue) = Asleep
      /\ signal = [permit |-> signal.permit, queue |-> signal.queue]
  BY DEF WInv, WaitTypes, Queued
<1>2. signal' = [signal EXCEPT !.queue = <<>>]
  BY DEF Waiting!notify_waiters
<1>3. wait_pc' = [t \in Tasks |-> IF t \in Range(signal.queue) THEN "called" ELSE wait_pc[t]]
  BY DEF Waiting!notify_waiters, Waiting!Range, Range
<1> QED
  BY <1>1, <1>2, <1>3

\* A step that does not add or remove a waiter keeps the count.
LEMMA SameCount ==
  ASSUME Counted, waiters' = waiters,
         \A t \in Tasks : wait_pc[t] \in {"new", "left"} <=> wait_pc'[t] \in {"new", "left"}
  PROVE  Counted'
<1>1. Present' = Present
  BY DEF Present
<1> QED
  BY <1>1 DEF Counted

-----------------------------------------------------------------------------
(* Every step keeps the invariant.                                           *)

\* add_waiter and remove_waiter keep the count of the waiters.
LEMMA RegisterStep ==
  ASSUME WInv, NEW t \in Tasks, Waiting!add_waiter(t) \/ Waiting!remove_waiter(t)
  PROVE  WInv'
<1>1. /\ UNCHANGED <<signal, free, messages, missed>>
      /\ \/ wait_pc' = [wait_pc EXCEPT ![t] = "trying"] /\ wait_pc[t] = "new"
         \/ wait_pc' = [wait_pc EXCEPT ![t] = "left"] /\ wait_pc[t] \in {"failed", "released"}
  BY DEF Waiting!add_waiter, Waiting!remove_waiter, Waiting!Goto
<1>2. WaitTypes'
  BY <1>1 DEF WInv, WaitTypes
<1>3. Queued'
  <2>1. Asleep' = Asleep
    BY <1>1 DEF WInv, WaitTypes, Asleep
  <2> QED
    BY <1>1, <2>1 DEF WInv, Queued
<1>4. Heard'
  BY <1>1 DEF WInv, Heard, WaitTypes
<1>5. CASE Waiting!add_waiter(t)
  <2>1. Present' = Present \cup {t} /\ t \notin Present
    BY <1>5 DEF Waiting!add_waiter, Waiting!Goto, WInv, WaitTypes, Present
  <2>2. waiters' = Append(waiters, t)
    BY <1>5 DEF Waiting!add_waiter
  <2>3. IsFiniteSet(Present') /\ Cardinality(Present') = Cardinality(Present) + 1
    BY <2>1, FS_AddElement DEF WInv, Counted
  <2>4. waiters' \in Seq(Tasks) /\ Len(waiters') = Len(waiters) + 1
    BY <2>2 DEF WInv, Counted
  <2>5. Counted'
    BY <2>3, <2>4 DEF WInv, Counted
  <2> QED
    BY <1>2, <1>3, <1>4, <2>5 DEF WInv
<1>6. CASE Waiting!remove_waiter(t)
  <2>1. Present' = Present \ {t} /\ t \in Present
    BY <1>6 DEF Waiting!remove_waiter, Waiting!Goto, WInv, WaitTypes, Present
  <2>2. waiters' = SubSeq(waiters, 1, Len(waiters) - 1)
    BY <1>6 DEF Waiting!remove_waiter, Waiting!SE!Front
  <2>3. IsFiniteSet(Present') /\ Cardinality(Present') = Cardinality(Present) - 1
    BY <2>1, FS_RemoveElement DEF WInv, Counted
  <2>4. Len(waiters) \in Nat /\ Len(waiters) # 0
    BY <2>1, FS_EmptySet DEF WInv, Counted
  <2>5. waiters' \in Seq(Tasks) /\ Len(waiters') = Len(waiters) - 1
    BY <2>2, <2>4 DEF WInv, Counted
  <2>6. Counted'
    BY <2>3, <2>5 DEF WInv, Counted
  <2> QED
    BY <1>2, <1>3, <1>4, <2>6 DEF WInv
<1> QED
  BY <1>5, <1>6

\* Taking and releasing the lock.
LEMMA LockStep ==
  ASSUME WInv,
         \/ Waiting!OtherUnlocks \/ Waiting!OtherLocks
         \/ \E t \in Tasks : Waiting!TryLock(t) \/ Waiting!Unlock(t)
  PROVE  WInv'
<1>1. UNCHANGED <<waiters, signal, missed>>
  BY DEF Waiting!OtherUnlocks, Waiting!OtherLocks, Waiting!TryLock, Waiting!Unlock
<1>2. \/ free' = FALSE /\ messages' = messages
      \/ \E m \in {"unlock", "read_unlock"} : free' = TRUE /\ messages' = Append(messages, m)
  BY DEF Waiting!OtherUnlocks, Waiting!OtherLocks, Waiting!TryLock, Waiting!Unlock,
         Waiting!UnlockMessages
<1>3. \/ wait_pc' = wait_pc
      \/ \E t \in Tasks : \E s \in {"holding", "failed", "released"} :
           wait_pc[t] \in {"trying", "holding"} /\ wait_pc' = [wait_pc EXCEPT ![t] = s]
  BY DEF Waiting!OtherUnlocks, Waiting!OtherLocks, Waiting!TryLock, Waiting!Unlock,
         Waiting!Goto
<1>4. /\ free' \in BOOLEAN /\ messages' \in Seq({"unlock", "read_unlock"})
      /\ free' => messages' # <<>>
  <2>1. messages \in Seq({"unlock", "read_unlock"})
    BY DEF WInv, WaitTypes
  <2>2. \A m \in {"unlock", "read_unlock"} :
          /\ Append(messages, m) \in Seq({"unlock", "read_unlock"})
          /\ Append(messages, m) # <<>>
    BY <2>1
  <2> QED
    BY <1>2, <2>1, <2>2
<1>5. WaitTypes'
  BY <1>1, <1>3, <1>4 DEF WInv, WaitTypes
<1>6. Asleep' = Asleep
  BY <1>3 DEF WInv, WaitTypes, Asleep
<1>7. Queued'
  BY <1>1, <1>6 DEF WInv, Queued
<1>8. Counted'
  BY <1>1, <1>3, SameCount DEF WInv, WaitTypes
<1> QED
  BY <1>4, <1>5, <1>7, <1>8 DEF WInv, Heard

\* try_run_listener and try_run_all_listeners: whoever waits when the message comes
\* is woken, and one that is about to wait finds the permit or was missed.
LEMMA MessageStep ==
  ASSUME WInv, Waiting!try_run_listener \/ Waiting!try_run_all_listeners
  PROVE  WInv'
<1>1. /\ waiters' = waiters /\ free' = free
      /\ messages' \in Seq({"unlock", "read_unlock"})
  <2>1. messages # <<>> /\ messages' = Tail(messages)
    BY DEF Waiting!try_run_listener, Waiting!try_run_all_listeners
  <2>2. messages \in Seq({"unlock", "read_unlock"})
    BY DEF WInv, WaitTypes
  <2> QED
    BY <2>1, <2>2 DEF Waiting!try_run_listener, Waiting!try_run_all_listeners
<1>2. CASE Waiting!try_run_listener
  <2>1. missed' = missed /\ Waiting!notify_one(wait_pc)
    BY <1>2 DEF Waiting!try_run_listener
  <2>2. CASE Asleep = {} /\ signal' = [permit |-> TRUE, queue |-> signal.queue]
             /\ wait_pc' = wait_pc
    <3>1. WaitTypes' /\ Counted'
      BY <1>1, <2>1, <2>2, SameCount DEF WInv, WaitTypes
    <3>2. Queued'
      BY <2>2 DEF WInv, Queued, Asleep
    <3>3. Heard'
      BY <2>2 DEF Heard, Asleep
    <3> QED
      BY <3>1, <3>2, <3>3 DEF WInv
  <2>3. ASSUME NEW u \in Asleep,
               signal' = [permit |-> signal.permit, queue |-> Tail(signal.queue)],
               wait_pc' = [wait_pc EXCEPT ![u] = "woken"],
               Tail(signal.queue) \in Seq(Tasks), Distinct(Tail(signal.queue)),
               Range(Tail(signal.queue)) = Asleep \ {u}
        PROVE  WInv'
    <3>1. WaitTypes'
      BY <1>1, <2>1, <2>3 DEF WInv, WaitTypes, Asleep
    <3>2. Asleep' = Asleep \ {u}
      BY <2>3 DEF WInv, WaitTypes, Asleep
    <3>3. Queued'
      BY <2>3, <3>2 DEF Queued
    <3>4. Counted'
      BY <1>1, <2>3, SameCount DEF WInv, WaitTypes, Asleep
    <3>5. Heard'
      BY <2>3 DEF WInv, WaitTypes, Heard, Asleep
    <3> QED
      BY <3>1, <3>3, <3>4, <3>5 DEF WInv
  <2> QED
    BY <2>1, <2>2, <2>3, NotifyOne
<1>3. CASE Waiting!try_run_all_listeners
  <2>1. /\ missed' = missed \cup {t \in Tasks : wait_pc[t] = "failed"}
        /\ signal' = [permit |-> signal.permit, queue |-> <<>>]
        /\ wait_pc' = [t \in Tasks |-> IF t \in Asleep THEN "called" ELSE wait_pc[t]]
    BY <1>3, NotifyWaiters DEF Waiting!try_run_all_listeners
  <2>2. WaitTypes'
    BY <1>1, <2>1 DEF WInv, WaitTypes
  <2>3. Asleep' = {}
    BY <2>1 DEF WInv, WaitTypes, Asleep
  <2>4. Queued'
    BY <2>1, <2>3, RangeOfEmpty, EmptyDistinct DEF Queued
  <2>5. Counted'
    BY <1>1, <2>1, SameCount DEF WInv, WaitTypes, Asleep
  <2>6. Heard'
    BY <2>1 DEF WInv, WaitTypes, Heard, Asleep
  <2> QED
    BY <2>2, <2>4, <2>5, <2>6 DEF WInv
<1> QED
  BY <1>2, <1>3

\* wait takes the permit or a place in the queue.
LEMMA WaitStep ==
  ASSUME WInv, NEW t \in Tasks, Waiting!wait(t)
  PROVE  WInv'
<1>1. /\ UNCHANGED <<waiters, free, messages, missed>> /\ wait_pc[t] = "failed"
  BY DEF Waiting!wait
<1>2. CASE signal.permit
  <2>1. /\ wait_pc' = [wait_pc EXCEPT ![t] = "woken"]
        /\ signal' = [permit |-> FALSE, queue |-> signal.queue]
    BY <1>2 DEF Waiting!wait, Waiting!Goto, WInv, WaitTypes
  <2>2. WaitTypes'
    BY <1>1, <2>1 DEF WInv, WaitTypes
  <2>3. Asleep' = Asleep
    BY <1>1, <2>1 DEF WInv, WaitTypes, Asleep
  <2>4. Queued'
    BY <2>1, <2>3 DEF WInv, Queued
  <2>5. Counted'
    BY <1>1, <2>1, SameCount DEF WInv, WaitTypes
  <2>6. Heard'
    BY <2>1 DEF WInv, WaitTypes, Heard
  <2> QED
    BY <2>2, <2>4, <2>5, <2>6 DEF WInv
<1>3. CASE ~signal.permit
  <2> DEFINE queue == Append(signal.queue, t)
  <2>1. /\ wait_pc' = [wait_pc EXCEPT ![t] = "asleep"]
        /\ signal' = [permit |-> signal.permit, queue |-> queue]
    BY <1>3 DEF Waiting!wait, Waiting!Goto, WInv, WaitTypes
  <2>2. t \notin Asleep /\ Asleep' = Asleep \cup {t}
    BY <1>1, <2>1 DEF WInv, WaitTypes, Asleep
  <2>3. /\ queue \in Seq(Tasks) /\ Range(queue) = Range(signal.queue) \cup {t}
        /\ Distinct(queue)
    BY <2>2, RangeOfAppend, DistinctAppend DEF WInv, WaitTypes, Queued
  <2> HIDE DEF queue
  <2>4. WaitTypes'
    BY <1>1, <2>1, <2>3 DEF WInv, WaitTypes
  <2>5. Queued'
    BY <2>1, <2>2, <2>3 DEF WInv, Queued
  <2>6. Counted'
    BY <1>1, <2>1, SameCount DEF WInv, WaitTypes
  <2>7. Heard'
    <3> SUFFICES ASSUME free, messages = <<>>,
                        \A u \in Tasks : wait_pc[u] \notin {"woken", "called", "trying"}
                 PROVE  \A u \in Tasks :
                          /\ wait_pc'[u] = "asleep" => u \in missed
                          /\ wait_pc'[u] = "failed" => u \in missed
      BY <1>1, <2>1 DEF Heard, WInv, WaitTypes
    <3> QED
      BY <1>1, <1>3, <2>1 DEF WInv, Heard, WaitTypes
  <2> QED
    BY <2>4, <2>5, <2>6, <2>7 DEF WInv
<1> QED
  BY <1>2, <1>3

\* wait ends: the task tries the lock again, and passes on a wake-up it does not
\* need.
LEMMA EndStep ==
  ASSUME WInv, NEW t \in Tasks, Waiting!WakeUp(t) \/ Waiting!Timeout(t)
  PROVE  WInv'
<1> DEFINE gone == [wait_pc EXCEPT ![t] = "trying"]
<1>1. UNCHANGED <<waiters, free, messages>> /\ missed' = missed \ {t}
  BY DEF Waiting!WakeUp, Waiting!Timeout
<1>2. wait_pc[t] \in {"asleep", "woken", "called"} /\ t \in Present
  BY DEF Waiting!WakeUp, Waiting!Timeout, Present
<1>3. gone \in [Tasks -> {"new", "trying", "failed", "asleep", "woken", "called",
                          "holding", "released", "left"}]
      /\ gone[t] = "trying" /\ \A u \in Tasks \ {t} : gone[u] = wait_pc[u]
  BY DEF WInv, WaitTypes
<1> HIDE DEF gone
<1>4. CASE wait_pc' = gone /\ signal' = signal /\ wait_pc[t] # "asleep"
  <2>1. WaitTypes'
    BY <1>1, <1>3, <1>4 DEF WInv, WaitTypes
  <2>2. Asleep' = Asleep
    BY <1>3, <1>4 DEF Asleep
  <2>3. Queued'
    BY <1>4, <2>2 DEF WInv, Queued
  <2>4. Counted'
    BY <1>1, <1>2, <1>3, <1>4, SameCount DEF WInv, Present
  <2>5. Heard'
    BY <1>3, <1>4 DEF Heard
  <2> QED
    BY <2>1, <2>3, <2>4, <2>5 DEF WInv
<1>5. ASSUME NEW i \in DOMAIN signal.queue, signal.queue[i] = t, wait_pc' = gone,
             signal' = [signal EXCEPT !.queue = Waiting!SE!RemoveAt(signal.queue, i)]
      PROVE  WInv'
  <2> DEFINE queue == SubSeq(signal.queue, 1, i - 1)
                        \o SubSeq(signal.queue, i + 1, Len(signal.queue))
  <2>1. /\ signal.queue \in Seq(Tasks) /\ Distinct(signal.queue)
        /\ Range(signal.queue) = Asleep
        /\ signal = [permit |-> signal.permit, queue |-> signal.queue]
    BY DEF WInv, WaitTypes, Queued
  <2>2. signal' = [permit |-> signal.permit, queue |-> queue]
    BY <1>5, <2>1 DEF Waiting!SE!RemoveAt
  <2>3. DOMAIN signal.queue = 1 .. Len(signal.queue) /\ Len(signal.queue) \in Nat
    BY <2>1
  <2>4. queue \in Seq(Tasks) /\ Lacks(queue, signal.queue, i)
    BY <2>1, <2>3, PartsLack
  <2> HIDE DEF queue
  <2>5. Distinct(queue) /\ Range(queue) = Asleep \ {t}
    BY <1>5, <2>1, <2>3, <2>4, DistinctLacks
  <2>6. WaitTypes'
    BY <1>1, <1>3, <1>5, <2>2, <2>4 DEF WInv, WaitTypes
  <2>7. Asleep' = Asleep \ {t}
    BY <1>3, <1>5 DEF Asleep
  <2>8. Queued'
    BY <2>2, <2>5, <2>7 DEF Queued
  <2>9. Counted'
    BY <1>1, <1>2, <1>3, <1>5, SameCount DEF WInv, Present
  <2>10. Heard'
    BY <1>3, <1>5 DEF Heard
  <2> QED
    BY <2>6, <2>8, <2>9, <2>10 DEF WInv
<1>6. CASE Waiting!notify_one(gone) /\ wait_pc[t] = "woken"
  <2>1. CASE Asleep = {} /\ signal' = [permit |-> TRUE, queue |-> signal.queue]
             /\ wait_pc' = gone
    <3>1. WaitTypes'
      BY <1>1, <1>3, <2>1 DEF WInv, WaitTypes
    <3>2. Asleep' = Asleep
      BY <1>3, <1>6, <2>1 DEF Asleep
    <3>3. Queued'
      BY <2>1, <3>2 DEF WInv, Queued
    <3>4. Counted'
      BY <1>1, <1>2, <1>3, <2>1, SameCount DEF WInv, Present
    <3>5. Heard'
      BY <1>3, <2>1 DEF Heard
    <3> QED
      BY <3>1, <3>3, <3>4, <3>5 DEF WInv
  <2>2. ASSUME NEW u \in Asleep,
               signal' = [permit |-> signal.permit, queue |-> Tail(signal.queue)],
               wait_pc' = [gone EXCEPT ![u] = "woken"],
               Tail(signal.queue) \in Seq(Tasks), Distinct(Tail(signal.queue)),
               Range(Tail(signal.queue)) = Asleep \ {u}
        PROVE  WInv'
    <3>1. u \in Tasks /\ u # t /\ wait_pc[u] = "asleep"
      BY <1>6, <2>2 DEF Asleep
    <3>2. WaitTypes'
      BY <1>1, <1>3, <2>2, <3>1 DEF WInv, WaitTypes
    <3>3. Asleep' = Asleep \ {u}
      BY <1>3, <1>6, <2>2, <3>1 DEF Asleep
    <3>4. Queued'
      BY <2>2, <3>3 DEF Queued
    <3>5. Counted'
      BY <1>1, <1>2, <1>3, <2>2, <3>1, SameCount DEF WInv, Present
    <3>6. Heard'
      BY <1>3, <2>2, <3>1 DEF Heard
    <3> QED
      BY <3>2, <3>4, <3>5, <3>6 DEF WInv
  <2> QED
    BY <1>6, <2>1, <2>2, NotifyOne
<1>7. CASE Waiting!WakeUp(t)
  BY <1>4, <1>7 DEF Waiting!WakeUp, Waiting!Goto, gone
<1>8. CASE Waiting!Timeout(t)
  BY <1>5, <1>6, <1>8 DEF Waiting!Timeout, gone
<1> QED
  BY <1>7, <1>8

-----------------------------------------------------------------------------
\* The invariant of the wait entry.
LEMMA WInvHolds == Waiting!Spec => []WInv
<1>1. Waiting!Init => WInv
  <2> SUFFICES ASSUME Waiting!Init PROVE WInv
    OBVIOUS
  <2>1. /\ waiters = <<>> /\ messages = <<>> /\ missed = {} /\ free \in BOOLEAN
        /\ signal = [permit |-> FALSE, queue |-> <<>>]
        /\ wait_pc = [t \in Tasks |-> "new"]
    BY DEF Waiting!Init
  <2>2. Present = {} /\ Asleep = {}
    BY <2>1 DEF Present, Asleep
  <2>3. Queued
    BY <2>1, <2>2, RangeOfEmpty, EmptyDistinct DEF Queued
  <2>4. Counted
    BY <2>1, <2>2, FS_EmptySet DEF Counted
  <2>5. WaitTypes /\ Heard
    BY <2>1 DEF WaitTypes, Heard
  <2> QED
    BY <2>3, <2>4, <2>5 DEF WInv
<1>2. WInv /\ [Waiting!Next]_Waiting!vars => WInv'
  <2> SUFFICES ASSUME WInv, [Waiting!Next]_Waiting!vars PROVE WInv'
    OBVIOUS
  <2>1. CASE UNCHANGED Waiting!vars
    BY <2>1 DEF Waiting!vars, WInv, WaitTypes, Queued, Counted, Heard, Present, Asleep
  <2> QED
    BY <2>1, RegisterStep, LockStep, MessageStep, WaitStep, EndStep DEF Waiting!Next
<1> QED
  BY <1>1, <1>2, PTL DEF Waiting!Spec

\* add_waiter, remove_waiter and wait: the count of the waiters is right, and the
\* Notify queues exactly the tasks that sleep.
THEOREM WaitersAreCounted == Waiting!Spec => []Waiting!TypeOK
<1>1. WInv => Waiting!TypeOK
  <2> SUFFICES ASSUME WInv PROVE Waiting!TypeOK
    OBVIOUS
  <2>1. /\ wait_pc \in [Tasks -> {"new", "trying", "failed", "asleep", "woken", "called",
                               "holding", "released", "left"}]
        /\ missed \subseteq Tasks
    BY DEF WInv, WaitTypes
  <2>2. Waiting!waiters_count
          = Waiting!Cardinality({t \in Tasks : wait_pc[t] \notin {"new", "left"}})
    <3>1. \A S : Waiting!Cardinality(S) = Cardinality(S)
      BY DEF Waiting!Cardinality, Cardinality
    <3> QED
      BY <3>1 DEF WInv, Counted, Present, Waiting!waiters_count
  <2>3. Waiting!is_empty <=> \A t \in Tasks : wait_pc[t] \in {"new", "left"}
    <3>1. waiters = <<>> <=> Present = {}
      BY FS_EmptySet DEF WInv, Counted
    <3> QED
      BY <3>1 DEF Present, Waiting!is_empty
  <2>4. Waiting!Range(signal.queue) = {t \in Tasks : wait_pc[t] = "asleep"}
    BY DEF WInv, Queued, Asleep, Waiting!Range, Range
  <2>5. Waiting!IsInjective(signal.queue)
    BY DEF WInv, Queued, Distinct, Waiting!IsInjective
  <2>6. Waiting!Range(messages) \subseteq Waiting!UnlockMessages
    BY DEF WInv, WaitTypes, Waiting!Range, Waiting!UnlockMessages
  <2> QED
    BY <2>1, <2>2, <2>3, <2>4, <2>5, <2>6 DEF Waiting!TypeOK
<1> QED
  BY <1>1, WInvHolds, PTL

\* try_run_listener and wait: nobody sleeps beside a free lock without another task
\* awake that will try it, unless try_run_all_listeners came too early for it;
\* for every number of tasks, messages and timeouts.
THEOREM NoWakeUpIsLost == Waiting!Spec => []Waiting!UnlockIsHeard
<1>1. WInv => Waiting!UnlockIsHeard
  BY DEF WInv, Heard, Waiting!UnlockIsHeard
<1> QED
  BY <1>1, WInvHolds, PTL
-----------------------------------------------------------------------------
(* The glob                                                                  *)

\* The n-th character of the pattern is for the text from after i up to j.
Piece(p, t, n, i, j) ==
  IF p[n] = "*" THEN i \leq j ELSE j = i + 1 /\ p[n] \in {"?", t[j]}

\* The text after j can be cut into pieces for the pattern after q.
Cut(p, t, q, j) ==
  \E cut \in [q .. Len(p) -> 0 .. Len(t)] :
    /\ cut[q] = j /\ cut[Len(p)] = Len(t)
    /\ \A n \in q + 1 .. Len(p) : Piece(p, t, n, cut[n - 1], cut[n])

\* The end of the pattern is for the end of the text only.
LEMMA LastCut ==
  ASSUME NEW S, NEW p \in Seq(S), NEW t \in Seq(S), NEW j \in 0 .. Len(t)
  PROVE  Cut(p, t, Len(p), j) <=> j = Len(t)
<1>1. ASSUME j = Len(t) PROVE Cut(p, t, Len(p), j)
  <2> DEFINE cut == [n \in Len(p) .. Len(p) |-> j]
  <2>1. cut \in [Len(p) .. Len(p) -> 0 .. Len(t)] /\ cut[Len(p)] = j
    OBVIOUS
  <2>2. Len(p) + 1 .. Len(p) = {}
    OBVIOUS
  <2> HIDE DEF cut
  <2> QED
    BY <1>1, <2>1, <2>2 DEF Cut
<1> QED
  BY <1>1 DEF Cut

\* A cut is a first piece and a cut of the rest.
LEMMA NextCut ==
  ASSUME NEW S, NEW p \in Seq(S), NEW t \in Seq(S), NEW q \in 0 .. Len(p) - 1,
         NEW j \in 0 .. Len(t)
  PROVE  Cut(p, t, q, j) <=>
           \E i \in 0 .. Len(t) : Piece(p, t, q + 1, j, i) /\ Cut(p, t, q + 1, i)
<1>1. ASSUME Cut(p, t, q, j)
      PROVE  \E i \in 0 .. Len(t) : Piece(p, t, q + 1, j, i) /\ Cut(p, t, q + 1, i)
  <2>1. PICK cut \in [q .. Len(p) -> 0 .. Len(t)] :
          /\ cut[q] = j /\ cut[Len(p)] = Len(t)
          /\ \A n \in q + 1 .. Len(p) : Piece(p, t, n, cut[n - 1], cut[n])
    BY <1>1 DEF Cut
  <2> DEFINE rest == [n \in q + 1 .. Len(p) |-> cut[n]]
  <2>2. rest \in [q + 1 .. Len(p) -> 0 .. Len(t)]
    OBVIOUS
  <2>3. /\ rest[q + 1] = cut[q + 1] /\ rest[Len(p)] = Len(t)
        /\ cut[q + 1] \in 0 .. Len(t)
    BY <2>1
  <2>4. ASSUME NEW n \in (q + 1) + 1 .. Len(p)
        PROVE  Piece(p, t, n, rest[n - 1], rest[n])
    <3>1. rest[n - 1] = cut[n - 1] /\ rest[n] = cut[n] /\ n \in q + 1 .. Len(p)
      OBVIOUS
    <3> QED
      BY <2>1, <3>1
  <2> HIDE DEF rest
  <2>5. Cut(p, t, q + 1, cut[q + 1])
    BY <2>2, <2>3, <2>4 DEF Cut
  <2>6. Piece(p, t, q + 1, j, cut[q + 1])
    BY <2>1
  <2> QED
    BY <2>3, <2>5, <2>6
<1>2. ASSUME NEW i \in 0 .. Len(t), Piece(p, t, q + 1, j, i), Cut(p, t, q + 1, i)
      PROVE  Cut(p, t, q, j)
  <2>1. PICK rest \in [q + 1 .. Len(p) -> 0 .. Len(t)] :
          /\ rest[q + 1] = i /\ rest[Len(p)] = Len(t)
          /\ \A n \in (q + 1) + 1 .. Len(p) : Piece(p, t, n, rest[n - 1], rest[n])
    BY <1>2 DEF Cut
  <2> DEFINE cut == [n \in q .. Len(p) |-> IF n = q THEN j ELSE rest[n]]
  <2>2. cut \in [q .. Len(p) -> 0 .. Len(t)]
    OBVIOUS
  <2>3. cut[q] = j /\ cut[Len(p)] = Len(t)
    BY <2>1
  <2>4. ASSUME NEW n \in q + 1 .. Len(p)
        PROVE  Piece(p, t, n, cut[n - 1], cut[n])
    <3>1. CASE n = q + 1
      <4>1. cut[n - 1] = j /\ cut[n] = i
        BY <2>1, <3>1
      <4> QED
        BY <1>2, <3>1, <4>1
    <3>2. CASE n # q + 1
      <4>1. cut[n - 1] = rest[n - 1] /\ cut[n] = rest[n] /\ n \in (q + 1) + 1 .. Len(p)
        BY <3>2
      <4> QED
        BY <2>1, <4>1
    <3> QED
      BY <3>1, <3>2
  <2> HIDE DEF cut
  <2> QED
    BY <2>2, <2>3, <2>4 DEF Cut
<1> QED
  BY <1>1, <1>2


\* What glob_inner says of match[pi], by match[pi + 1].
Step(p, t, pi, next) ==
  {ti \in 1 .. Len(t) + 1 :
     IF pi > Len(p) THEN ti > Len(t)
     ELSE IF p[pi] = "*" THEN \E i \in ti .. Len(t) + 1 : i \in next
     ELSE ti \leq Len(t) /\ p[pi] \in {"?", t[ti]} /\ ti + 1 \in next}

\* What match ought to be.
Cuts(p, t) ==
  [pi \in 1 .. Len(p) + 1 |-> {ti \in 1 .. Len(t) + 1 : Cut(p, t, pi - 1, ti - 1)}]

\* It is as glob_inner says.
LEMMA CutsMatch ==
  ASSUME NEW S, NEW p \in Seq(S), NEW t \in Seq(S)
  PROVE  \A pi \in 1 .. Len(p) + 1 : Cuts(p, t)[pi] = Step(p, t, pi, Cuts(p, t)[pi + 1])
<1> DEFINE match == Cuts(p, t)
<1>0. \A pi \in 1 .. Len(p) + 1, ti \in 1 .. Len(t) + 1 :
        ti \in match[pi] <=> Cut(p, t, pi - 1, ti - 1)
  BY DEF Cuts
<1> HIDE DEF match
<1>1. ASSUME NEW pi \in 1 .. Len(p) + 1, NEW ti \in 1 .. Len(t) + 1
      PROVE  Cut(p, t, pi - 1, ti - 1) <=>
        IF pi > Len(p) THEN ti > Len(t)
        ELSE IF p[pi] = "*" THEN \E i \in ti .. Len(t) + 1 : i \in match[pi + 1]
        ELSE ti \leq Len(t) /\ p[pi] \in {"?", t[ti]} /\ ti + 1 \in match[pi + 1]
  <2>0. ti - 1 \in 0 .. Len(t) /\ Len(p) \in Nat /\ Len(t) \in Nat
    OBVIOUS
  <2>1. CASE pi > Len(p)
    <3>1. pi - 1 = Len(p)
      BY <2>1
    <3>2. Cut(p, t, pi - 1, ti - 1) <=> ti > Len(t)
      BY <2>0, <3>1, LastCut
    <3> QED
      BY <2>1, <3>2
  <2>2. CASE ~(pi > Len(p))
    <3>0. pi - 1 \in 0 .. Len(p) - 1 /\ pi \leq Len(p) /\ pi + 1 \in 1 .. Len(p) + 1
      BY <2>2
    <3>1. Cut(p, t, pi - 1, ti - 1) <=>
            \E i \in 0 .. Len(t) : Piece(p, t, pi, ti - 1, i) /\ Cut(p, t, pi, i)
      <4>1. (pi - 1) + 1 = pi
        OBVIOUS
      <4> QED
        BY <2>0, <3>0, <4>1, NextCut
    <3>2. \A i \in 1 .. Len(t) + 1 : i \in match[pi + 1] <=> Cut(p, t, pi, i - 1)
      <4>1. (pi + 1) - 1 = pi
        OBVIOUS
      <4> QED
        BY <1>0, <3>0, <4>1
    <3>3. CASE p[pi] = "*"
      <4>1. ASSUME NEW i \in 0 .. Len(t), Piece(p, t, pi, ti - 1, i), Cut(p, t, pi, i)
            PROVE  \E n \in ti .. Len(t) + 1 : n \in match[pi + 1]
        <5>1. i + 1 \in ti .. Len(t) + 1 /\ i + 1 \in 1 .. Len(t) + 1 /\ (i + 1) - 1 = i
          BY <3>3, <4>1 DEF Piece
        <5> QED
          BY <3>2, <4>1, <5>1
      <4>2. ASSUME NEW n \in ti .. Len(t) + 1, n \in match[pi + 1]
            PROVE  \E i \in 0 .. Len(t) : Piece(p, t, pi, ti - 1, i) /\ Cut(p, t, pi, i)
        <5>1. n - 1 \in 0 .. Len(t) /\ ti - 1 \leq n - 1 /\ n \in 1 .. Len(t) + 1
          OBVIOUS
        <5> QED
          BY <3>2, <3>3, <4>2, <5>1 DEF Piece
      <4> QED
        BY <2>2, <3>1, <3>3, <4>1, <4>2
    <3>4. CASE p[pi] # "*"
      <4>1. ASSUME NEW i \in 0 .. Len(t), Piece(p, t, pi, ti - 1, i), Cut(p, t, pi, i)
            PROVE  ti \leq Len(t) /\ p[pi] \in {"?", t[ti]} /\ ti + 1 \in match[pi + 1]
        <5>1. i = ti /\ p[pi] \in {"?", t[i]}
          BY <3>4, <4>1 DEF Piece
        <5>2. ti + 1 \in 1 .. Len(t) + 1 /\ (ti + 1) - 1 = i
          BY <5>1
        <5> QED
          BY <3>2, <4>1, <5>1, <5>2
      <4>2. ASSUME ti \leq Len(t), p[pi] \in {"?", t[ti]}, ti + 1 \in match[pi + 1]
            PROVE  Piece(p, t, pi, ti - 1, ti) /\ Cut(p, t, pi, ti)
        <5>1. ti + 1 \in 1 .. Len(t) + 1 /\ (ti + 1) - 1 = ti /\ ti = (ti - 1) + 1
          BY <4>2
        <5> QED
          BY <3>2, <3>4, <4>2, <5>1 DEF Piece
      <4>3. ti \leq Len(t) => ti \in 0 .. Len(t)
        OBVIOUS
      <4> QED
        BY <2>2, <3>1, <3>4, <4>1, <4>2, <4>3
    <3> QED
      BY <3>3, <3>4
  <2> QED
    BY <2>1, <2>2
<1> QED
  BY <1>1 DEF Step, Cuts, match

\* Nothing else is: the last place where two such functions differ has a next.
LEMMA MatchIsOne ==
  ASSUME NEW S, NEW p \in Seq(S), NEW t \in Seq(S), NEW f, NEW g,
         \A pi \in 1 .. Len(p) + 1 :
           f[pi] = Step(p, t, pi, f[pi + 1]) /\ g[pi] = Step(p, t, pi, g[pi + 1])
  PROVE  f[1] = g[1]
<1> DEFINE Differ == {n \in 0 .. Len(p) : f[Len(p) + 1 - n] # g[Len(p) + 1 - n]}
<1>1. CASE Differ = {}
  <2>1. Len(p) \in 0 .. Len(p) /\ Len(p) + 1 - Len(p) = 1
    OBVIOUS
  <2> QED
    BY <1>1, <2>1
<1>2. CASE Differ # {}
  <2>1. Differ \subseteq Nat
    OBVIOUS
  <2>2. PICK n \in Differ : \A m \in Differ : n \leq m
    <3> HIDE DEF Differ
    <3> QED
      BY <1>2, <2>1, LeastNatural
  <2> DEFINE pi == Len(p) + 1 - n
  <2>3. n \in 0 .. Len(p) /\ pi \in 1 .. Len(p) + 1 /\ f[pi] # g[pi]
    OBVIOUS
  <2>4. ASSUME pi \leq Len(p) PROVE f[pi + 1] = g[pi + 1]
    <3>1. n - 1 \in 0 .. Len(p) /\ Len(p) + 1 - (n - 1) = pi + 1 /\ ~(n \leq n - 1)
      BY <2>3, <2>4
    <3> QED
      BY <2>2, <3>1
  <2> HIDE DEF pi, Differ
  <2>5. f[pi] = Step(p, t, pi, f[pi + 1]) /\ g[pi] = Step(p, t, pi, g[pi + 1])
    BY <2>3
  <2>6. pi > Len(p) => Step(p, t, pi, f[pi + 1]) = Step(p, t, pi, g[pi + 1])
    BY DEF Step
  <2>7. pi > Len(p) \/ pi \leq Len(p)
    BY <2>3
  <2> QED
    BY <2>3, <2>4, <2>5, <2>6, <2>7
<1> QED
  BY <1>1, <1>2

\* redis_glob_matches: a text matches exactly if it can be cut into pieces for the
\* characters of the pattern, whatever the pattern and the text.
THEOREM GlobIsCut ==
  ASSUME NEW S, NEW p \in Seq(S), NEW t \in Seq(S)
  PROVE  redis_glob_matches(p, t) <=> Matches(p, t)
<1> DEFINE match == CHOOSE f : f = [pi \in 1 .. Len(p) + 1 |-> Step(p, t, pi, f[pi + 1])]
<1>1. redis_glob_matches(p, t) <=> 1 \in match[1]
  BY DEF redis_glob_matches, glob_inner, Step
<1>2. Cuts(p, t) = [pi \in 1 .. Len(p) + 1 |-> Step(p, t, pi, Cuts(p, t)[pi + 1])]
  <2> DEFINE cuts == Cuts(p, t)
  <2>1. cuts = [pi \in 1 .. Len(p) + 1 |-> cuts[pi]]
    BY DEF Cuts
  <2>2. \A pi \in 1 .. Len(p) + 1 : cuts[pi] = Step(p, t, pi, cuts[pi + 1])
    BY CutsMatch
  <2> HIDE DEF cuts
  <2>3. cuts = [pi \in 1 .. Len(p) + 1 |-> Step(p, t, pi, cuts[pi + 1])]
    BY <2>1, <2>2
  <2> QED
    BY <2>3 DEF cuts
<1>3. match = [pi \in 1 .. Len(p) + 1 |-> Step(p, t, pi, match[pi + 1])]
  BY <1>2
<1>4. match[1] = Cuts(p, t)[1]
  <2> HIDE DEF match
  <2>1. \A pi \in 1 .. Len(p) + 1 : match[pi] = Step(p, t, pi, match[pi + 1])
    BY <1>3
  <2> QED
    BY <2>1, CutsMatch, MatchIsOne
<1>5. 1 \in Cuts(p, t)[1] <=> Cut(p, t, 0, 0)
  <2>1. 1 \in 1 .. Len(p) + 1 /\ 1 \in 1 .. Len(t) + 1 /\ 1 - 1 = 0
    OBVIOUS
  <2> QED
    BY <2>1 DEF Cuts
<1>6. Cut(p, t, 0, 0) <=> Matches(p, t)
  BY DEF Cut, Matches, Piece
<1> QED
  BY <1>1, <1>4, <1>5, <1>6

-----------------------------------------------------------------------------
(* Which listener hears what                                                 *)

\* The map holds a listener only under its own pattern, and only while its
\* add_listener is under way or returned Ok; and it does hold it, unless its
\* pattern was disturbed or its address was removed for another.
Placed ==
  /\ \A p \in DOMAIN listeners : \A l \in listeners[p] :
       l \in Hearers /\ TopicOf[l] = p /\ reg_pc[l] \in {"subscribing", "added"}
  /\ \A l \in Hearers :
       /\ reg_pc[l] \in {"subscribing", "added"}
       /\ TopicOf[l] \notin disturbed /\ l \notin astray
       => TopicOf[l] \in DOMAIN listeners /\ l \in listeners[TopicOf[l]]

\* No two listeners in memory are at the same address.
OwnIds ==
  \A l, k \in Hearers :
    l \in Registry!InMemory /\ k \in Registry!InMemory /\ id[l] = id[k] => l = k

MapTypes ==
  /\ reg_pc \in [Hearers -> {"new", "known", "unknown", "subscribing", "added", "failed",
                             "removed"}]
  /\ leaving \in [Hearers -> {"no", "emptied", "leaving"}]
  /\ id \in [Hearers -> Addresses \cup {Unallocated}]
  /\ DOMAIN listeners \subseteq Registry!UsedPatterns
  /\ reg_subscribed \subseteq Registry!UsedPatterns
  /\ disturbed \subseteq Registry!UsedPatterns /\ astray \subseteq Hearers
  /\ reg_failures \in 0 .. RegistryFailures

RInv == MapTypes /\ Placed /\ OwnIds

\* The patterns there are.
LEMMA TopicIsUsed ==
  ASSUME Registry!RegistryAssumption, NEW l \in Hearers
  PROVE  TopicOf[l] \in Registry!UsedPatterns
BY DEF Registry!UsedPatterns, Registry!Range, Registry!RegistryAssumption

\* Who is present is in the map under its own pattern.
LEMMA WhoIsPresent ==
  ASSUME Placed, NEW l \in Registry!Present
  PROVE  l \in Hearers /\ TopicOf[l] \in DOMAIN listeners /\ l \in listeners[TopicOf[l]]
BY DEF Registry!Present, Placed

\* If nobody comes into memory, and addresses stay, they stay different.
LEMMA IdsStayOwn ==
  ASSUME OwnIds, id' = id, Registry!InMemory' \subseteq Registry!InMemory
  PROVE  OwnIds'
BY DEF OwnIds

\* A listener gets an address nobody in memory has.
LEMMA ContainsKeepsMap ==
  ASSUME RInv, NEW l \in Hearers, Registry!Contains(l)
  PROVE  RInv'
<1>1. PICK a \in Addresses \ {id[k] : k \in Registry!InMemory} : id' = [id EXCEPT ![l] = a]
  BY DEF Registry!Contains
<1>2. /\ reg_pc[l] = "new"
      /\ reg_pc' \in {[reg_pc EXCEPT ![l] = "known"], [reg_pc EXCEPT ![l] = "unknown"]}
      /\ UNCHANGED <<leaving, disturbed, astray, listeners, reg_subscribed, reg_failures>>
  BY DEF Registry!Contains, Registry!Goto
<1>3. MapTypes'
  BY <1>1, <1>2 DEF RInv, MapTypes
<1>4. Placed'
  BY <1>2 DEF RInv, MapTypes, Placed
<1>5. Registry!InMemory' \subseteq Registry!InMemory \cup {l} /\ l \notin Registry!InMemory
  BY <1>2 DEF RInv, MapTypes, Placed, Registry!InMemory, Registry!Present
<1>6. \A k \in Hearers : k \in Registry!InMemory => id'[k] = id[k] /\ id[k] # a
  BY <1>1, <1>5 DEF RInv, MapTypes
<1>7. id'[l] = a
  BY <1>1 DEF RInv, MapTypes
<1>8. OwnIds'
  BY <1>5, <1>6, <1>7 DEF RInv, OwnIds
<1> QED
  BY <1>3, <1>4, <1>8 DEF RInv

\* What extend() makes of the map.
LEMMA ExtendsEntry ==
  ASSUME NEW l \in Hearers, Registry!Extend(l)
  PROVE  /\ DOMAIN listeners' = DOMAIN listeners \cup {TopicOf[l]}
         /\ \A q \in DOMAIN listeners' :
              listeners'[q] = IF q = TopicOf[l]
                THEN {l} \cup IF q \in DOMAIN listeners THEN listeners[q] ELSE {}
                ELSE listeners[q]
         /\ reg_pc[l] \in {"known", "unknown"}
         /\ reg_pc' \in {[reg_pc EXCEPT ![l] = "added"], [reg_pc EXCEPT ![l] = "subscribing"]}
<1>1. listeners' = Registry!Insert(listeners, TopicOf[l],
        {l} \cup IF TopicOf[l] \notin DOMAIN listeners THEN {} ELSE listeners[TopicOf[l]])
  BY DEF Registry!Extend
<1> QED
  BY <1>1 DEF Registry!Extend, Registry!Goto, Registry!Insert

\* A listener goes from its call to the map.
LEMMA ExtendKeepsMap ==
  ASSUME Registry!RegistryAssumption, RInv, NEW l \in Hearers, Registry!Extend(l)
  PROVE  RInv'
<1>1. /\ DOMAIN listeners' = DOMAIN listeners \cup {TopicOf[l]}
      /\ \A q \in DOMAIN listeners' :
           listeners'[q] = IF q = TopicOf[l]
             THEN {l} \cup IF q \in DOMAIN listeners THEN listeners[q] ELSE {}
             ELSE listeners[q]
      /\ reg_pc[l] \in {"known", "unknown"}
      /\ reg_pc' \in {[reg_pc EXCEPT ![l] = "added"], [reg_pc EXCEPT ![l] = "subscribing"]}
  BY ExtendsEntry
<1>2. UNCHANGED <<leaving, id, disturbed, astray, reg_subscribed, reg_failures>>
  BY DEF Registry!Extend
<1>3. MapTypes'
  BY <1>1, <1>2, TopicIsUsed DEF RInv, MapTypes
<1>4. /\ reg_pc'[l] \in {"subscribing", "added"}
      /\ \A k \in Hearers \ {l} : reg_pc'[k] = reg_pc[k]
  BY <1>1 DEF RInv, MapTypes
<1>5. Placed'
  <2>1. \A q \in DOMAIN listeners' : \A k \in listeners'[q] :
          k \in Hearers /\ TopicOf[k] = q /\ reg_pc'[k] \in {"subscribing", "added"}
    <3> SUFFICES ASSUME NEW q \in DOMAIN listeners', NEW k \in listeners'[q]
                 PROVE  k \in Hearers /\ TopicOf[k] = q /\ reg_pc'[k] \in {"subscribing", "added"}
      OBVIOUS
    <3>1. (k = l /\ q = TopicOf[l]) \/ (q \in DOMAIN listeners /\ k \in listeners[q])
      BY <1>1
    <3>2. CASE k = l
      BY <1>1, <1>4, <3>1, <3>2 DEF RInv, Placed
    <3>3. CASE k # l
      BY <1>4, <3>1, <3>3 DEF RInv, Placed
    <3> QED
      BY <3>2, <3>3
  <2>2. TopicOf[l] \in DOMAIN listeners' /\ l \in listeners'[TopicOf[l]]
    BY <1>1
  <2>3. \A k \in Hearers \ {l} :
          TopicOf[k] \in DOMAIN listeners /\ k \in listeners[TopicOf[k]] =>
            TopicOf[k] \in DOMAIN listeners' /\ k \in listeners'[TopicOf[k]]
    BY <1>1
  <2> QED
    BY <1>2, <1>4, <2>1, <2>2, <2>3 DEF RInv, Placed
<1>6. Registry!InMemory' \subseteq Registry!InMemory
  <2>1. l \in Registry!InMemory
    BY <1>1 DEF Registry!InMemory
  <2>2. ASSUME NEW k \in Registry!Present' PROVE k \in Registry!Present \/ k = l
    <3>1. PICK q \in DOMAIN listeners' : k \in listeners'[q]
      BY DEF Registry!Present
    <3>2. k = l \/ (q \in DOMAIN listeners /\ k \in listeners[q])
      BY <1>1, <3>1
    <3> QED
      BY <3>2 DEF Registry!Present
  <2>3. \A k \in Hearers : reg_pc'[k] \in {"known", "unknown"} => k \in Registry!InMemory
    BY <1>4, <2>1 DEF Registry!InMemory
  <2> QED
    BY <2>1, <2>2, <2>3 DEF Registry!InMemory
<1> QED
  BY <1>2, <1>3, <1>5, <1>6, IdsStayOwn DEF RInv

\* PSUBSCRIBE succeeds.
LEMMA SubscribeKeepsMap ==
  ASSUME Registry!RegistryAssumption, RInv, NEW l \in Hearers, Registry!Subscribe(l)
  PROVE  RInv'
<1>1. /\ reg_pc[l] = "subscribing" /\ reg_pc' = [reg_pc EXCEPT ![l] = "added"]
      /\ reg_subscribed' = reg_subscribed \cup {TopicOf[l]}
      /\ UNCHANGED <<leaving, id, disturbed, astray, listeners, reg_failures>>
  BY DEF Registry!Subscribe, Registry!Goto
<1>2. MapTypes' /\ Placed'
  BY <1>1, TopicIsUsed DEF RInv, MapTypes, Placed
<1>3. Registry!InMemory' \subseteq Registry!InMemory
  BY <1>1 DEF RInv, MapTypes, Registry!InMemory, Registry!Present
<1> QED
  BY <1>1, <1>2, <1>3, IdsStayOwn DEF RInv

\* A PSUBSCRIBE that fails clears its pattern, which is disturbed from then on.
LEMMA RefuseKeepsMap ==
  ASSUME Registry!RegistryAssumption, RInv, NEW l \in Hearers, Registry!Refuse(l)
  PROVE  RInv'
<1>1. /\ reg_pc[l] = "subscribing" /\ reg_pc' = [reg_pc EXCEPT ![l] = "failed"]
      /\ listeners' = [q \in DOMAIN listeners |-> IF q = TopicOf[l] THEN {} ELSE listeners[q]]
      /\ disturbed' = disturbed \cup {TopicOf[l]}
      /\ reg_subscribed' \in {reg_subscribed, reg_subscribed \cup {TopicOf[l]}}
      /\ reg_failures < RegistryFailures /\ reg_failures' = reg_failures + 1
      /\ UNCHANGED <<leaving, id, astray>>
  BY DEF Registry!Refuse, Registry!Goto, Registry!MayFail
<1>2. reg_failures' \in 0 .. RegistryFailures
  BY <1>1 DEF RInv, MapTypes, Registry!RegistryAssumption
<1>3. MapTypes'
  BY <1>1, <1>2, TopicIsUsed DEF RInv, MapTypes
<1>4. Placed'
  BY <1>1 DEF RInv, MapTypes, Placed
<1>5. Registry!InMemory' \subseteq Registry!InMemory
  BY <1>1 DEF RInv, MapTypes, Registry!InMemory, Registry!Present
<1> QED
  BY <1>1, <1>3, <1>4, <1>5, IdsStayOwn DEF RInv

\* What a removal takes from the map: whom it was asked for, and who has the
\* address of one that had gone before.
LEMMA RemoveTakes ==
  ASSUME RInv, NEW l \in Hearers, NEW who \in SUBSET Hearers, Registry!Remove(l, who)
  PROVE  /\ DOMAIN listeners' = DOMAIN listeners
         /\ \A q \in DOMAIN listeners : listeners'[q] \subseteq listeners[q]
         /\ \A q \in DOMAIN listeners : \A k \in listeners[q] \ listeners'[q] :
              k \in who \/ k \in astray'
         /\ \A q \in DOMAIN listeners : who \cap listeners'[q] = {}
<1> DEFINE p == TopicOf[l]
           kept == Registry!Retain(listeners[p], {id[k] : k \in who})
<1>1. \A k \in who : TopicOf[k] = p
  BY DEF Registry!Remove
<1>2. astray' = astray \cup {k \in Hearers :
        TopicOf[k] = p /\ id[k] \in {id[j] : j \in who \ Registry!Present}}
  BY DEF Registry!Remove
<1>3. IF p \in DOMAIN listeners THEN listeners' = [listeners EXCEPT ![p] = kept]
                                ELSE listeners' = listeners
  BY DEF Registry!Remove
<1>4. \A q \in DOMAIN listeners : \A k \in listeners[q] : k \in Hearers /\ TopicOf[k] = q
  BY DEF RInv, Placed
<1>5. CASE p \notin DOMAIN listeners
  BY <1>1, <1>3, <1>4, <1>5
<1>6. CASE p \in DOMAIN listeners
  <2>1. /\ DOMAIN listeners' = DOMAIN listeners
        /\ \A q \in DOMAIN listeners :
             listeners'[q] = IF q = p THEN kept ELSE listeners[q]
    BY <1>3, <1>6
  <2>2. kept = {k \in listeners[p] : id[k] \notin {id[j] : j \in who}}
    BY DEF Registry!Retain
  <2>3. ASSUME NEW k \in listeners[p], k \notin kept, k \notin who PROVE k \in astray'
    <3>1. PICK j \in who : id[k] = id[j]
      BY <2>2, <2>3
    <3>2. k \in Hearers /\ TopicOf[k] = p /\ k \in Registry!InMemory
      BY <1>4, <1>6 DEF Registry!InMemory, Registry!Present
    <3>3. j \notin Registry!Present
      BY <2>3, <3>1, <3>2 DEF RInv, OwnIds, Registry!InMemory
    <3> QED
      BY <1>2, <3>1, <3>2, <3>3
  <2>4. who \cap kept = {}
    BY <2>2
  <2> HIDE DEF kept, p
  <2>5. \A q \in DOMAIN listeners : listeners'[q] \subseteq listeners[q]
    BY <2>1, <2>2
  <2>6. \A q \in DOMAIN listeners : who \cap listeners'[q] = {}
    BY <1>1, <1>4, <2>1, <2>4
  <2> QED
    BY <2>1, <2>3, <2>5, <2>6
<1> QED
  BY <1>5, <1>6

\* A removal leaves the others where they were.
LEMMA RemoveKeepsMap ==
  ASSUME RInv, NEW l \in Hearers, NEW who \in SUBSET Hearers, Registry!Remove(l, who)
  PROVE  RInv'
<1>1. /\ reg_pc' = [k \in Hearers |-> IF k \in who THEN "removed" ELSE reg_pc[k]]
      /\ UNCHANGED <<id, disturbed, reg_subscribed, reg_failures>>
  BY DEF Registry!Remove
<1>2. /\ DOMAIN listeners' = DOMAIN listeners
      /\ \A q \in DOMAIN listeners : listeners'[q] \subseteq listeners[q]
      /\ \A q \in DOMAIN listeners : \A k \in listeners[q] \ listeners'[q] :
           k \in who \/ k \in astray'
      /\ \A q \in DOMAIN listeners : who \cap listeners'[q] = {}
  BY RemoveTakes
<1>3. astray \subseteq astray' /\ astray' \subseteq astray \cup Hearers
  BY DEF Registry!Remove
<1>4. leaving' \in [Hearers -> {"no", "emptied", "leaving"}]
  BY DEF Registry!Remove, RInv, MapTypes
<1>5. MapTypes'
  BY <1>1, <1>2, <1>3, <1>4 DEF RInv, MapTypes
<1>6. Placed'
  BY <1>1, <1>2, <1>3 DEF RInv, MapTypes, Placed
<1>7. Registry!InMemory' \subseteq Registry!InMemory
  <2>1. Registry!Present' \subseteq Registry!Present
    BY <1>2 DEF Registry!Present
  <2> QED
    BY <1>1, <2>1 DEF Registry!InMemory
<1> QED
  BY <1>1, <1>5, <1>6, <1>7, IdsStayOwn DEF RInv

\* The entry of a pattern goes: whoever was added to it since is disturbed.
LEMMA MapRemoveKeepsMap ==
  ASSUME Registry!RegistryAssumption, RInv, NEW l \in Hearers, Registry!MapRemove(l)
  PROVE  RInv'
<1>1. /\ leaving' = [leaving EXCEPT ![l] = "leaving"]
      /\ listeners' = [q \in DOMAIN listeners \cap (DOMAIN listeners \ {TopicOf[l]})
                         |-> listeners[q]]
      /\ disturbed' = disturbed \cup IF /\ TopicOf[l] \in DOMAIN listeners
                                        /\ listeners[TopicOf[l]] # {}
                                     THEN {TopicOf[l]} ELSE {}
      /\ UNCHANGED <<reg_pc, id, astray, reg_subscribed, reg_failures>>
  BY DEF Registry!MapRemove, Registry!Restrict
<1>2. MapTypes'
  BY <1>1, TopicIsUsed DEF RInv, MapTypes
<1>3. Placed'
  BY <1>1 DEF RInv, Placed
<1>4. Registry!InMemory' \subseteq Registry!InMemory
  BY <1>1 DEF Registry!InMemory, Registry!Present
<1> QED
  BY <1>1, <1>2, <1>3, <1>4, IdsStayOwn DEF RInv

\* PUNSUBSCRIBE, whatever it answers.
LEMMA PunsubscribeKeepsMap ==
  ASSUME Registry!RegistryAssumption, RInv, NEW l \in Hearers, Registry!Punsubscribe(l)
  PROVE  RInv'
<1>1. /\ leaving' = [leaving EXCEPT ![l] = "no"]
      /\ reg_subscribed' \subseteq reg_subscribed
      /\ UNCHANGED <<reg_pc, id, disturbed, astray, listeners>>
  BY DEF Registry!Punsubscribe
<1>2. reg_failures' \in 0 .. RegistryFailures
  BY DEF Registry!Punsubscribe, Registry!MayFail, RInv, MapTypes, Registry!RegistryAssumption
<1>3. MapTypes' /\ Placed'
  BY <1>1, <1>2 DEF RInv, MapTypes, Placed
<1>4. Registry!InMemory' \subseteq Registry!InMemory
  BY <1>1 DEF Registry!InMemory, Registry!Present
<1> QED
  BY <1>1, <1>3, <1>4, IdsStayOwn DEF RInv

\* Nothing happens to the maps in a step of Redis or of a loop.
LEMMA MapStutter ==
  ASSUME RInv,
         UNCHANGED <<reg_pc, leaving, id, disturbed, astray, listeners, reg_subscribed,
                     reg_failures>>
  PROVE  RInv'
BY DEF RInv, MapTypes, Placed, OwnIds, Registry!InMemory, Registry!Present

\* The steps of Redis and of the loops.
LEMMA LoopsKeepMap ==
  ASSUME RInv, NEW m, NEW k, NEW p,
         Registry!Publish(m) \/ Registry!Lag(k) \/ Registry!Receive(k) \/ Registry!Visit(k, p)
  PROVE  RInv'
BY MapStutter DEF Registry!Publish, Registry!Lag, Registry!Receive, Registry!Visit,
                  Registry!callVars

\* The invariant of the two maps.
LEMMA RInvHolds ==
  ASSUME Registry!RegistryAssumption
  PROVE  Registry!Spec => []RInv
<1>1. Registry!Init => RInv
  BY DEF Registry!Init, RInv, MapTypes, Placed, OwnIds, Registry!InMemory, Registry!Present,
         Registry!RegistryAssumption
<1>2. RInv /\ [Registry!Next]_(Registry!vars) => RInv'
  <2> SUFFICES ASSUME RInv, [Registry!Next]_(Registry!vars) PROVE RInv'
    OBVIOUS
  <2>1. CASE UNCHANGED Registry!vars
    BY <2>1, MapStutter DEF Registry!vars, Registry!callVars
  <2>2. Quitters \subseteq Hearers
    BY DEF Registry!RegistryAssumption
  <2> QED
    BY <2>1, <2>2, ContainsKeepsMap, ExtendKeepsMap, SubscribeKeepsMap, RefuseKeepsMap,
       RemoveKeepsMap, MapRemoveKeepsMap, PunsubscribeKeepsMap, LoopsKeepMap
       DEF Registry!Next
<1> QED
  BY <1>1, <1>2, PTL DEF Registry!Spec

\* add_listener and remove_listener: whatever addresses the allocator hands out
\* again, and whichever ids are removed when, the map holds a listener from the
\* moment its add_listener returned Ok until its own id is removed; but for a
\* PSUBSCRIBE of its pattern that failed, an addition between retain and remove, and
\* an id that was removed only after its listener had gone.
THEOREM RemovalTakesOwn ==
  ASSUME Registry!RegistryAssumption
  PROVE  Registry!Spec => []Registry!RemoveTakesOwn
<1>1. RInv => Registry!RemoveTakesOwn
  BY DEF RInv, Placed, Registry!Present, Registry!RemoveTakesOwn
<1> QED
  BY <1>1, RInvHolds, PTL

-----------------------------------------------------------------------------
(* What each copy of a message owes                                          *)

\* The glob of the code says what it ought to of the patterns and channels there
\* are.
GlobIsRight ==
  \A p \in Registry!UsedPatterns, m \in Copied : Registry!KindOf(p) = m.kind =>
    Registry!redis_glob_matches(p, Registry!ChannelFor(p, m))
      = Registry!Matches(p, Registry!ChannelFor(p, m))

\* Each pattern of the registry agrees with its meaning, as GlobIsRight asks.
LEMMA GlobHolds ==
  ASSUME Registry!RegistryAssumption
  PROVE  GlobIsRight
<1> SUFFICES ASSUME NEW p \in Registry!UsedPatterns, NEW m \in Copied
             PROVE  Registry!redis_glob_matches(p, Registry!ChannelFor(p, m))
                      = Registry!Matches(p, Registry!ChannelFor(p, m))
  BY DEF GlobIsRight
<1> DEFINE t == Registry!ChannelFor(p, m)
<1> DEFINE Characters == STRING \cup {"S", "E"}
<1>0. Seq(STRING) \subseteq Seq(Characters)
  OBVIOUS
<1>1. p \in Seq(Characters)
  BY <1>0 DEF Registry!UsedPatterns, Registry!Range, Registry!RegistryAssumption
<1>2. t \in Seq(Characters)
  <2>1. <<"S">> \in Seq(Characters) /\ <<"E">> \in Seq(Characters)
    OBVIOUS
  <2>2. CASE m.kind = "message"
    BY <1>0, <2>2 DEF Registry!RegistryAssumption, Registry!ChannelFor
  <2>3. CASE m.kind # "message"
    <3>1. m.key \in Seq(Characters) /\ m.op \in Seq(Characters)
      BY <1>0, <2>3 DEF Registry!RegistryAssumption
    <3> HIDE DEF Characters
    <3>2. <<"S">> \o m.key \in Seq(Characters) /\ <<"E">> \o m.op \in Seq(Characters)
      BY <2>1, <3>1
    <3> QED
      BY <2>3, <3>2 DEF Registry!ChannelFor
  <2> QED
    BY <2>2, <2>3
<1> HIDE DEF t
<1>3. redis_glob_matches(p, t) <=> Matches(p, t)
  BY <1>1, <1>2, GlobIsCut
<1>4. redis_glob_matches(p, t) = Registry!redis_glob_matches(p, t)
  BY DEF redis_glob_matches, glob_inner, Registry!redis_glob_matches, Registry!glob_inner
<1>5. Matches(p, t) = Registry!Matches(p, t)
  BY DEF Matches, Registry!Matches
<1>6. redis_glob_matches(p, t) \in BOOLEAN /\ Matches(p, t) \in BOOLEAN
  BY DEF redis_glob_matches, glob_inner, Matches
<1> QED
  BY <1>3, <1>4, <1>5, <1>6 DEF t

CopyTypes ==
  /\ DOMAIN reg_inbox = Registry!Kinds
  /\ \A k \in Registry!Kinds : /\ reg_inbox[k] \in Seq(Copied)
                               /\ \A m \in Range(reg_inbox[k]) : m.kind = k
  /\ todo \in [Registry!Kinds -> SUBSET Registry!UsedPatterns]
  /\ \A k \in Registry!Kinds : /\ todo[k] # {} => reg_inbox[k] # <<>>
                               /\ \A p \in todo[k] : Registry!KindOf(p) = k
  /\ copies \in [Copied -> Nat] /\ dropped \in [Copied -> Nat]
  /\ reg_owed \in [Copied -> SUBSET Hearers]
  /\ heard \in [Hearers -> [Copied -> Nat]]

\* A message that was not sent is nowhere.
Unsent ==
  \A m \in Copied : copies[m] = 0 =>
    /\ reg_owed[m] = {} /\ m \notin Range(reg_inbox[m.kind]) /\ dropped[m] = 0
    /\ \A l \in Hearers : heard[l][m] = 0

\* The loop has shown the listener's pattern the copy it works on.
Shown(l, m) ==
  /\ todo[m.kind] # {} /\ Head(reg_inbox[m.kind]) = m
  /\ TopicOf[l] \notin todo[m.kind]

\* Who is owed a message is in the map, and has heard all its copies but those in
\* the channel and those it overwrote; of the one the loop works on, it depends.
Due ==
  \A m \in Copied : \A l \in reg_owed[m] :
    /\ TopicOf[l] \in DOMAIN listeners /\ l \in listeners[TopicOf[l]]
    /\ Registry!KindOf(TopicOf[l]) = m.kind
    /\ IF Registry!Matches(TopicOf[l], Registry!ChannelFor(TopicOf[l], m))
       THEN heard[l][m] + dropped[m] + Count(reg_inbox[m.kind], m)
              = copies[m] + (IF Shown(l, m) THEN 1 ELSE 0)
       ELSE heard[l][m] = 0

HInv == RInv /\ CopyTypes /\ Unsent /\ Due

\* Calls that leave the map alone.
LEMMA OthersKeepCopies ==
  ASSUME Registry!RegistryAssumption, HInv, NEW l \in Hearers,
         Registry!Contains(l) \/ Registry!Subscribe(l) \/ Registry!Punsubscribe(l)
  PROVE  HInv'
<1>1. RInv'
  BY ContainsKeepsMap, SubscribeKeepsMap, PunsubscribeKeepsMap DEF HInv
<1>2. UNCHANGED <<listeners, reg_inbox, todo, copies, dropped, reg_owed, heard>>
  BY DEF Registry!Contains, Registry!Subscribe, Registry!Punsubscribe, Registry!copyVars
<1>3. CopyTypes' /\ Unsent' /\ Due'
  BY <1>2 DEF HInv, CopyTypes, Unsent, Due, Shown
<1> QED
  BY <1>1, <1>3 DEF HInv

\* An entry that a loop under way comes across is nobody's who is owed a copy.
LEMMA ExtendKeepsCopies ==
  ASSUME Registry!RegistryAssumption, HInv, NEW l \in Hearers, Registry!Extend(l)
  PROVE  HInv'
<1> DEFINE p == TopicOf[l]
<1>1. RInv'
  BY ExtendKeepsMap DEF HInv
<1>2. UNCHANGED <<reg_inbox, copies, dropped, reg_owed, heard>>
  BY DEF Registry!Extend, Registry!copyVars
<1>3. \/ UNCHANGED todo
      \/ /\ p \notin DOMAIN listeners
         /\ todo' = [todo EXCEPT ![Registry!KindOf(p)] = IF @ = {} THEN @ ELSE @ \cup {p}]
  BY DEF Registry!Extend
<1>4. p \in Registry!UsedPatterns
  BY TopicIsUsed
<1>5. \E kind \in Registry!Kinds :
        /\ kind = Registry!KindOf(p)
        /\ \/ todo' = todo
           \/ /\ p \notin DOMAIN listeners
              /\ todo' = [todo EXCEPT ![kind] = IF @ = {} THEN @ ELSE @ \cup {p}]
  BY <1>3 DEF Registry!KindOf, Registry!Kinds
<1>6. /\ todo' \in [Registry!Kinds -> SUBSET Registry!UsedPatterns]
      /\ \A k \in Registry!Kinds :
           /\ todo'[k] # {} <=> todo[k] # {}
           /\ \A q \in todo'[k] : q \in todo[k] \/ (q = p /\ Registry!KindOf(p) = k)
           /\ \A q \in todo[k] : q \in todo'[k]
           /\ p \in DOMAIN listeners => todo'[k] = todo[k]
  <2>1. todo \in [Registry!Kinds -> SUBSET Registry!UsedPatterns]
    BY DEF HInv, CopyTypes
  <2> HIDE DEF p
  <2> QED
    BY <1>4, <1>5, <2>1
<1>7. CopyTypes'
  BY <1>2, <1>6 DEF HInv, CopyTypes
<1>8. Unsent'
  BY <1>2 DEF HInv, Unsent
<1>9. \A q \in DOMAIN listeners :
        q \in DOMAIN listeners' /\ listeners[q] \subseteq listeners'[q]
  BY ExtendsEntry
<1>10. Due'
  <2> SUFFICES ASSUME NEW m \in Copied, NEW k \in reg_owed[m]
               PROVE  /\ TopicOf[k] \in DOMAIN listeners' /\ k \in listeners'[TopicOf[k]]
                      /\ Shown(k, m)' <=> Shown(k, m)
    BY <1>2 DEF HInv, Due
  <2>1. TopicOf[k] \in DOMAIN listeners /\ k \in listeners[TopicOf[k]]
    BY DEF HInv, Due
  <2>2. m.kind \in Registry!Kinds
    BY DEF Registry!RegistryAssumption, Registry!Kinds
  <2>3. TopicOf[k] \in todo'[m.kind] <=> TopicOf[k] \in todo[m.kind]
    BY <1>6, <2>1, <2>2
  <2> QED
    BY <1>2, <1>6, <1>9, <2>1, <2>2, <2>3 DEF Shown
<1> QED
  BY <1>1, <1>7, <1>8, <1>10 DEF HInv

\* Who is not in the map any more is owed nothing.
LEMMA DueStep ==
  ASSUME HInv, RInv', Registry!Owing,
         UNCHANGED <<reg_inbox, todo, copies, dropped, heard>>
  PROVE  HInv'
<1>1. \A m \in Copied : /\ reg_owed'[m] \subseteq reg_owed[m]
                        /\ reg_owed'[m] \subseteq Registry!Present'
  BY DEF Registry!Owing
<1>2. reg_owed' \in [Copied -> SUBSET Hearers]
  BY DEF Registry!Owing, HInv, CopyTypes
<1>3. CopyTypes'
  BY <1>2 DEF HInv, CopyTypes
<1>4. Unsent'
  BY <1>1 DEF HInv, Unsent
<1>5. \A l \in Registry!Present' :
        TopicOf[l] \in DOMAIN listeners' /\ l \in listeners'[TopicOf[l]]
  BY DEF RInv, Placed, Registry!Present
<1>6. \A m \in Copied : \A l \in reg_owed'[m] : Shown(l, m)' <=> Shown(l, m)
  BY DEF Shown
<1>7. Due'
  BY <1>1, <1>5, <1>6 DEF HInv, Due
<1> QED
  BY <1>3, <1>4, <1>7 DEF HInv

\* An error clears a pattern.
LEMMA RefuseKeepsCopies ==
  ASSUME Registry!RegistryAssumption, HInv, NEW l \in Hearers, Registry!Refuse(l)
  PROVE  HInv'
<1>1. RInv'
  BY RefuseKeepsMap DEF HInv
<1> QED
  BY <1>1, DueStep DEF Registry!Refuse, Registry!copyVars

\* Those that go are owed nothing any more.
LEMMA RemoveKeepsCopies ==
  ASSUME HInv, NEW l \in Hearers, NEW who \in SUBSET Hearers, Registry!Remove(l, who)
  PROVE  HInv'
<1>1. RInv'
  BY RemoveKeepsMap DEF HInv
<1> QED
  BY <1>1, DueStep DEF Registry!Remove, Registry!copyVars

\* Nor are those that go with the entry.
LEMMA MapRemoveKeepsCopies ==
  ASSUME Registry!RegistryAssumption, HInv, NEW l \in Hearers, Registry!MapRemove(l)
  PROVE  HInv'
<1>1. RInv'
  BY MapRemoveKeepsMap DEF HInv
<1> QED
  BY <1>1, DueStep DEF Registry!MapRemove, Registry!copyVars

\* A message is sent once, in as many copies as patterns are reached.
LEMMA PublishKeepsCopies ==
  ASSUME Registry!RegistryAssumption, HInv, NEW m \in Copied, Registry!Publish(m)
  PROVE  HInv'
<1> DEFINE reached == {p \in reg_subscribed :
                         \E c \in Registry!Channels(m) : Registry!Matches(p, c)}
           n == Registry!Cardinality(reached)
<1>1. RInv'
  BY LoopsKeepMap DEF HInv
<1>2. reached \in SUBSET Registry!UsedPatterns
  BY DEF HInv, RInv, MapTypes
<1>3. IsFiniteSet(Registry!UsedPatterns)
  <2> DEFINE f == [l \in Hearers |-> TopicOf[l]]
  <2>1. Registry!UsedPatterns = {TopicOf[l] : l \in Hearers}
    BY DEF Registry!UsedPatterns, Registry!Range, Registry!RegistryAssumption
  <2>2. f \in Surjection(Hearers, Registry!UsedPatterns)
    BY <2>1 DEF Surjection
  <2>3. IsFiniteSet(Hearers)
    BY DEF Registry!RegistryAssumption, Registry!IsFiniteSet, IsFiniteSet
  <2> QED
    BY <2>2, <2>3, FS_Surjection
<1>4. IsFiniteSet(reached)
  BY <1>2, <1>3, FS_Subset
<1>5. n = Cardinality(reached)
  BY DEF Registry!Cardinality, Cardinality
<1>6. /\ copies[m] = 0 /\ copies' = [copies EXCEPT ![m] = n]
      /\ reg_inbox' = [reg_inbox EXCEPT ![m.kind] = @ \o [i \in 1 .. n |-> m]]
      /\ reached # {}
      /\ reg_owed' = [reg_owed EXCEPT ![m] = Registry!Listening(m)]
      /\ UNCHANGED <<listeners, todo, dropped, heard>>
  BY DEF Registry!Publish, HInv, CopyTypes
<1>7. n \in Nat /\ n # 0
  BY <1>4, <1>5, <1>6, FS_CardinalityType, FS_EmptySet
<1> HIDE DEF n, reached
<1>8. m.kind \in Registry!Kinds
  BY DEF Registry!RegistryAssumption, Registry!Kinds
<1>9. m \notin Range(reg_inbox[m.kind])
  BY <1>6 DEF HInv, Unsent
<1>10. /\ reg_inbox'[m.kind] = reg_inbox[m.kind] \o [i \in 1 .. n |-> m]
       /\ \A k \in Registry!Kinds : k # m.kind => reg_inbox'[k] = reg_inbox[k]
       /\ DOMAIN reg_inbox' = Registry!Kinds
  BY <1>6, <1>8 DEF HInv, CopyTypes
<1>11. reg_inbox[m.kind] \in Seq(Copied)
  BY <1>8 DEF HInv, CopyTypes
<1>12. /\ reg_inbox'[m.kind] \in Seq(Copied)
       /\ Range(reg_inbox'[m.kind]) \subseteq Range(reg_inbox[m.kind]) \cup {m}
       /\ reg_inbox[m.kind] # <<>> =>
            reg_inbox'[m.kind] # <<>> /\ Head(reg_inbox'[m.kind]) = Head(reg_inbox[m.kind])
       /\ Count(reg_inbox'[m.kind], m) = n
       /\ \A x : x # m => Count(reg_inbox'[m.kind], x) = Count(reg_inbox[m.kind], x)
  <2> DEFINE s == reg_inbox[m.kind]
             b == [i \in 1 .. n |-> m]
  <2>1. b \in Seq(Copied) /\ Len(b) = n /\ \A i \in 1 .. n : b[i] = m
    BY <1>7
  <2>2. s \in Seq(Copied) /\ m \notin Range(s) /\ reg_inbox'[m.kind] = s \o b
    BY <1>9, <1>10, <1>11
  <2>3. s = reg_inbox[m.kind]
    OBVIOUS
  <2> HIDE DEF s, b
  <2>4. /\ s \o b \in Seq(Copied)
        /\ Range(s \o b) \subseteq Range(s) \cup {m}
        /\ s # <<>> => s \o b # <<>> /\ Head(s \o b) = Head(s)
        /\ Count(s \o b, m) = n
        /\ \A x : x # m => Count(s \o b, x) = Count(s, x)
    BY <1>7, <2>1, <2>2, CountBlock
  <2> QED
    BY <2>1, <2>2, <2>3, <2>4
<1>13. /\ copies' \in [Copied -> Nat] /\ copies'[m] = n
       /\ \A x \in Copied : x # m => copies'[x] = copies[x]
  BY <1>6, <1>7 DEF HInv, CopyTypes
<1>14. /\ Registry!Listening(m) \subseteq Hearers
       /\ \A l \in Registry!Listening(m) :
            /\ TopicOf[l] \in DOMAIN listeners /\ l \in listeners[TopicOf[l]]
            /\ Registry!KindOf(TopicOf[l]) = m.kind
  BY WhoIsPresent DEF HInv, RInv, Registry!Listening
<1>15. /\ reg_owed' \in [Copied -> SUBSET Hearers] /\ reg_owed'[m] = Registry!Listening(m)
       /\ \A x \in Copied : x # m => reg_owed'[x] = reg_owed[x]
  BY <1>6, <1>14 DEF HInv, CopyTypes
<1>16. CopyTypes'
  <2>1. \A k \in Registry!Kinds : /\ reg_inbox'[k] \in Seq(Copied)
                                   /\ \A x \in Range(reg_inbox'[k]) : x.kind = k
    BY <1>10, <1>12 DEF HInv, CopyTypes
  <2>2. \A k \in Registry!Kinds : todo[k] # {} => reg_inbox'[k] # <<>>
    BY <1>10, <1>12 DEF HInv, CopyTypes
  <2> QED
    BY <1>6, <1>10, <1>13, <1>15, <2>1, <2>2 DEF HInv, CopyTypes
<1>17. Unsent'
  <2> SUFFICES ASSUME NEW x \in Copied, copies'[x] = 0
               PROVE  /\ reg_owed'[x] = {} /\ x \notin Range(reg_inbox'[x.kind])
                      /\ dropped[x] = 0
                      /\ \A l \in Hearers : heard[l][x] = 0
    BY <1>6 DEF Unsent
  <2>1. x # m /\ copies[x] = 0
    BY <1>7, <1>13
  <2>2. x.kind \in Registry!Kinds
    BY DEF Registry!RegistryAssumption, Registry!Kinds
  <2>3. x \notin Range(reg_inbox'[x.kind])
    BY <1>10, <1>12, <2>1, <2>2 DEF HInv, Unsent
  <2> QED
    BY <1>15, <2>1, <2>3 DEF HInv, Unsent
<1>18. Due'
  <2> SUFFICES ASSUME NEW x \in Copied, NEW l \in reg_owed'[x]
               PROVE  /\ TopicOf[l] \in DOMAIN listeners /\ l \in listeners[TopicOf[l]]
                      /\ Registry!KindOf(TopicOf[l]) = x.kind
                      /\ IF Registry!Matches(TopicOf[l], Registry!ChannelFor(TopicOf[l], x))
                         THEN heard[l][x] + dropped[x] + Count(reg_inbox'[x.kind], x)
                                = copies'[x] + (IF Shown(l, x)' THEN 1 ELSE 0)
                         ELSE heard[l][x] = 0
    BY <1>6 DEF Due
  <2>1. x.kind \in Registry!Kinds
    BY DEF Registry!RegistryAssumption, Registry!Kinds
  <2>2. todo'[x.kind] # {} => Head(reg_inbox'[x.kind]) = Head(reg_inbox[x.kind])
    BY <1>6, <1>10, <1>12, <2>1 DEF HInv, CopyTypes
  <2>3. CASE x = m
    <3>1. heard[l][m] = 0 /\ dropped[m] = 0
      BY <1>6, <1>14, <1>15, <2>3 DEF HInv, Unsent
    <3>2. ~Shown(l, m)'
      <4> SUFFICES ASSUME todo[m.kind] # {}, Head(reg_inbox[m.kind]) = m PROVE FALSE
        BY <1>6, <2>2, <2>3 DEF Shown
      <4>1. reg_inbox[m.kind] # <<>>
        BY <1>8 DEF HInv, CopyTypes
      <4> QED
        BY <1>9, <1>11, <4>1, RangeOfHeadTail
    <3> QED
      BY <1>7, <1>12, <1>13, <1>14, <1>15, <2>3, <3>1, <3>2
  <2>4. CASE x # m
    <3>1. l \in reg_owed[x] /\ copies'[x] = copies[x]
      BY <1>13, <1>15, <2>4
    <3>2. Count(reg_inbox'[x.kind], x) = Count(reg_inbox[x.kind], x)
      BY <1>10, <1>12, <2>1, <2>4
    <3>3. Shown(l, x)' <=> Shown(l, x)
      BY <1>6, <2>2 DEF Shown
    <3> QED
      BY <3>1, <3>2, <3>3 DEF HInv, Due
  <2> QED
    BY <2>3, <2>4
<1> QED
  BY <1>1, <1>16, <1>17, <1>18 DEF HInv

\* The head of a channel is over: what taking it off leaves.
LEMMA HeadGoes ==
  ASSUME HInv, NEW k \in Registry!Kinds, reg_inbox[k] # <<>>,
         reg_inbox' = [reg_inbox EXCEPT ![k] = Tail(@)]
  PROVE  /\ DOMAIN reg_inbox' = Registry!Kinds /\ reg_inbox'[k] = Tail(reg_inbox[k])
         /\ \A j \in Registry!Kinds : j # k => reg_inbox'[j] = reg_inbox[j]
         /\ Tail(reg_inbox[k]) \in Seq(Copied) /\ Head(reg_inbox[k]) \in Copied
         /\ Range(reg_inbox[k]) = {Head(reg_inbox[k])} \cup Range(Tail(reg_inbox[k]))
<1>1. DOMAIN reg_inbox = Registry!Kinds /\ reg_inbox[k] \in Seq(Copied)
  BY DEF HInv, CopyTypes
<1>2. /\ DOMAIN reg_inbox' = Registry!Kinds /\ reg_inbox'[k] = Tail(reg_inbox[k])
      /\ \A j \in Registry!Kinds : j # k => reg_inbox'[j] = reg_inbox[j]
  BY <1>1
<1> QED
  BY <1>1, <1>2, RangeOfHeadTail

\* A copy that the channel overwrote is accounted for.
LEMMA LagKeepsCopies ==
  ASSUME Registry!RegistryAssumption, HInv, NEW k \in Registry!Kinds, Registry!Lag(k)
  PROVE  HInv'
<1> DEFINE m0 == Head(reg_inbox[k])
<1>1. RInv'
  BY LoopsKeepMap DEF HInv
<1>2. /\ todo[k] = {} /\ Len(reg_inbox[k]) > Capacity
      /\ reg_inbox' = [reg_inbox EXCEPT ![k] = Tail(@)]
      /\ dropped' = [dropped EXCEPT ![m0] = @ + 1]
      /\ UNCHANGED <<listeners, todo, copies, reg_owed, heard>>
  BY DEF Registry!Lag
<1>3. reg_inbox[k] # <<>> /\ reg_inbox[k] \in Seq(Copied)
  <2>1. Len(<<>>) = 0 /\ Capacity > 0
    BY DEF Registry!RegistryAssumption
  <2> QED
    BY <1>2, <2>1 DEF HInv, CopyTypes, Registry!RegistryAssumption
<1>4. /\ DOMAIN reg_inbox' = Registry!Kinds /\ reg_inbox'[k] = Tail(reg_inbox[k])
      /\ \A j \in Registry!Kinds : j # k => reg_inbox'[j] = reg_inbox[j]
      /\ Tail(reg_inbox[k]) \in Seq(Copied) /\ m0 \in Copied
      /\ Range(reg_inbox[k]) = {m0} \cup Range(Tail(reg_inbox[k]))
  BY <1>2, <1>3, HeadGoes
<1>5. m0.kind = k /\ copies[m0] # 0
  BY <1>3, <1>4 DEF HInv, CopyTypes, Unsent
<1>6. \A m \in Copied : m.kind \in Registry!Kinds
  BY DEF Registry!RegistryAssumption, Registry!Kinds
<1>7. /\ dropped' \in [Copied -> Nat]
      /\ \A m \in Copied : dropped'[m] = IF m = m0 THEN dropped[m] + 1 ELSE dropped[m]
  BY <1>2, <1>4 DEF HInv, CopyTypes
<1>8. \A m \in Copied : Count(reg_inbox[m.kind], m)
                          = Count(reg_inbox'[m.kind], m) + (IF m = m0 THEN 1 ELSE 0)
  <2> SUFFICES ASSUME NEW m \in Copied
               PROVE  Count(reg_inbox[m.kind], m)
                        = Count(reg_inbox'[m.kind], m) + (IF m = m0 THEN 1 ELSE 0)
    OBVIOUS
  <2>1. CASE m.kind = k
    <3>1. Count(reg_inbox[k], m) = Count(Tail(reg_inbox[k]), m) + (IF m = m0 THEN 1 ELSE 0)
      BY <1>3, CountTail
    <3> HIDE DEF m0
    <3> QED
      BY <1>4, <2>1, <3>1
  <2>2. CASE m.kind # k
    <3>1. Count(reg_inbox[m.kind], m) \in Nat
      BY <1>6, CountNat DEF HInv, CopyTypes
    <3> QED
      BY <1>4, <1>5, <1>6, <2>2, <3>1
  <2> QED
    BY <2>1, <2>2
<1>9. \A m \in Copied : Count(reg_inbox'[m.kind], m) \in Nat
  <2> SUFFICES ASSUME NEW m \in Copied PROVE Count(reg_inbox'[m.kind], m) \in Nat
    OBVIOUS
  <2>1. reg_inbox'[m.kind] \in Seq(Copied)
    BY <1>4, <1>6 DEF HInv, CopyTypes
  <2> QED
    BY <2>1, CountNat
<1>10. \A j \in Registry!Kinds : /\ reg_inbox'[j] \in Seq(Copied)
                                 /\ Range(reg_inbox'[j]) \subseteq Range(reg_inbox[j])
  BY <1>4 DEF HInv, CopyTypes
<1>11. \A j \in Registry!Kinds : todo'[j] # {} => reg_inbox'[j] # <<>>
  BY <1>2, <1>4 DEF HInv, CopyTypes
<1>12. CopyTypes'
  BY <1>2, <1>4, <1>7, <1>10, <1>11 DEF HInv, CopyTypes
<1>13. Unsent'
  BY <1>2, <1>5, <1>6, <1>7, <1>10 DEF HInv, Unsent
<1>14. \A m \in Copied : \A l \in reg_owed[m] : Shown(l, m)' <=> Shown(l, m)
  BY <1>2, <1>4, <1>6 DEF Shown
<1> HIDE DEF m0
<1>15. ASSUME NEW m \in Copied, NEW l \in reg_owed[m],
              Registry!Matches(TopicOf[l], Registry!ChannelFor(TopicOf[l], m))
       PROVE  heard[l][m] + dropped'[m] + Count(reg_inbox'[m.kind], m)
                = copies[m] + (IF Shown(l, m)' THEN 1 ELSE 0)
  <2>1. heard[l][m] + dropped[m] + Count(reg_inbox[m.kind], m)
          = copies[m] + (IF Shown(l, m) THEN 1 ELSE 0)
    BY <1>15 DEF HInv, Due
  <2>2. heard[l][m] \in Nat /\ dropped[m] \in Nat /\ copies[m] \in Nat
    BY <1>15 DEF HInv, CopyTypes
  <2> QED
    BY <1>7, <1>8, <1>9, <1>14, <1>15, <2>1, <2>2
<1>16. Due'
  BY <1>2, <1>15 DEF HInv, Due
<1> QED
  BY <1>1, <1>12, <1>13, <1>16 DEF HInv

\* Receiving a copy: every listener that is owed one has its pattern looked at.
LEMMA ReceiveKeepsCopies ==
  ASSUME Registry!RegistryAssumption, HInv, NEW k \in Registry!Kinds, Registry!Receive(k)
  PROVE  HInv'
<1> DEFINE entries == {p \in DOMAIN listeners : Registry!KindOf(p) = k}
<1>1. RInv'
  BY LoopsKeepMap DEF HInv
<1>2. /\ reg_inbox[k] # <<>> /\ todo[k] = {}
      /\ todo' = [todo EXCEPT ![k] = entries]
      /\ reg_inbox' = IF todo'[k] = {} THEN [reg_inbox EXCEPT ![k] = Tail(@)] ELSE reg_inbox
      /\ UNCHANGED <<listeners, copies, dropped, reg_owed, heard>>
  BY DEF Registry!Receive, Registry!copyVars
<1>3. /\ todo'[k] = entries /\ \A j \in Registry!Kinds : j # k => todo'[j] = todo[j]
      /\ todo' \in [Registry!Kinds -> SUBSET Registry!UsedPatterns]
  BY <1>2 DEF HInv, CopyTypes, RInv, MapTypes
<1>4. \A m \in Copied : \A l \in reg_owed[m] : m.kind = k => TopicOf[l] \in entries
  BY DEF HInv, Due, CopyTypes
<1>5. \A m \in Copied : m.kind \in Registry!Kinds
  BY DEF Registry!RegistryAssumption, Registry!Kinds
<1>6. \A p \in entries : Registry!KindOf(p) = k
  OBVIOUS
<1> HIDE DEF entries
<1>7. \A m \in Copied : \A l \in reg_owed[m] : m.kind = k => ~Shown(l, m) /\ ~Shown(l, m)'
  BY <1>2, <1>3, <1>4 DEF Shown
<1>8. CASE entries = {}
  <2>1. reg_inbox' = [reg_inbox EXCEPT ![k] = Tail(@)]
    BY <1>2, <1>3, <1>8
  <2>2. /\ DOMAIN reg_inbox' = Registry!Kinds /\ reg_inbox'[k] = Tail(reg_inbox[k])
        /\ \A j \in Registry!Kinds : j # k => reg_inbox'[j] = reg_inbox[j]
        /\ Tail(reg_inbox[k]) \in Seq(Copied)
        /\ Range(reg_inbox[k]) = {Head(reg_inbox[k])} \cup Range(Tail(reg_inbox[k]))
    BY <1>2, <2>1, HeadGoes
  <2>3. \A j \in Registry!Kinds : /\ reg_inbox'[j] \in Seq(Copied)
                                 /\ Range(reg_inbox'[j]) \subseteq Range(reg_inbox[j])
    BY <2>2 DEF HInv, CopyTypes
  <2>4. \A j \in Registry!Kinds : todo'[j] # {} => reg_inbox'[j] # <<>>
    BY <1>3, <1>8, <2>2 DEF HInv, CopyTypes
  <2>5. CopyTypes'
    BY <1>2, <1>3, <1>6, <2>2, <2>3, <2>4 DEF HInv, CopyTypes
  <2>6. Unsent'
    BY <1>2, <1>5, <2>3 DEF HInv, Unsent
  <2>7. \A m \in Copied : \A l \in reg_owed[m] : m.kind # k
    BY <1>4, <1>8
  <2>8. \A m \in Copied : \A l \in reg_owed[m] :
          reg_inbox'[m.kind] = reg_inbox[m.kind] /\ todo'[m.kind] = todo[m.kind]
    BY <1>3, <1>5, <2>2, <2>7
  <2>9. \A m \in Copied : \A l \in reg_owed[m] : Shown(l, m)' <=> Shown(l, m)
    BY <2>8 DEF Shown
  <2>10. Due'
    BY <1>2, <2>8, <2>9 DEF HInv, Due
  <2> QED
    BY <1>1, <2>5, <2>6, <2>10 DEF HInv
<1>9. CASE entries # {}
  <2>1. reg_inbox' = reg_inbox
    BY <1>2, <1>3, <1>9
  <2>2. CopyTypes'
    BY <1>2, <1>3, <1>6, <2>1 DEF HInv, CopyTypes
  <2>3. Unsent'
    BY <1>2, <2>1 DEF HInv, Unsent
  <2>4. \A m \in Copied : \A l \in reg_owed[m] : Shown(l, m)' <=> Shown(l, m)
    BY <1>3, <1>5, <1>7, <2>1 DEF Shown
  <2>5. Due'
    BY <1>2, <2>1, <2>4 DEF HInv, Due
  <2> QED
    BY <1>1, <2>2, <2>3, <2>5 DEF HInv
<1> QED
  BY <1>8, <1>9

\* One entry of the loop: those of its pattern hear the copy if it is for them, and
\* the last entry ends it.
LEMMA VisitKeepsCopies ==
  ASSUME Registry!RegistryAssumption, GlobIsRight, HInv,
         NEW k \in Registry!Kinds, NEW p \in Registry!UsedPatterns, Registry!Visit(k, p)
  PROVE  HInv'
<1> DEFINE m0 == Head(reg_inbox[k])
           here == IF /\ p \in DOMAIN listeners
                      /\ Registry!redis_glob_matches(p, Registry!ChannelFor(p, m0))
                   THEN listeners[p] ELSE {}
<1>1. RInv'
  BY LoopsKeepMap DEF HInv
<1>2. /\ p \in todo[k] /\ todo' = [todo EXCEPT ![k] = @ \ {p}]
      /\ reg_inbox' = IF todo'[k] = {} THEN [reg_inbox EXCEPT ![k] = Tail(@)] ELSE reg_inbox
      /\ heard' = [l \in Hearers |-> IF l \in here THEN [heard[l] EXCEPT ![m0] = @ + 1]
                                                    ELSE heard[l]]
      /\ UNCHANGED <<listeners, copies, dropped, reg_owed>>
  BY DEF Registry!Visit
<1>3. /\ reg_inbox[k] # <<>> /\ reg_inbox[k] \in Seq(Copied)
      /\ Registry!KindOf(p) = k
  BY <1>2 DEF HInv, CopyTypes
<1>4. /\ m0 \in Copied /\ m0 \in Range(reg_inbox[k])
      /\ Range(reg_inbox[k]) = {m0} \cup Range(Tail(reg_inbox[k]))
      /\ Tail(reg_inbox[k]) \in Seq(Copied)
  BY <1>3, RangeOfHeadTail
<1>5. m0.kind = k /\ copies[m0] # 0
  BY <1>4 DEF HInv, CopyTypes, Unsent
<1>6. \A l \in here : l \in Hearers /\ TopicOf[l] = p
  BY DEF HInv, RInv, Placed
<1>7. \A l \in Hearers :
        TopicOf[l] = p /\ p \in DOMAIN listeners /\ l \in listeners[p] =>
        (l \in here <=> Registry!Matches(p, Registry!ChannelFor(p, m0)))
  BY <1>3, <1>4, <1>5 DEF GlobIsRight
<1>8. \A m \in Copied : m.kind \in Registry!Kinds
  BY DEF Registry!RegistryAssumption, Registry!Kinds
<1> HIDE DEF m0, here
<1>9. /\ heard' \in [Hearers -> [Copied -> Nat]]
      /\ \A l \in Hearers, m \in Copied :
           heard'[l][m] = IF l \in here /\ m = m0 THEN heard[l][m] + 1 ELSE heard[l][m]
  BY <1>2, <1>4 DEF HInv, CopyTypes
<1>10. /\ todo' \in [Registry!Kinds -> SUBSET Registry!UsedPatterns]
       /\ todo'[k] = todo[k] \ {p}
       /\ \A j \in Registry!Kinds : j # k => todo'[j] = todo[j]
  BY <1>2 DEF HInv, CopyTypes
<1>11. \A m \in Copied : copies[m] = 0 => m # m0
  BY <1>5
<1>12. \A m \in Copied : \A l \in reg_owed[m] :
         /\ l \in Hearers
         /\ TopicOf[l] \in DOMAIN listeners /\ l \in listeners[TopicOf[l]]
         /\ heard[l][m] \in Nat /\ copies[m] \in Nat /\ dropped[m] \in Nat
         /\ IF Registry!Matches(TopicOf[l], Registry!ChannelFor(TopicOf[l], m))
            THEN heard[l][m] + dropped[m] + Count(reg_inbox[m.kind], m)
                   = copies[m] + (IF Shown(l, m) THEN 1 ELSE 0)
            ELSE heard[l][m] = 0
  BY DEF HInv, CopyTypes, Due
<1>13. CASE todo[k] # {p}
  <2>1. todo'[k] # {} /\ reg_inbox' = reg_inbox
    BY <1>2, <1>10, <1>13
  <2>2. CopyTypes'
    BY <1>2, <1>9, <1>10, <2>1 DEF HInv, CopyTypes
  <2>3. Unsent'
    BY <1>2, <1>9, <1>11, <2>1 DEF HInv, Unsent
  <2>4. ASSUME NEW m \in Copied, NEW l \in reg_owed[m]
        PROVE  IF Registry!Matches(TopicOf[l], Registry!ChannelFor(TopicOf[l], m))
               THEN heard'[l][m] + dropped[m] + Count(reg_inbox[m.kind], m)
                      = copies[m] + (IF Shown(l, m)' THEN 1 ELSE 0)
               ELSE heard'[l][m] = 0
    <3>1. CASE m = m0 /\ TopicOf[l] = p
      <4>1. ~Shown(l, m) /\ Shown(l, m)'
        BY <1>2, <1>5, <1>10, <2>1, <3>1 DEF Shown, m0
      <4>2. l \in here <=> Registry!Matches(TopicOf[l], Registry!ChannelFor(TopicOf[l], m))
        BY <1>7, <1>12, <2>4, <3>1
      <4>3. heard'[l][m] = IF l \in here THEN heard[l][m] + 1 ELSE heard[l][m]
        BY <1>9, <1>12, <2>4, <3>1
      <4>4. Count(reg_inbox[m.kind], m) \in Nat
        BY <1>3, <1>5, <3>1, CountNat
      <4> QED
        BY <1>12, <2>4, <4>1, <4>2, <4>3, <4>4
    <3>2. CASE m # m0 \/ TopicOf[l] # p
      <4>1. Shown(l, m)' <=> Shown(l, m)
        <5>1. CASE m.kind # k
          BY <1>8, <1>10, <2>1, <2>4, <5>1 DEF Shown
        <5>2. CASE m.kind = k
          BY <1>2, <1>10, <2>1, <2>4, <3>2, <5>2 DEF Shown, m0
        <5> QED
          BY <5>1, <5>2
      <4>2. heard'[l][m] = heard[l][m]
        BY <1>6, <1>9, <1>12, <2>4, <3>2
      <4> QED
        BY <1>12, <2>4, <4>1, <4>2
    <3> QED
      BY <3>1, <3>2
  <2>5. Due'
    BY <1>2, <2>1, <2>4 DEF HInv, Due
  <2> QED
    BY <1>1, <2>2, <2>3, <2>5 DEF HInv
<1>14. CASE todo[k] = {p}
  <2>1. todo'[k] = {} /\ reg_inbox' = [reg_inbox EXCEPT ![k] = Tail(@)]
    BY <1>2, <1>10, <1>14
  <2>2. /\ DOMAIN reg_inbox' = Registry!Kinds /\ reg_inbox'[k] = Tail(reg_inbox[k])
        /\ \A j \in Registry!Kinds : j # k => reg_inbox'[j] = reg_inbox[j]
    BY <1>3, <2>1, HeadGoes
  <2>3. \A j \in Registry!Kinds : /\ reg_inbox'[j] \in Seq(Copied)
                                 /\ Range(reg_inbox'[j]) \subseteq Range(reg_inbox[j])
    BY <1>4, <2>2 DEF HInv, CopyTypes
  <2>4. \A j \in Registry!Kinds : todo'[j] # {} => reg_inbox'[j] # <<>>
    BY <1>10, <2>1, <2>2 DEF HInv, CopyTypes
  <2>5. CopyTypes'
    BY <1>2, <1>9, <1>10, <2>2, <2>3, <2>4 DEF HInv, CopyTypes
  <2>6. Unsent'
    <3> SUFFICES ASSUME NEW m \in Copied, copies[m] = 0
                 PROVE  /\ reg_owed[m] = {} /\ m \notin Range(reg_inbox'[m.kind])
                        /\ dropped[m] = 0
                        /\ \A l \in Hearers : heard'[l][m] = 0
      BY <1>2 DEF Unsent
    <3>1. /\ reg_owed[m] = {} /\ m \notin Range(reg_inbox[m.kind]) /\ dropped[m] = 0
          /\ \A l \in Hearers : heard[l][m] = 0
      BY DEF HInv, Unsent
    <3>2. m \notin Range(reg_inbox'[m.kind])
      BY <1>8, <2>3, <3>1
    <3> QED
      BY <1>9, <1>11, <3>1, <3>2
  <2>7. ASSUME NEW m \in Copied, NEW l \in reg_owed[m]
        PROVE  IF Registry!Matches(TopicOf[l], Registry!ChannelFor(TopicOf[l], m))
               THEN heard'[l][m] + dropped[m] + Count(reg_inbox'[m.kind], m)
                      = copies[m] + (IF Shown(l, m)' THEN 1 ELSE 0)
               ELSE heard'[l][m] = 0
    <3>1. CASE m.kind # k
      <4>1. reg_inbox'[m.kind] = reg_inbox[m.kind] /\ (Shown(l, m)' <=> Shown(l, m))
        BY <1>8, <1>10, <2>2, <2>7, <3>1 DEF Shown
      <4>2. heard'[l][m] = heard[l][m]
        BY <1>5, <1>9, <1>12, <2>7, <3>1
      <4> QED
        BY <1>12, <2>7, <4>1, <4>2
    <3>2. CASE m.kind = k
      <4>1. ~Shown(l, m)'
        BY <2>1, <3>2 DEF Shown
      <4>2. /\ Count(reg_inbox[k], m) = Count(reg_inbox'[k], m) + (IF m = m0 THEN 1 ELSE 0)
            /\ Count(reg_inbox'[k], m) \in Nat
        <5>1. Count(Tail(reg_inbox[k]), m) \in Nat
          BY <1>4, CountNat
        <5>2. Count(reg_inbox[k], m)
                = Count(Tail(reg_inbox[k]), m) + (IF m = Head(reg_inbox[k]) THEN 1 ELSE 0)
          BY <1>3, CountTail
        <5> QED
          BY <2>2, <5>1, <5>2 DEF m0
      <4>3. Shown(l, m) <=> m = m0 /\ TopicOf[l] # p
        BY <1>14, <3>2 DEF Shown, m0
      <4>4. CASE m = m0 /\ TopicOf[l] = p
        <5>1. l \in here <=> Registry!Matches(TopicOf[l], Registry!ChannelFor(TopicOf[l], m))
          BY <1>7, <1>12, <2>7, <4>4
        <5>2. heard'[l][m] = IF l \in here THEN heard[l][m] + 1 ELSE heard[l][m]
          BY <1>9, <1>12, <2>7, <4>4
        <5> QED
          BY <1>12, <2>7, <3>2, <4>1, <4>2, <4>3, <4>4, <5>1, <5>2
      <4>5. CASE m # m0 \/ TopicOf[l] # p
        <5>1. heard'[l][m] = heard[l][m]
          BY <1>6, <1>9, <1>12, <2>7, <4>5
        <5> QED
          BY <1>12, <2>7, <3>2, <4>1, <4>2, <4>3, <4>5, <5>1
      <4> QED
        BY <4>4, <4>5
    <3> QED
      BY <3>1, <3>2
  <2>8. Due'
    BY <1>2, <2>7 DEF HInv, Due
  <2> QED
    BY <1>1, <2>5, <2>6, <2>8 DEF HInv
<1> QED
  BY <1>13, <1>14

\* The invariant of the copies.
LEMMA HInvHolds ==
  ASSUME Registry!RegistryAssumption
  PROVE  Registry!Spec => []HInv
<1>1. Registry!Init => HInv
  <2> SUFFICES ASSUME Registry!Init PROVE HInv
    OBVIOUS
  <2>1. RInv
    BY DEF Registry!Init, RInv, MapTypes, Placed, OwnIds, Registry!InMemory, Registry!Present,
           Registry!RegistryAssumption
  <2>2. CopyTypes /\ Unsent
    BY RangeOfEmpty DEF Registry!Init, CopyTypes, Unsent, Registry!Kinds,
                        Registry!RegistryAssumption
  <2>3. Due
    BY DEF Registry!Init, Due
  <2> QED
    BY <2>1, <2>2, <2>3 DEF HInv
<1>2. HInv /\ [Registry!Next]_(Registry!vars) => HInv'
  <2> SUFFICES ASSUME HInv, [Registry!Next]_(Registry!vars) PROVE HInv'
    OBVIOUS
  <2>1. CASE UNCHANGED Registry!vars
    <3>1. RInv'
      BY <2>1, MapStutter DEF HInv, Registry!vars, Registry!callVars
    <3>2. CopyTypes' /\ Unsent' /\ Due'
      BY <2>1 DEF Registry!vars, Registry!copyVars, HInv, CopyTypes, Unsent, Due, Shown
    <3> QED
      BY <3>1, <3>2 DEF HInv
  <2>2. ASSUME NEW l \in Hearers, Registry!Contains(l) \/ Registry!Subscribe(l) \/
                                    Registry!Punsubscribe(l)
        PROVE  HInv'
    BY <2>2, OthersKeepCopies
  <2>3. ASSUME NEW l \in Hearers, NEW who \in SUBSET Quitters, Registry!Remove(l, who)
        PROVE  HInv'
    <3>1. Quitters \subseteq Hearers
      BY DEF Registry!RegistryAssumption
    <3> QED
      BY <2>3, <3>1, RemoveKeepsCopies
  <2> QED
    BY <2>1, <2>2, <2>3, ExtendKeepsCopies, RefuseKeepsCopies, MapRemoveKeepsCopies,
       PublishKeepsCopies, LagKeepsCopies, ReceiveKeepsCopies, VisitKeepsCopies, GlobHolds
       DEF Registry!Next
<1> QED
  BY <1>1, <1>2, PTL DEF Registry!Spec

\* The dispatch loops: however listeners of other patterns come and go meanwhile,
\* a listener that stays hears a message once for every pattern it matches, but for
\* the copies the channel overwrote, if its own pattern is among them, else never.
THEOREM EveryCopyIsHeard ==
  ASSUME Registry!RegistryAssumption
  PROVE  Registry!Spec => []Registry!HearsEveryCopy
<1>1. HInv => Registry!HearsEveryCopy
  <2> SUFFICES ASSUME HInv, NEW m \in Copied, reg_inbox[m.kind] = <<>>, NEW l \in reg_owed[m]
               PROVE  heard[l][m] =
                        IF Registry!Matches(TopicOf[l], Registry!ChannelFor(TopicOf[l], m))
                        THEN copies[m] - dropped[m] ELSE 0
    BY DEF Registry!HearsEveryCopy
  <2>1. m.kind \in Registry!Kinds
    BY DEF Registry!RegistryAssumption, Registry!Kinds
  <2>2. ~Shown(l, m)
    BY <2>1 DEF HInv, CopyTypes, Shown
  <2>3. Count(reg_inbox[m.kind], m) = 0
    <3>1. <<>> \in Seq(Copied) /\ m \notin Range(<<>>)
      BY RangeOfEmpty
    <3> QED
      BY <3>1, CountNat
  <2>4. heard[l][m] \in Nat /\ copies[m] \in Nat /\ dropped[m] \in Nat
    BY DEF HInv, CopyTypes
  <2> QED
    BY <2>2, <2>3, <2>4 DEF HInv, Due
<1> QED
  BY <1>1, HInvHolds, PTL

\* The variables of ListenerRegistry stay in their types.
THEOREM RegistryTypes ==
  ASSUME Registry!RegistryAssumption
  PROVE  Registry!Spec => []Registry!TypeOK
<1>1. HInv => Registry!TypeOK
  <2> SUFFICES ASSUME HInv PROVE Registry!TypeOK
    OBVIOUS
  <2>1. \A q \in DOMAIN listeners : listeners[q] \subseteq Hearers
    BY DEF HInv, RInv, Placed
  <2> QED
    BY <2>1 DEF HInv, RInv, MapTypes, CopyTypes, Registry!TypeOK
<1> QED
  BY <1>1, HInvHolds, PTL

-----------------------------------------------------------------------------
(* The scenes: a step of them is a step of each instance, or none.           *)

\* The scenes start each instance as it starts, and a step of the scenes is one of
\* its steps, or none.
LEMMA ScenesOfInstances ==
  /\ ScenesInit => Init /\ Registry!Init /\ Waiting!Init
  /\ [ScenesNext]_sceneVars =>
       [Next]_vars /\ [Registry!Next]_(Registry!vars) /\ [Waiting!Next]_(Waiting!vars)
<1>1. ScenesInit => Init /\ Registry!Init /\ Waiting!Init
  BY DEF ScenesInit
<1>2. UNCHANGED regVars <=> UNCHANGED Registry!vars
  BY DEF regVars, Registry!vars, Registry!callVars, Registry!copyVars
<1>3. UNCHANGED waitVars <=> UNCHANGED Waiting!vars
  BY DEF waitVars, Waiting!vars
<1>4. UNCHANGED sceneVars => UNCHANGED <<vars, regVars, waitVars>>
  BY DEF sceneVars
<1> QED
  BY <1>1, <1>2, <1>3, <1>4 DEF ScenesNext

\* So the scenes implement each component.
LEMMA ScenesImplement ==
  ScenesSpec => Spec /\ Registry!Spec /\ Waiting!Spec
BY ScenesOfInstances, PTL DEF ScenesSpec, Spec, Registry!Spec, Waiting!Spec

\* add_waiter, remove_waiter and the Notify, beside the subscriptions: nobody sleeps
\* beside a free lock for want of a message, for every number of tasks.
THEOREM UnlocksAreHeard == ScenesSpec => []UnlockIsHeard
<1>1. Waiting!TypeOK /\ Waiting!UnlockIsHeard => UnlockIsHeard
  BY DEF UnlockIsHeard
<1> QED
  BY <1>1, ScenesImplement, WaitersAreCounted, NoWakeUpIsLost, PTL

\* add_listener and remove_listener: an id takes its own listener, for every set of
\* topics, however few addresses there are, and whatever is removed too late.
THEOREM IdsTakeTheirOwn == ASSUME ScenesAssumption PROVE ScenesSpec => []RemoveTakesOwn
<1>1. Registry!RegistryAssumption
  BY DEF ScenesAssumption
<1>2. Registry!TypeOK /\ Registry!RemoveTakesOwn => RemoveTakesOwn
  BY DEF RemoveTakesOwn
<1>3. /\ Registry!Spec => []Registry!TypeOK
      /\ Registry!Spec => []Registry!RemoveTakesOwn
  BY <1>1, RegistryTypes, RemovalTakesOwn
<1> QED
  BY <1>2, <1>3, ScenesImplement, PTL

\* The dispatch loops: every copy of a message is heard by every listener it is
\* owed, whatever the patterns are, but for those the channel had no room for.
THEOREM CopiesAreHeard == ASSUME ScenesAssumption PROVE ScenesSpec => []HearsEveryCopy
<1>1. Registry!RegistryAssumption
  BY DEF ScenesAssumption
<1>2. Registry!HearsEveryCopy => HearsEveryCopy
  BY DEF HearsEveryCopy
<1>3. Registry!Spec => []Registry!HearsEveryCopy
  BY <1>1, EveryCopyIsHeard
<1> QED
  BY <1>2, <1>3, ScenesImplement, PTL

\* redis_glob_matches: the glob agrees with its reference on every set of patterns
\* and texts.
THEOREM GlobsAgree == ASSUME ScenesAssumption PROVE ScenesSpec => []GlobAgrees
<1> DEFINE GInv == scene = "globs" => glob \in Globs
<1>1. ScenesInit => GInv
  BY DEF ScenesInit
<1>2. GInv /\ [ScenesNext]_sceneVars => GInv'
  BY DEF ScenesNext, sceneVars
<1>3. GInv => GlobAgrees
  BY GlobIsCut DEF GlobAgrees, ScenesAssumption
<1> QED
  BY <1>1, <1>2, <1>3, PTL DEF ScenesSpec

-----------------------------------------------------------------------------
(* The renewal bookkeeping: the invariant that LongestIsFirst rests on.      *)

\* Every place of v in the queue q comes after one of u.
Ahead(q, u, v) == \A k \in DOMAIN q : q[k] = v => \E m \in 1 .. k - 1 : q[m] = u

Holders == {holds[i].thread : i \in DOMAIN holds}

\* The counters and names are those of the holds, and the queue has the holders.
HoldsAgree ==
  /\ DOMAIN thread_counter = Holders /\ DOMAIN thread2lock_name = Holders
  /\ \A i \in DOMAIN holds :
       /\ thread_counter[holds[i].thread] = holds[i].times
       /\ thread2lock_name[holds[i].thread] = holds[i].name
  /\ \A t \in Threads : (\E k \in DOMAIN threads_queue : threads_queue[k] = t) <=> t \in Holders

\* A thread holds once, and who has held longer is ahead in the queue.
HoldsInOrder ==
  \A i, j \in DOMAIN holds :
    /\ holds[i].thread = holds[j].thread => i = j
    /\ i < j => Ahead(threads_queue, holds[i].thread, holds[j].thread)

Hold == [thread : Threads, times : Nat \ {0}, name : LockNames]

RenewalInv ==
  /\ threads_queue \in Seq(Threads) /\ holds \in Seq(Hold)
  /\ HoldsAgree
  /\ HoldsInOrder

\* What the elements of s up to place n leave in kept.
KeptUpTo(s, S, kept, n) ==
  /\ kept \in Seq(S)
  /\ \A x \in S : (\E k \in DOMAIN kept : kept[k] = x) <=> (\E k \in 1 .. n : s[k] = x)
  /\ \A u, v \in S : Ahead(s, u, v) => Ahead(kept, u, v)

\* retain: the sequence it leaves has exactly the elements that are in S, and none
\* overtakes another.
LEMMA RetainFacts ==
  ASSUME NEW T, NEW s \in Seq(T), NEW S
  PROVE  KeptUpTo(s, S, Renewal!retain(s, S), Len(s))
<1> DEFINE Ends == 0 .. Len(s)
           E(f) == [n \in Ends |->
                     IF n = 0 THEN <<>>
                     ELSE IF s[n] \in S THEN Append(f[n - 1], s[n]) ELSE f[n - 1]]
           Follows(f, n) == f[n] = IF s[n] \in S THEN Append(f[n - 1], s[n]) ELSE f[n - 1]
           Starts(f, m) == f[0] = <<>> /\ \A n \in 1 .. m : Follows(f, n)
           kept == CHOOSE f : f = E(f)
<1>0. Len(s) \in Nat /\ Renewal!retain(s, S) = kept[Len(s)]
  BY DEF Renewal!retain
<1>1. ASSUME NEW f, NEW m \in Ends, Starts(f, m)
      PROVE  \A n \in 0 .. m : KeptUpTo(s, S, f[n], n)
  <2> DEFINE Bad == {n \in 0 .. m : ~KeptUpTo(s, S, f[n], n)}
  <2>1. SUFFICES ASSUME Bad # {} PROVE FALSE
    BY <2>1
  <2>2. PICK n \in Bad : \A k \in Bad : n \leq k
    <3> Bad \subseteq Nat
      BY <1>0
    <3> HIDE DEF Bad
    <3> QED
      BY <2>1, LeastNatural
  <2>3. KeptUpTo(s, S, f[0], 0)
    BY <1>1 DEF KeptUpTo, Ahead
  <2>4. n \in 1 .. m /\ n - 1 \in 0 .. m /\ n - 1 \notin Bad
    BY <1>0, <2>2, <2>3
  <2>5. KeptUpTo(s, S, f[n - 1], n - 1)
    BY <2>4
  <2>6. Follows(f, n) /\ n \in 1 .. Len(s) /\ n - 1 \in Nat
    BY <1>0, <1>1, <2>4
  <2>7. KeptUpTo(s, S, f[n], n)
    <3> DEFINE old == f[n - 1] new == f[n]
    <3> HIDE DEF Bad, Starts
    <3>1. CASE s[n] \in S
      <4>1. new = Append(old, s[n])
        BY <2>6, <3>1
      <4> HIDE DEF old, new, Follows
      <4>2. /\ old \in Seq(S) /\ new \in Seq(S) /\ Len(new) = Len(old) + 1
            /\ \A k \in 1 .. Len(old) : new[k] = old[k]
            /\ new[Len(new)] = s[n] /\ Len(old) \in Nat
        BY <2>5, <3>1, <4>1 DEF KeptUpTo, old
      <4>3. \A x \in S : (\E k \in DOMAIN new : new[k] = x) <=> (\E k \in 1 .. n : s[k] = x)
        <5>1. SUFFICES ASSUME NEW x \in S
                       PROVE  (\E k \in DOMAIN new : new[k] = x) <=> (\E k \in 1 .. n : s[k] = x)
          OBVIOUS
        <5>2. (\E k \in 1 .. Len(old) : old[k] = x) <=> (\E k \in 1 .. n - 1 : s[k] = x)
          BY <2>5, <4>2 DEF KeptUpTo, old
        <5>3. (\E k \in DOMAIN new : new[k] = x)
                <=> (\E k \in 1 .. Len(old) : old[k] = x) \/ s[n] = x
          <6>1. DOMAIN new = 1 .. Len(old) \cup {Len(new)} /\ Len(new) \in Nat
            BY <4>2
          <6> QED
            BY <4>2, <6>1
        <5>4. 1 .. n = 1 .. (n - 1) \cup {n}
          BY <2>6
        <5> QED
          BY <5>2, <5>3, <5>4
      <4>4. ASSUME NEW u \in S, NEW v \in S, Ahead(s, u, v)
            PROVE  Ahead(new, u, v)
        <5>1. SUFFICES ASSUME NEW k \in DOMAIN new, new[k] = v
                       PROVE  \E p \in 1 .. k - 1 : new[p] = u
          BY DEF Ahead
        <5>2. CASE k \in 1 .. Len(old)
          <6>1. old[k] = v /\ k \in DOMAIN old /\ Ahead(old, u, v)
            BY <2>5, <4>2, <4>4, <5>1, <5>2 DEF KeptUpTo, old
          <6>2. PICK p \in 1 .. k - 1 : old[p] = u
            BY <6>1 DEF Ahead
          <6> QED
            BY <4>2, <5>2, <6>2
        <5>3. CASE k = Len(new)
          <6>1. PICK p \in 1 .. n - 1 : s[p] = u
            BY <2>6, <4>2, <4>4, <5>1, <5>3 DEF Ahead
          <6>2. PICK o \in DOMAIN old : old[o] = u
            BY <2>5, <6>1 DEF KeptUpTo, old
          <6> QED
            BY <4>2, <5>3, <6>2
        <5> QED
          BY <4>2, <5>1, <5>2, <5>3
      <4> QED
        BY <4>2, <4>3, <4>4 DEF KeptUpTo, new
    <3>2. CASE s[n] \notin S
      BY <2>5, <2>6, <3>2 DEF KeptUpTo
    <3> QED
      BY <3>1, <3>2
  <2> QED
    BY <2>2, <2>7
<1> DEFINE Starting(m) == \E f : Starts(f, m)
<1>2. \A m \in Ends : Starting(m)
  <2> DEFINE Bad == {m \in Ends : ~Starting(m)}
  <2>1. SUFFICES ASSUME Bad # {} PROVE FALSE
    BY <2>1
  <2>2. PICK m \in Bad : \A k \in Bad : m \leq k
    <3> Bad \subseteq Nat
      BY <1>0
    <3> HIDE DEF Bad
    <3> QED
      BY <2>1, LeastNatural
  <2>3. Starting(0)
    <3>1. Starts([n \in {0} |-> <<>>], 0)
      OBVIOUS
    <3> QED
      BY <3>1
  <2>4. m \in 1 .. Len(s) /\ m - 1 \in Ends /\ m - 1 \notin Bad
    <3> HIDE DEF Starting
    <3> QED
      BY <1>0, <2>2, <2>3
  <2>5. PICK f : Starts(f, m - 1)
    BY <2>4
  <2> DEFINE g == [n \in 0 .. m |->
                    IF n < m THEN f[n]
                    ELSE IF s[m] \in S THEN Append(f[m - 1], s[m]) ELSE f[m - 1]]
  <2>6. Starts(g, m)
    <3>1. g[0] = <<>>
      BY <2>4, <2>5
    <3>2. ASSUME NEW n \in 1 .. m PROVE Follows(g, n)
      BY <2>4, <2>5, <3>2
    <3> QED
      BY <3>1, <3>2
  <2> QED
    BY <2>2, <2>6
<1>3. \E f : f = E(f)
  <2>0. Starting(Len(s))
    <3> HIDE DEF Starting
    <3> QED
      BY <1>0, <1>2
  <2>1. PICK f : Starts(f, Len(s))
    BY <2>0
  <2> DEFINE g == [n \in Ends |-> f[n]]
  <2>2. \A n \in Ends : g[n] = E(g)[n]
    BY <1>0, <2>1
  <2>3. g = E(g)
    BY <2>2
  <2> QED
    BY <2>3
<1>4. kept = E(kept)
  BY <1>3
<1>5. \A n \in Ends : kept[n] = E(kept)[n]
  BY <1>4
<1> HIDE DEF kept
<1>6. Starts(kept, Len(s))
  BY <1>0, <1>5
<1> QED
  BY <1>0, <1>1, <1>6

\* An element added last is behind all that are there.
LEMMA AheadAppend ==
  ASSUME NEW T, NEW q \in Seq(T), NEW t \in T, NEW u, NEW v,
         \E k \in DOMAIN q : q[k] = u, Ahead(q, u, v)
  PROVE  Ahead(Append(q, t), u, v)
<1>1. PICK i \in 1 .. Len(q) : q[i] = u
  OBVIOUS
<1>2. SUFFICES ASSUME NEW k \in 1 .. Len(q) + 1, Append(q, t)[k] = v
               PROVE  \E m \in 1 .. k - 1 : Append(q, t)[m] = u
  BY DEF Ahead
<1>3. CASE k \in 1 .. Len(q)
  <2>1. PICK m \in 1 .. k - 1 : q[m] = u
    BY <1>2, <1>3 DEF Ahead
  <2> QED
    BY <1>3, <2>1
<1>4. CASE k = Len(q) + 1
  BY <1>1, <1>4
<1> QED
  BY <1>3, <1>4

\* A holder has one place in holds.
LEMMA HoldPlace ==
  ASSUME RenewalInv, NEW t \in Holders
  PROVE  /\ Renewal!HoldOf(t) \in 1 .. Len(holds) /\ t \in Threads
         /\ holds[Renewal!HoldOf(t)].thread = t
         /\ holds[Renewal!HoldOf(t)] \in Hold
         /\ thread_counter[t] = holds[Renewal!HoldOf(t)].times
         /\ \A j \in DOMAIN holds : holds[j].thread = t => j = Renewal!HoldOf(t)
<1>1. \E i \in DOMAIN holds : holds[i].thread = t
  BY DEF Holders
<1>2. Renewal!HoldOf(t) \in DOMAIN holds /\ holds[Renewal!HoldOf(t)].thread = t
  BY <1>1 DEF Renewal!HoldOf
<1>3. holds[Renewal!HoldOf(t)] \in Hold /\ DOMAIN holds = 1 .. Len(holds)
  BY <1>2 DEF RenewalInv
<1>4. t \in Threads
  BY <1>2, <1>3 DEF Hold
<1>5. thread_counter[t] = holds[Renewal!HoldOf(t)].times
  BY <1>2 DEF RenewalInv, HoldsAgree
<1>6. \A j \in DOMAIN holds : holds[j].thread = t => j = Renewal!HoldOf(t)
  BY <1>2 DEF RenewalInv, HoldsInOrder
<1> QED
  BY <1>2, <1>3, <1>4, <1>5, <1>6

\* A holder is in the queue.
LEMMA HoldersQueued ==
  ASSUME RenewalInv
  PROVE  \A i \in DOMAIN holds :
           /\ holds[i] \in Hold /\ holds[i].thread \in Holders
           /\ \E k \in DOMAIN threads_queue : threads_queue[k] = holds[i].thread
<1>1. ASSUME NEW i \in DOMAIN holds
      PROVE  holds[i] \in Hold /\ holds[i].thread \in Holders /\ holds[i].thread \in Threads
  <2>1. holds[i] \in Hold
    BY DEF RenewalInv
  <2> QED
    BY <2>1 DEF Holders, Hold
<1> QED
  BY <1>1 DEF RenewalInv, HoldsAgree

\* add_thread_id keeps the invariant.
LEMMA AddKeeps ==
  ASSUME RenewalInv, NEW t \in Threads, NEW lock_name \in LockNames,
         Renewal!add_thread_id(t, lock_name)
  PROVE  RenewalInv'
<1> DEFINE q == threads_queue
<1>0. q \in Seq(Threads) /\ holds \in Seq(Hold) /\ Len(q) \in Nat /\ Len(holds) \in Nat
  BY DEF RenewalInv
<1>1. /\ threads_queue' = Append(q, t) /\ holds' = Renewal!Taken(t, lock_name)
      /\ DOMAIN thread_counter' = DOMAIN thread_counter \cup {t}
      /\ DOMAIN thread2lock_name' = DOMAIN thread2lock_name \cup {t}
      /\ thread_counter'[t] = (IF t \in DOMAIN thread_counter THEN thread_counter[t] ELSE 0) + 1
      /\ \A u \in DOMAIN thread_counter \ {t} : thread_counter'[u] = thread_counter[u]
      /\ \A u \in DOMAIN thread2lock_name : thread2lock_name'[u] = thread2lock_name[u]
      /\ t \notin DOMAIN thread2lock_name => thread2lock_name'[t] = lock_name
  BY DEF Renewal!add_thread_id, Renewal!Insert
<1>2. /\ threads_queue' \in Seq(Threads)
      /\ \A u : (\E k \in DOMAIN threads_queue' : threads_queue'[k] = u)
                  <=> (\E k \in DOMAIN q : q[k] = u) \/ u = t
  <2>1. /\ threads_queue' \in Seq(Threads) /\ Len(threads_queue') = Len(q) + 1
        /\ \A k \in 1 .. Len(q) : threads_queue'[k] = q[k]
        /\ threads_queue'[Len(q) + 1] = t
    BY <1>0, <1>1
  <2>2. DOMAIN threads_queue' = DOMAIN q \cup {Len(q) + 1} /\ DOMAIN q = 1 .. Len(q)
    BY <1>0, <2>1
  <2> DEFINE new == threads_queue'  m == Len(q) + 1
  <2>3. /\ DOMAIN new = DOMAIN q \cup {m}
        /\ \A k \in DOMAIN q : new[k] = q[k]
        /\ new[m] = t
    BY <1>0, <2>1, <2>2
  <2> HIDE DEF q, new, m
  <2>4. \A u : (\E k \in DOMAIN new : new[k] = u) <=> (\E k \in DOMAIN q : q[k] = u) \/ u = t
    BY <2>3
  <2> QED
    BY <2>1, <2>4 DEF new
<1>3. CASE t \in Holders
  <2> DEFINE h == Renewal!HoldOf(t)
  <2>1. /\ h \in 1 .. Len(holds) /\ holds[h].thread = t /\ holds[h] \in Hold
        /\ thread_counter[t] = holds[h].times
        /\ \A j \in DOMAIN holds : holds[j].thread = t => j = h
    BY <1>3, HoldPlace
  <2>2. holds' = [holds EXCEPT ![h].times = @ + 1]
    BY <1>1, <1>3 DEF Renewal!Taken, Holders
  <2> HIDE DEF h, q
  <2>3. /\ holds' \in Seq(Hold) /\ DOMAIN holds' = DOMAIN holds
        /\ \A i \in DOMAIN holds :
             /\ holds'[i].thread = holds[i].thread /\ holds'[i].name = holds[i].name
             /\ holds'[i].times = IF i = h THEN holds[i].times + 1 ELSE holds[i].times
    <3>1. [holds[h] EXCEPT !.times = @ + 1] \in Hold
      BY <2>1 DEF Hold
    <3>2. \A i \in DOMAIN holds : holds[i] \in Hold
      BY <1>0
    <3>3. holds' = [holds EXCEPT ![h] = [holds[h] EXCEPT !.times = @ + 1]]
      BY <2>1, <2>2
    <3>4. holds' \in Seq(Hold) /\ DOMAIN holds' = DOMAIN holds
      BY <1>0, <2>1, <3>1, <3>3
    <3>5. \A i \in DOMAIN holds :
            holds'[i] = IF i = h THEN [holds[h] EXCEPT !.times = @ + 1] ELSE holds[i]
      BY <3>3
    <3>6. [holds[h] EXCEPT !.times = @ + 1].times = holds[h].times + 1
          /\ [holds[h] EXCEPT !.times = @ + 1].name = holds[h].name
          /\ [holds[h] EXCEPT !.times = @ + 1].thread = holds[h].thread
      BY <2>1 DEF Hold
    <3> QED
      BY <3>4, <3>5, <3>6
  <2>4. Holders' = Holders
    BY <2>3 DEF Holders
  <2>5. HoldsAgree'
    <3>1. DOMAIN thread_counter' = Holders' /\ DOMAIN thread2lock_name' = Holders'
      BY <1>1, <1>3, <2>4 DEF RenewalInv, HoldsAgree
    <3>2. ASSUME NEW i \in DOMAIN holds
          PROVE  /\ thread_counter'[holds'[i].thread] = holds'[i].times
                 /\ thread2lock_name'[holds'[i].thread] = holds'[i].name
      <4>1. /\ holds[i].thread \in DOMAIN thread_counter
            /\ holds[i].thread \in DOMAIN thread2lock_name
            /\ thread_counter[holds[i].thread] = holds[i].times
            /\ thread2lock_name[holds[i].thread] = holds[i].name
        BY HoldersQueued DEF RenewalInv, HoldsAgree
      <4>2. t \in DOMAIN thread_counter
        BY <1>3 DEF RenewalInv, HoldsAgree
      <4>3. holds[i].thread = t <=> i = h
        BY <2>1
      <4> QED
        BY <1>1, <2>1, <2>3, <4>1, <4>2, <4>3
    <3>3. \A u \in Threads : (\E k \in DOMAIN threads_queue' : threads_queue'[k] = u)
                                <=> u \in Holders'
      BY <1>2, <1>3, <2>4 DEF RenewalInv, HoldsAgree, q
    <3> QED
      BY <2>3, <3>1, <3>2, <3>3 DEF HoldsAgree
  <2>6. HoldsInOrder'
    <3>1. ASSUME NEW i \in DOMAIN holds, NEW j \in DOMAIN holds, i < j
          PROVE  Ahead(threads_queue', holds[i].thread, holds[j].thread)
      <4>1. Ahead(q, holds[i].thread, holds[j].thread)
        BY <3>1 DEF RenewalInv, HoldsInOrder, q
      <4>2. \E k \in DOMAIN q : q[k] = holds[i].thread
        BY HoldersQueued DEF q
      <4> QED
        BY <1>0, <1>1, <4>1, <4>2, AheadAppend
    <3>2. \A i, j \in DOMAIN holds : holds[i].thread = holds[j].thread => i = j
      BY DEF RenewalInv, HoldsInOrder
    <3> QED
      BY <2>3, <3>1, <3>2 DEF HoldsInOrder
  <2> QED
    BY <1>2, <2>3, <2>5, <2>6 DEF RenewalInv
<1>4. CASE t \notin Holders
  <2> DEFINE new == [thread |-> t, times |-> 1, name |-> lock_name]
             last == Len(holds) + 1
  <2>1. holds' = Append(holds, new)
    BY <1>1, <1>4 DEF Renewal!Taken, Holders
  <2>2. new \in Hold /\ new.thread = t /\ new.times = 1 /\ new.name = lock_name
    BY DEF Hold
  <2> HIDE DEF new, q
  <2>3. /\ holds' \in Seq(Hold) /\ DOMAIN holds' = DOMAIN holds \cup {last}
        /\ DOMAIN holds = 1 .. Len(holds) /\ last \notin DOMAIN holds /\ last \in Nat
        /\ \A i \in DOMAIN holds : holds'[i] = holds[i] /\ i < last
        /\ holds'[last] = new
    BY <1>0, <2>1, <2>2
  <2> HIDE DEF last
  <2>4. Holders' = Holders \cup {t}
    BY <2>2, <2>3 DEF Holders
  <2>5. HoldsAgree'
    <3>1. DOMAIN thread_counter' = Holders' /\ DOMAIN thread2lock_name' = Holders'
      BY <1>1, <2>4 DEF RenewalInv, HoldsAgree
    <3>2. t \notin DOMAIN thread_counter /\ t \notin DOMAIN thread2lock_name
      BY <1>4 DEF RenewalInv, HoldsAgree
    <3>3. ASSUME NEW i \in DOMAIN holds
          PROVE  /\ thread_counter'[holds'[i].thread] = holds'[i].times
                 /\ thread2lock_name'[holds'[i].thread] = holds'[i].name
      <4>1. /\ holds[i].thread \in DOMAIN thread_counter \ {t}
            /\ holds[i].thread \in DOMAIN thread2lock_name
            /\ thread_counter[holds[i].thread] = holds[i].times
            /\ thread2lock_name[holds[i].thread] = holds[i].name
        BY <1>4, HoldersQueued DEF RenewalInv, HoldsAgree
      <4> QED
        BY <1>1, <2>3, <4>1
    <3>4. /\ thread_counter'[holds'[last].thread] = holds'[last].times
          /\ thread2lock_name'[holds'[last].thread] = holds'[last].name
      BY <1>1, <2>2, <2>3, <3>2
    <3>5. \A u \in Threads : (\E k \in DOMAIN threads_queue' : threads_queue'[k] = u)
                                <=> u \in Holders'
      BY <1>2, <2>4 DEF RenewalInv, HoldsAgree, q
    <3> QED
      BY <2>3, <3>1, <3>3, <3>4, <3>5 DEF HoldsAgree
  <2>6. HoldsInOrder'
    <3>1. ASSUME NEW i \in DOMAIN holds, NEW j \in DOMAIN holds, i < j
          PROVE  Ahead(threads_queue', holds[i].thread, holds[j].thread)
      <4>1. Ahead(q, holds[i].thread, holds[j].thread)
        BY <3>1 DEF RenewalInv, HoldsInOrder, q
      <4>2. \E k \in DOMAIN q : q[k] = holds[i].thread
        BY HoldersQueued DEF q
      <4> QED
        BY <1>0, <1>1, <4>1, <4>2, AheadAppend
    <3>2. ASSUME NEW i \in DOMAIN holds
          PROVE  Ahead(threads_queue', holds[i].thread, t)
      <4>1. Ahead(q, holds[i].thread, t)
        BY <1>4 DEF RenewalInv, HoldsAgree, Ahead, q
      <4>2. \E k \in DOMAIN q : q[k] = holds[i].thread
        BY HoldersQueued DEF q
      <4> QED
        BY <1>0, <1>1, <4>1, <4>2, AheadAppend
    <3>3. \A i, j \in DOMAIN holds : holds[i].thread = holds[j].thread => i = j
      BY DEF RenewalInv, HoldsInOrder
    <3>4. \A i \in DOMAIN holds : holds[i].thread # t
      BY <1>4, HoldersQueued
    <3> QED
      BY <2>2, <2>3, <3>1, <3>2, <3>3, <3>4 DEF HoldsInOrder
  <2> QED
    BY <1>2, <2>3, <2>5, <2>6 DEF RenewalInv
<1> QED
  BY <1>3, <1>4

\* remove_thread_id keeps the invariant.
LEMMA RemoveKeeps ==
  ASSUME RenewalInv, NEW t \in Threads, Renewal!remove_thread_id(t)
  PROVE  RenewalInv'
<1> DEFINE q == threads_queue
           h == Renewal!HoldOf(t)
<1>0. q \in Seq(Threads) /\ holds \in Seq(Hold) /\ Len(q) \in Nat /\ Len(holds) \in Nat
  BY DEF RenewalInv
<1>1. /\ t \in DOMAIN thread_counter /\ t \in Holders
      /\ DOMAIN thread_counter = Holders /\ DOMAIN thread2lock_name = Holders
  BY DEF Renewal!remove_thread_id, RenewalInv, HoldsAgree
<1>2. /\ h \in 1 .. Len(holds) /\ holds[h].thread = t /\ holds[h] \in Hold
      /\ thread_counter[t] = holds[h].times /\ holds[h].times \in Nat \ {0}
      /\ \A j \in DOMAIN holds : holds[j].thread = t => j = h
  BY <1>1, HoldPlace DEF Hold
<1>3. CASE thread_counter[t] > 1
  <2>1. /\ holds' = [holds EXCEPT ![h].times = @ - 1]
        /\ thread_counter' = [thread_counter EXCEPT ![t] = @ - 1]
        /\ thread2lock_name' = thread2lock_name /\ threads_queue' = q
    BY <1>2, <1>3 DEF Renewal!remove_thread_id, Renewal!Released
  <2> HIDE DEF h, q
  <2>2. /\ holds' \in Seq(Hold) /\ DOMAIN holds' = DOMAIN holds
        /\ \A i \in DOMAIN holds :
             /\ holds'[i].thread = holds[i].thread /\ holds'[i].name = holds[i].name
             /\ holds'[i].times = IF i = h THEN holds[i].times - 1 ELSE holds[i].times
    <3> DEFINE less == [holds[h] EXCEPT !.times = @ - 1]
    <3>1. holds[h].times - 1 \in Nat \ {0}
      BY <1>2, <1>3
    <3>2. /\ less \in Hold /\ less.times = holds[h].times - 1
          /\ less.name = holds[h].name /\ less.thread = holds[h].thread
      BY <1>2, <3>1 DEF Hold
    <3>3. holds' = [holds EXCEPT ![h] = less]
      BY <1>2, <2>1
    <3> HIDE DEF less
    <3>4. holds' \in Seq(Hold) /\ DOMAIN holds' = DOMAIN holds
      BY <1>0, <1>2, <3>2, <3>3
    <3>5. \A i \in DOMAIN holds : holds'[i] = IF i = h THEN less ELSE holds[i]
      BY <3>3
    <3> QED
      BY <3>2, <3>4, <3>5
  <2>3. Holders' = Holders
    BY <2>2 DEF Holders
  <2>4. HoldsAgree'
    <3>1. DOMAIN thread_counter' = Holders' /\ DOMAIN thread2lock_name' = Holders'
      BY <1>1, <2>1, <2>3
    <3>2. ASSUME NEW i \in DOMAIN holds
          PROVE  /\ thread_counter'[holds'[i].thread] = holds'[i].times
                 /\ thread2lock_name'[holds'[i].thread] = holds'[i].name
      <4>1. /\ holds[i].thread \in DOMAIN thread_counter
            /\ thread_counter[holds[i].thread] = holds[i].times
            /\ thread2lock_name[holds[i].thread] = holds[i].name
        BY <1>1, HoldersQueued DEF RenewalInv, HoldsAgree
      <4>2. holds[i].thread = t <=> i = h
        BY <1>2
      <4>3. thread_counter'[holds[i].thread] = holds'[i].times
        BY <1>1, <2>1, <2>2, <4>1, <4>2
      <4> QED
        BY <2>1, <2>2, <4>1, <4>3
    <3>3. \A u \in Threads : (\E k \in DOMAIN threads_queue' : threads_queue'[k] = u)
                                <=> u \in Holders'
      BY <2>1, <2>3 DEF RenewalInv, HoldsAgree, q
    <3> QED
      BY <2>2, <3>1, <3>2, <3>3 DEF HoldsAgree
  <2>5. HoldsInOrder'
    BY <2>1, <2>2 DEF RenewalInv, HoldsInOrder, q
  <2> QED
    BY <1>0, <2>1, <2>2, <2>4, <2>5 DEF RenewalInv
<1>4. CASE ~(thread_counter[t] > 1)
  <2> DEFINE S == Threads \ {t}
             Before(i) == IF i < h THEN i ELSE i + 1
  <2>1. /\ holds' = SubSeq(holds, 1, h - 1) \o SubSeq(holds, h + 1, Len(holds))
        /\ thread_counter' = [u \in Holders \ {t} |-> thread_counter[u]]
        /\ thread2lock_name' = [u \in Holders \ {t} |-> thread2lock_name[u]]
        /\ threads_queue' = Renewal!retain(q, S)
    BY <1>1, <1>2, <1>4
       DEF Renewal!remove_thread_id, Renewal!Released, Renewal!Without, Renewal!Restrict
  <2>2. KeptUpTo(q, S, threads_queue', Len(q))
    BY <1>0, <2>1, RetainFacts
  <2>3. /\ threads_queue' \in Seq(S)
        /\ \A u \in S : (\E k \in DOMAIN threads_queue' : threads_queue'[k] = u)
                           <=> (\E k \in DOMAIN q : q[k] = u)
        /\ \A u, v \in S : Ahead(q, u, v) => Ahead(threads_queue', u, v)
    <3>1. DOMAIN q = 1 .. Len(q)
      BY <1>0
    <3> QED
      BY <2>2, <3>1 DEF KeptUpTo
  <2>4. threads_queue' \in Seq(Threads)
        /\ \A k \in DOMAIN threads_queue' : threads_queue'[k] # t
    <3> DEFINE new == threads_queue'
    <3>1. new \in Seq(S)
      BY <2>3
    <3> HIDE DEF new
    <3>2. new \in Seq(Threads) /\ \A k \in DOMAIN new : new[k] \in S
      BY <3>1
    <3> QED
      BY <3>2 DEF new
  <2>5. /\ holds' \in Seq(Hold)
        /\ DOMAIN holds' = 1 .. Len(holds) - 1
        /\ \A i \in 1 .. Len(holds) - 1 : holds'[i] = holds[Before(i)]
    <3> HIDE DEF h
    <3>1. holds' \in Seq(Hold) /\ Lacks(holds', holds, h)
      BY <1>0, <1>2, <2>1, PartsLack
    <3> QED
      BY <1>0, <1>2, <3>1 DEF Lacks
  <2> HIDE DEF h, q
  <2>6. /\ \A i \in DOMAIN holds' :
             /\ Before(i) \in DOMAIN holds /\ Before(i) # h
             /\ \A j \in DOMAIN holds' : /\ Before(i) = Before(j) => i = j
                                         /\ i < j => Before(i) < Before(j)
        /\ \A i \in DOMAIN holds \ {h} : \E j \in DOMAIN holds' : Before(j) = i
    <3>1. h \in 1 .. Len(holds) /\ DOMAIN holds = 1 .. Len(holds)
      BY <1>0, <1>2
    <3>2. \A i \in DOMAIN holds \ {h} :
            LET j == IF i < h THEN i ELSE i - 1 IN j \in DOMAIN holds' /\ Before(j) = i
      BY <1>0, <2>5, <3>1
    <3> QED
      BY <1>0, <2>5, <3>1, <3>2
  <2>7. \A i \in DOMAIN holds' : holds'[i] = holds[Before(i)]
    BY <2>5
  <2> HIDE DEF Before
  <2>8. Holders' = Holders \ {t}
    BY <1>2, <2>6, <2>7 DEF Holders
  <2>9. \A i \in DOMAIN holds : i # h => holds[i].thread \in S /\ holds[i].thread \in Holders \ {t}
    <3>1. \A i \in DOMAIN holds : holds[i].thread \in Threads
      BY HoldersQueued DEF Hold
    <3> QED
      BY <1>2, <3>1 DEF Holders
  <2>10. HoldsAgree'
    <3>1. DOMAIN thread_counter' = Holders' /\ DOMAIN thread2lock_name' = Holders'
      BY <2>1, <2>8
    <3>2. ASSUME NEW i \in DOMAIN holds'
          PROVE  /\ thread_counter'[holds'[i].thread] = holds'[i].times
                 /\ thread2lock_name'[holds'[i].thread] = holds'[i].name
      <4> DEFINE o == holds[Before(i)]
      <4>1. /\ thread_counter[o.thread] = o.times
            /\ thread2lock_name[o.thread] = o.name
        BY <2>6 DEF RenewalInv, HoldsAgree
      <4>2. o.thread \in Holders \ {t}
        BY <2>6, <2>9
      <4> QED
        BY <2>1, <2>7, <4>1, <4>2
    <3>3. \A u \in Threads : (\E k \in DOMAIN threads_queue' : threads_queue'[k] = u)
                                <=> u \in Holders'
      <4>1. \A u \in S : (\E k \in DOMAIN threads_queue' : threads_queue'[k] = u)
                            <=> u \in Holders
        BY <2>3 DEF RenewalInv, HoldsAgree, q
      <4> QED
        BY <2>4, <2>8, <4>1
    <3> QED
      BY <3>1, <3>2, <3>3 DEF HoldsAgree
  <2>11. HoldsInOrder'
    <3>1. ASSUME NEW i \in DOMAIN holds', NEW j \in DOMAIN holds'
          PROVE  /\ holds[Before(i)].thread = holds[Before(j)].thread => i = j
                 /\ i < j =>
                      Ahead(threads_queue', holds[Before(i)].thread, holds[Before(j)].thread)
      <4>1. /\ Before(i) \in DOMAIN holds /\ Before(j) \in DOMAIN holds
            /\ Before(i) # h /\ Before(j) # h
            /\ Before(i) = Before(j) => i = j
            /\ i < j => Before(i) < Before(j)
        BY <2>6
      <4>2. holds[Before(i)].thread \in S /\ holds[Before(j)].thread \in S
        BY <2>9, <4>1
      <4>3. /\ holds[Before(i)].thread = holds[Before(j)].thread => Before(i) = Before(j)
            /\ Before(i) < Before(j) =>
                 Ahead(q, holds[Before(i)].thread, holds[Before(j)].thread)
        BY <4>1 DEF RenewalInv, HoldsInOrder, q
      <4> QED
        BY <2>3, <4>1, <4>2, <4>3
    <3> QED
      BY <2>7, <3>1 DEF HoldsInOrder
  <2> QED
    BY <2>4, <2>5, <2>10, <2>11 DEF RenewalInv
<1> QED
  BY <1>3, <1>4

\* Every step of the renewal bookkeeping keeps the invariant.
LEMMA RenewalStep ==
  ASSUME RenewalInv, [Renewal!Next]_renewVars PROVE RenewalInv'
<1>1. CASE UNCHANGED renewVars
  BY <1>1 DEF renewVars, RenewalInv, HoldsAgree, HoldsInOrder, Holders, Ahead
<1>2. CASE Renewal!Next
  BY <1>2, AddKeeps, RemoveKeeps DEF Renewal!Next
<1> QED
  BY <1>1, <1>2

\* The head of the queue is the thread that has held longest.
LEMMA FirstIsLongest == ASSUME RenewalInv PROVE FirstHolds
<1>0. /\ threads_queue \in Seq(Threads) /\ holds \in Seq(Hold)
      /\ DOMAIN holds = 1 .. Len(holds) /\ DOMAIN threads_queue = 1 .. Len(threads_queue)
      /\ Len(holds) \in Nat /\ Len(threads_queue) \in Nat
  BY DEF RenewalInv
<1>1. threads_queue = <<>> <=> holds = <<>>
  <2>1. ASSUME holds # <<>> PROVE threads_queue # <<>>
    <3>1. 1 \in DOMAIN holds
      BY <1>0, <2>1
    <3> QED
      BY <1>0, <3>1, HoldersQueued
  <2>2. ASSUME threads_queue # <<>> PROVE holds # <<>>
    <3>1. 1 \in DOMAIN threads_queue /\ threads_queue[1] \in Threads
      BY <1>0, <2>2
    <3>2. threads_queue[1] \in Holders
      BY <3>1 DEF RenewalInv, HoldsAgree
    <3> QED
      BY <1>0, <3>2 DEF Holders
  <2> QED
    BY <2>1, <2>2
<1>2. ASSUME holds # <<>>
      PROVE  /\ Head(threads_queue) = holds[1].thread
             /\ Head(threads_queue) \in DOMAIN thread2lock_name
             /\ thread2lock_name[Head(threads_queue)] = holds[1].name
  <2>1. /\ 1 \in DOMAIN threads_queue /\ Head(threads_queue) = threads_queue[1]
        /\ threads_queue[1] \in Threads /\ 1 \in DOMAIN holds
    BY <1>0, <1>1, <1>2
  <2>2. threads_queue[1] \in Holders
    BY <2>1 DEF RenewalInv, HoldsAgree
  <2>3. PICK j \in DOMAIN holds : threads_queue[1] = holds[j].thread
    BY <2>2 DEF Holders
  <2>4. j = 1
    <3>1. ~(1 < j)
      <4>1. SUFFICES ASSUME 1 < j PROVE FALSE
        OBVIOUS
      <4>2. Ahead(threads_queue, holds[1].thread, holds[j].thread)
        BY <2>1, <4>1 DEF RenewalInv, HoldsInOrder
      <4>3. \E m \in 1 .. 1 - 1 : threads_queue[m] = holds[1].thread
        BY <2>1, <2>3, <4>2 DEF Ahead
      <4> QED
        BY <4>3
    <3> QED
      BY <1>0, <3>1
  <2> QED
    BY <2>1, <2>2, <2>3, <2>4 DEF RenewalInv, HoldsAgree
<1> QED
  BY <1>1, <1>2
     DEF FirstHolds, Renewal!FirstHolds, Renewal!get_first_lock_name, Renewal!has_no_threads

\* The renewal bookkeeping starts with nobody.
LEMMA RenewalStart == Renewal!Init => RenewalInv
BY DEF Renewal!Init, RenewalInv, HoldsAgree, HoldsInOrder, Holders

\* LockEntry: whatever threads take and release the lock, the name in front is that
\* of the thread that has held it longest.
THEOREM LongestIsFirst == ScenesSpec => []FirstHolds
<1>1. ScenesInit => RenewalInv
  BY RenewalStart DEF ScenesInit
<1>2. RenewalInv /\ [ScenesNext]_sceneVars => RenewalInv'
  <2>1. [ScenesNext]_sceneVars => [Renewal!Next]_renewVars
    BY DEF ScenesNext, sceneVars
  <2> QED
    BY <2>1, RenewalStep
<1> QED
  BY <1>1, <1>2, FirstIsLongest, PTL DEF ScenesSpec
=============================================================================
