-------------------------- MODULE ListenerRegistry ---------------------------
(***************************************************************************)
(* Which listener hears what: the two maps of PublishSubscribeService, the *)
(* addresses that serve as ListenerIds, and the two dispatch loops with    *)
(* their globs.  The calls have the steps of PatternPubSub, on one server  *)
(* and without reconnections; what is added is that the memory of a        *)
(* listener that is gone is used again, that an id may be removed when its *)
(* listener is gone long since, that a message comes once for every        *)
(* pattern it matches, and that a copy goes to every pattern.              *)
(*                                                                         *)
(* A channel is a sequence of characters.  Redis sends a keyspace event on *)
(* two channels, "S" followed by the key and "E" followed by the           *)
(* operation; fred hands both on as the same event.                        *)
(***************************************************************************)
EXTENDS Glob, Maps, FiniteSets, Functions

CONSTANTS
  Listeners, PatternOf, \* each is added once, to a topic of its pattern
  Leavers,              \* those the application may remove again
  Messages,             \* records: a channel, or the key and operation of an event
  Addresses,            \* where the allocator may put a listener
  Unallocated,
  Capacity,             \* of the broadcast channels
  MaxFailures           \* bound on failing commands

RegistryAssumption ==
  /\ IsFiniteSet(Listeners) /\ Leavers \subseteq Listeners
  /\ PatternOf \in [Listeners -> Seq(STRING)]
  /\ Unallocated \notin Addresses
  /\ \A m \in Messages :
       \/ m.kind = "message" /\ m.channel \in Seq(STRING)
       \/ m.kind = "keyspace" /\ {m.key, m.op} \subseteq Seq(STRING)
  /\ Capacity \in Nat \ {0}
  /\ MaxFailures \in Nat

VARIABLES
  pc,          \* each listener's add_listener, and whether its id was removed
  leaving,     \* where its remove_listener is
  id,          \* its ListenerId, once it was allocated
  listeners,   \* pattern -> its listeners, in both maps
  subscribed,  \* Redis: the patterns of the subscriber's connection
  disturbed,   \* patterns that lost listeners to an error or to a race
  astray,      \* listeners whose address was removed for one that was gone
  inbox,       \* message_rx, keyspace_event_rx
  todo,        \* each loop: the patterns it has still to look at
  copies,      \* how often Redis sent a message
  dropped,     \* how many of these the channel overwrote
  owed,        \* the listeners that were there when it did, and stayed
  heard,       \* how often a listener heard a message
  failures

callVars == <<pc, leaving, id, disturbed, astray>>
copyVars == <<copies, dropped, heard>>
vars == <<callVars, listeners, subscribed, inbox, todo, owed, copyVars, failures>>

Kinds == {"message", "keyspace"}
UsedPatterns == Range(PatternOf)

\* ChannelName::is_keyspace
is_keyspace(pattern) == pattern # <<>> /\ Head(pattern) \in {"S", "E"}

KindOf(pattern) == IF is_keyspace(pattern) THEN "keyspace" ELSE "message"

\* The channels Redis publishes a message on.
Channels(m) ==
  IF m.kind = "message" THEN {m.channel} ELSE {<<"S">> \o m.key, <<"E">> \o m.op}

\* The channel a pattern is matched with: that of an event is put together
\* again, as the kind the pattern asks for.
ChannelFor(pattern, m) ==
  IF m.kind = "message" THEN m.channel
  ELSE IF Head(pattern) = "E" THEN <<"E">> \o m.op ELSE <<"S">> \o m.key

Present == UNION {listeners[p] : p \in DOMAIN listeners}

\* A wrapper is in memory while its call holds it, then while the map does.
InMemory == Present \cup {l \in Listeners : pc[l] \in {"known", "unknown"}}

Init ==
  /\ pc = [l \in Listeners |-> "new"]
  /\ leaving = [l \in Listeners |-> "no"]
  /\ id = [l \in Listeners |-> Unallocated]
  /\ listeners = <<>>
  /\ subscribed = {}
  /\ disturbed = {}
  /\ astray = {}
  /\ inbox = [k \in Kinds |-> <<>>]
  /\ todo = [k \in Kinds |-> {}]
  /\ copies = [m \in Messages |-> 0]
  /\ dropped = [m \in Messages |-> 0]
  /\ owed = [m \in Messages |-> {}]
  /\ heard = [l \in Listeners |-> [m \in Messages |-> 0]]
  /\ failures = 0

Goto(l, to) == pc' = [pc EXCEPT ![l] = to]

\* The map changes: who is not in it any more is owed nothing.
Owing == owed' = [m \in Messages |-> owed[m] \cap Present']

MayFail == failures < MaxFailures /\ failures' = failures + 1

-----------------------------------------------------------------------------
(* add_listener                                                              *)

\* The wrapper is allocated (its address is the id), then contains_key().
Contains(l) ==
  LET p == PatternOf[l] IN
  /\ pc[l] = "new"
  /\ Goto(l, IF p \in DOMAIN listeners THEN "known" ELSE "unknown")
  /\ \E a \in Addresses \ {id[k] : k \in InMemory} :
       id' = [id EXCEPT ![l] = a]
  /\ UNCHANGED <<leaving, disturbed, astray, listeners, subscribed, inbox, todo, owed, copyVars,
                 failures>>

\* entry().or_default().extend(): Ok at once if the pattern was there.  A loop
\* under way may or may not come across a new entry.
Extend(l) ==
  LET p   == PatternOf[l]
      new == p \notin DOMAIN listeners
  IN
  /\ pc[l] \in {"known", "unknown"}
  /\ Goto(l, IF pc[l] = "known" THEN "added" ELSE "subscribing")
  /\ listeners' = Insert(listeners, p, {l} \cup IF new THEN {} ELSE listeners[p])
  /\ \/ UNCHANGED todo
     \/ new /\ todo' = [todo EXCEPT ![KindOf(p)] = IF @ = {} THEN @ ELSE @ \cup {p}]
  /\ UNCHANGED <<leaving, id, disturbed, astray, subscribed, inbox, owed, copyVars, failures>>

Subscribe(l) ==
  /\ pc[l] = "subscribing"
  /\ Goto(l, "added")
  /\ subscribed' = subscribed \cup {PatternOf[l]}
  /\ UNCHANGED <<leaving, id, disturbed, astray, listeners, inbox, todo, owed, copyVars, failures>>

\* A PSUBSCRIBE that fails (it may have taken effect) clears the pattern's
\* listeners, whoever they are; they are freed, the entry stays.
Refuse(l) ==
  LET p == PatternOf[l] IN
  /\ pc[l] = "subscribing"
  /\ MayFail
  /\ Goto(l, "failed")
  /\ listeners' = [q \in DOMAIN listeners |-> IF q = p THEN {} ELSE listeners[q]]
  /\ disturbed' = disturbed \cup {p}
  /\ subscribed' \in {subscribed, subscribed \cup {p}}
  /\ Owing
  /\ UNCHANGED <<leaving, id, astray, inbox, todo, copyVars>>

-----------------------------------------------------------------------------
(* remove_listener, with any ids of the topic that were ever returned        *)

\* Mutant: it is any listener of the pattern that goes.
RetainOthers(s, ids) == IF s = {} THEN {} ELSE s \ {CHOOSE l \in s : TRUE}

\* The listeners whose address is not among ids.
Retain(s, ids) == {l \in s : id[l] \notin ids}

\* l's call removes the ids of those in who, now, again, or too late.
Remove(l, who) ==
  LET p    == PatternOf[l]
      kept == Retain(listeners[p], {id[k] : k \in who})
  IN
  /\ l \in who /\ \A k \in who : pc[k] \in {"added", "removed"} /\ PatternOf[k] = p
  /\ leaving[l] = "no"
  /\ pc' = [k \in Listeners |-> IF k \in who THEN "removed" ELSE pc[k]]
  /\ astray' = astray \cup {k \in Listeners :
                  PatternOf[k] = p /\ id[k] \in {id[j] : j \in who \ Present}}
  /\ IF p \in DOMAIN listeners
     THEN /\ listeners' = [listeners EXCEPT ![p] = kept]
          /\ leaving' = [leaving EXCEPT ![l] = IF kept = {} THEN "emptied" ELSE @]
     ELSE UNCHANGED <<listeners, leaving>>
  /\ Owing
  /\ UNCHANGED <<id, disturbed, subscribed, inbox, todo, copyVars, failures>>

\* map.remove(): the entry goes, with what was added to it since.
MapRemove(l) ==
  LET p == PatternOf[l] IN
  /\ leaving[l] = "emptied"
  /\ leaving' = [leaving EXCEPT ![l] = "leaving"]
  /\ listeners' = Restrict(listeners, DOMAIN listeners \ {p})
  /\ disturbed' = disturbed \cup
       IF p \in DOMAIN listeners /\ listeners[p] # {} THEN {p} ELSE {}
  /\ Owing
  /\ UNCHANGED <<pc, id, astray, subscribed, inbox, todo, copyVars, failures>>

\* PUNSUBSCRIBE answers.
Punsubscribe(l) ==
  /\ leaving[l] = "leaving"
  /\ leaving' = [leaving EXCEPT ![l] = "no"]
  /\ \/ subscribed' = subscribed \ {PatternOf[l]} /\ UNCHANGED failures
     \/ MayFail /\ UNCHANGED subscribed
  /\ UNCHANGED <<pc, id, disturbed, astray, listeners, inbox, todo, owed, copyVars>>

-----------------------------------------------------------------------------
(* Redis: one copy for every pattern that matches a channel of the message   *)

Listening(m) == {l \in Present : KindOf(PatternOf[l]) = m.kind}

Publish(m) ==
  LET reached == {p \in subscribed : \E c \in Channels(m) : Matches(p, c)} IN
  /\ m \notin {x \in Messages : copies[x] > 0}
  /\ copies' = [copies EXCEPT ![m] = Cardinality(reached)]
  /\ inbox' = [inbox EXCEPT ![m.kind] = @ \o [n \in 1 .. Cardinality(reached) |-> m]]
  /\ reached # {}
  /\ owed' = [owed EXCEPT ![m] = Listening(m)]
  /\ UNCHANGED <<callVars, listeners, subscribed, todo, dropped, heard, failures>>

-----------------------------------------------------------------------------
(* The dispatch loops                                                        *)

\* recv() after the channel overwrote its oldest copies: Lagged, a copy at a
\* time.  (A copy leaves inbox when the loop is done with it.)
Lag(k) ==
  /\ Len(inbox[k]) > Capacity /\ todo[k] = {}
  /\ inbox' = [inbox EXCEPT ![k] = Tail(@)]
  /\ dropped' = [dropped EXCEPT ![Head(inbox[k])] = @ + 1]
  /\ UNCHANGED <<callVars, listeners, subscribed, todo, copies, owed, heard, failures>>

\* A copy is received: the loop goes over the entries of its map.
Receive(k) ==
  /\ inbox[k] # <<>> /\ Len(inbox[k]) <= Capacity /\ todo[k] = {}
  /\ todo' = [todo EXCEPT ![k] = {p \in DOMAIN listeners : KindOf(p) = k}]
  /\ inbox' = IF todo'[k] = {} THEN [inbox EXCEPT ![k] = Tail(@)] ELSE inbox
  /\ UNCHANGED <<callVars, listeners, subscribed, owed, copyVars, failures>>

\* Mutant: the copy is for the first pattern that matches.
VisitFirst(k, p) ==
  LET m == Head(inbox[k])
      here == IF p \in DOMAIN listeners /\ redis_glob_matches(p, ChannelFor(p, m))
              THEN listeners[p] ELSE {}
  IN
  /\ p \in todo[k]
  /\ todo' = [todo EXCEPT ![k] = IF here = {} THEN @ \ {p} ELSE {}]
  /\ inbox' = IF todo'[k] = {} THEN [inbox EXCEPT ![k] = Tail(@)] ELSE inbox
  /\ heard' = [l \in Listeners |-> IF l \in here THEN [heard[l] EXCEPT ![m] = @ + 1]
                                                 ELSE heard[l]]
  /\ UNCHANGED <<callVars, listeners, subscribed, copies, dropped, owed, failures>>

\* One entry.  Its pattern is also the name its listeners compare with.
Visit(k, p) ==
  LET m == Head(inbox[k])
      here == IF p \in DOMAIN listeners /\ redis_glob_matches(p, ChannelFor(p, m))
              THEN listeners[p] ELSE {}
  IN
  /\ p \in todo[k]
  /\ todo' = [todo EXCEPT ![k] = @ \ {p}]
  /\ inbox' = IF todo'[k] = {} THEN [inbox EXCEPT ![k] = Tail(@)] ELSE inbox
  /\ heard' = [l \in Listeners |-> IF l \in here THEN [heard[l] EXCEPT ![m] = @ + 1]
                                                 ELSE heard[l]]
  /\ UNCHANGED <<callVars, listeners, subscribed, copies, dropped, owed, failures>>

-----------------------------------------------------------------------------
Next ==
  \/ \E l \in Listeners :
       \/ Contains(l) \/ Extend(l) \/ Subscribe(l) \/ Refuse(l)
       \/ \E who \in SUBSET Leavers : Remove(l, who)
       \/ MapRemove(l) \/ Punsubscribe(l)
  \/ \E m \in Messages : Publish(m)
  \/ \E k \in Kinds : Lag(k) \/ Receive(k) \/ \E p \in UsedPatterns : Visit(k, p)

Spec == Init /\ [][Next]_vars

-----------------------------------------------------------------------------
(* Properties                                                                *)

TypeOK ==
  /\ pc \in [Listeners -> {"new", "known", "unknown", "subscribing", "added", "failed",
                           "removed"}]
  /\ leaving \in [Listeners -> {"no", "emptied", "leaving"}]
  /\ id \in [Listeners -> Addresses \cup {Unallocated}]
  /\ DOMAIN listeners \subseteq UsedPatterns
  /\ \A p \in DOMAIN listeners : listeners[p] \subseteq Listeners
  /\ subscribed \cup disturbed \subseteq UsedPatterns
  /\ astray \subseteq Listeners
  /\ DOMAIN inbox = Kinds /\ \A k \in Kinds : inbox[k] \in Seq(Messages)
  /\ todo \in [Kinds -> SUBSET UsedPatterns]
  /\ {copies, dropped} \subseteq [Messages -> Nat]
  /\ owed \in [Messages -> SUBSET Listeners]
  /\ heard \in [Listeners -> [Messages -> Nat]]
  /\ failures \in 0 .. MaxFailures

\* add_listener and remove_listener (an address is the id): only listeners that
\* were not removed are in the map, and a listener whose add_listener returned Ok
\* is there until its own id is removed, however often its address was used before,
\* and wherever else it is used.  Two things break this in the code, and nothing
\* else does: its pattern lost all listeners, because the PSUBSCRIBE of another
\* failed or one was added between retain and remove; or the id of a listener
\* that went this way was removed after its address had gone to this one.
RemoveTakesOwn ==
  /\ \A l \in Present : pc[l] \in {"subscribing", "added"}
  /\ \A l \in Listeners :
       /\ pc[l] = "added"
       /\ PatternOf[l] \notin disturbed /\ l \notin astray
       => l \in Present

\* The dispatch loops (each copy goes to every pattern that matches): a listener
\* that was there before a message was sent and stays until the loops are done
\* hears it as often as Redis sent it, but for the copies the channel overwrote,
\* if its pattern matches, else never.
HearsEveryCopy ==
  \A m \in Messages : copies[m] > 0 /\ inbox[m.kind] = <<>> =>
    \A l \in owed[m] :
      heard[l][m] =
        IF Matches(PatternOf[l], ChannelFor(PatternOf[l], m)) THEN copies[m] - dropped[m]
        ELSE 0
==============================================================================
