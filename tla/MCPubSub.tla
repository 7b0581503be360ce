------------------------------- MODULE MCPubSub -------------------------------
(* The scenes for TLC: a topic of a key's events, three of one pattern for   *)
(* operations, and an event, which Redis sends on the channels of its key    *)
(* and its operation; every glob of at most three characters.                *)
EXTENDS PubSubScenes

CONSTANTS b, k1, k2, n1, n2, pat, key, e1, a1, a2, none

MCPatternOf == [l \in Listeners |-> IF l = b THEN pat ELSE key]
MCMatching  == [m \in Messages |-> {key}]
MCOrigin    == [m \in Messages |-> n1]

MCTopicOf ==
  [key |-> <<"S", "k">>, op1 |-> <<"E", "?">>, op2 |-> <<"E", "?">>, op3 |-> <<"E", "?">>]
MCCopied == {[kind |-> "keyspace", key |-> <<"k">>, op |-> <<"s">>]}
MCGlobs  == SE!BoundedSeq({"a", "b", "*", "?"}, 3)

ASSUME ScenesAssumption
===============================================================================
