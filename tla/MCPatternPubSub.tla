-------------------------- MODULE MCPatternPubSub ---------------------------
(* Instances of PatternPubSub for TLC: an ordinary and a keyspace pattern;   *)
(* an event comes from one node.                                             *)
EXTENDS PatternPubSub

CONSTANTS a, b, k1, k2, n1, n2, pat, key, msg, e1, e2

MCPatternOf == [l \in Listeners |-> IF l \in {a, b} THEN pat ELSE key]
MCMatching ==
  [m \in Messages |-> Patterns \cap IF m \in Events THEN {key} ELSE {pat}]
MCOrigin ==
  [m \in Messages |-> IF m = e1 THEN n1 ELSE IF m = e2 THEN n2 ELSE Client]
=============================================================================
