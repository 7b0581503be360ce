------------------------- MODULE MCConnectionManager -------------------------
(* Instances of ConnectionManager.                                           *)
EXTENDS ConnectionManager

CONSTANTS n1, n2, n3, x

InCluster(sharding) ==
  [Default(n1) EXCEPT !.mode = "cluster", !.nodes = <<n1, n2>>,
                      !.sharded_subscription_mode = sharding]

MCRaw ==
  {Default(n1), InCluster("auto"),
   [InCluster("on") EXCEPT !.max_command_attempts = 1],
   [InCluster("off") EXCEPT !.command_timeout_ms = 0],
   [Default(n1) EXCEPT !.pool_size = 0],
   [Default(n1) EXCEPT !.mode = "cluster"],
   [Default(n1) EXCEPT !.read_mode = "replica"]}

MCLayouts == {[s \in Slots |-> n1], [s \in Slots |-> IF s = 1 THEN n1 ELSE n2]}

MCSentinel == {[Default(n1) EXCEPT !.mode = "sentinel", !.nodes = <<x>>]}
==============================================================================
