-------------------------------- MODULE Maps ---------------------------------
(* The insert of a HashMap or a DashMap.  A map is a function whose domain   *)
(* is the keys it has.                                                       *)

\* The key gets the value, whether it was there or not.
Insert(map, key, value) ==
  [k \in DOMAIN map \cup {key} |-> IF k = key THEN value ELSE map[k]]
==============================================================================
