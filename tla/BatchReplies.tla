---------------------------- MODULE BatchReplies ----------------------------
(***************************************************************************)
(* What travels through a batch of command_batch_service.rs: the answer a  *)
(* caller of async0 receives on its oneshot channel, the replies Redis     *)
(* gives to a pipeline, and the helpers that turn the second into the      *)
(* first.  A command stands for its own reply: the value that Redis        *)
(* computes for command c is written c, so that handing it to anyone but   *)
(* the caller of c is visible.                                             *)
(***************************************************************************)
EXTENDS Integers, Sequences, Functions, FiniteSets, TLC

SE == INSTANCE SequencesExt

CONSTANTS Commands,   \* the async0 calls made on one batch, one command each
          Null        \* fred's Value::Null

ASSUME NullAssumption == Null \notin Commands

Values == Commands \cup {Null}

-----------------------------------------------------------------------------
(* The oneshot channel of a call: empty, holding a result, or closed        *)
(* because its sender was dropped unsent.                                   *)

Answers == [tag : {"none", "ok", "discarded", "failed", "closed"},
            val : Values]

NoAnswer     == [tag |-> "none", val |-> Null]
Ok(v)        == [tag |-> "ok", val |-> v]
Failure(why) == [tag |-> why, val |-> Null]

-----------------------------------------------------------------------------
(* Replies of Redis.  "value" answers a command, "status" is the OK of      *)
(* MULTI and the QUEUED of a command inside it, "array" and "nil" are what  *)
(* EXEC returns, "integer" answers WAIT and "acks" (a two-element array of  *)
(* integers) WAITAOF.                                                       *)

ValueReply(c)   == [tag |-> "value", val |-> c]
StatusReply     == [tag |-> "status"]
ErrorReply      == [tag |-> "error"]
NilReply        == [tag |-> "nil"]
ArrayReply(s)   == [tag |-> "array", items |-> s]
IntegerReply(k) == [tag |-> "integer", acked |-> k]
AcksReply(l, k) == [tag |-> "acks", local |-> l, acked |-> k]

Replies == [tag : {"status", "error", "nil"}]
           \cup [tag : {"value"}, val : Commands]
           \cup [tag : {"array"}, items : Seq(Values)]
           \cup [tag : {"integer"}, acked : Nat]
           \cup [tag : {"acks"}, local : Nat, acked : Nat]

\* The acknowledgements a WAIT or WAITAOF reports: the integer, the second
\* element of the array, and 0 for anything else, an error included.
extract_synced_slaves(r) == IF r.tag \in {"integer", "acks"} THEN r.acked ELSE 0

\* A plain pipeline turns a failed command into a nil reply.
unwrap_or_null(r) == IF r.tag = "value" THEN r.val ELSE Null

\* Is this the answer of an EXEC that distribute_exec_results accepts?
IsExecReply(r) == r.tag \in {"array", "nil", "error"}

\* Mutant: the array is consumed from its end.
ExecAnswerReversed(r, i) ==
  CASE r.tag = "array" -> IF i <= Len(r.items) THEN Ok(r.items[Len(r.items) + 1 - i])
                                               ELSE Failure("closed")
    [] r.tag \in {"nil", "error"} -> Failure("failed")
    [] OTHER -> Failure("closed")

\* Mutant: the last element of the array is left out.
ExecAnswerShort(r, i) ==
  CASE r.tag = "array" -> IF i < Len(r.items) THEN Ok(r.items[i])
                                              ELSE Failure("closed")
    [] r.tag \in {"nil", "error"} -> Failure("failed")
    [] OTHER -> Failure("closed")

\* distribute_exec_results: what the i-th sender of the transaction gets.  A
\* sender beyond the end of the array is dropped unsent.
ExecAnswer(r, i) ==
  CASE r.tag = "array" -> IF i <= Len(r.items) THEN Ok(r.items[i])
                                               ELSE Failure("closed")
    [] r.tag \in {"nil", "error"} -> Failure("failed")
    [] OTHER -> Failure("closed")

\* collect_exec_indexed: the replies of an EXEC paired with the indexes of
\* the commands, in order.
collect_exec_indexed(r, indexes) ==
  IF r.tag = "array"
  THEN [i \in 1 .. (IF Len(indexes) <= Len(r.items) THEN Len(indexes)
                                                    ELSE Len(r.items)) |->
          [index |-> indexes[i], val |-> r.items[i]]]
  ELSE <<>>

\* Mutant: the responses stay in the order the nodes answered.
unsorted(s) == [i \in 1 .. Len(s) |-> s[i].val]

\* The place of s[k] when s is sorted by index and equals keep their order.
place(s, k) ==
  Cardinality({j \in DOMAIN s : \/ s[j].index < s[k].index
                                \/ s[j].index = s[k].index /\ j \leq k})

\* all_indexed.sort_by_key, a stable sort, followed by dropping the keys.
sort_by_index(s) ==
  [i \in 1 .. Len(s) |-> s[CHOOSE k \in DOMAIN s : place(s, k) = i].val]
=============================================================================
