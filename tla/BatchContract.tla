---------------------------- MODULE BatchContract ----------------------------
(***************************************************************************)
(* What a batch promises to the callers of async0, whatever nodes, tasks,  *)
(* scripts and connections it goes through: commands are added at any      *)
(* time; execute_async or discard_async closes the batch, once; the        *)
(* commands that were there when it was closed are taken together; a       *)
(* command is answered once, with its own reply only if Redis ran it, or   *)
(* with an error; Ok is returned when all that were taken are answered,    *)
(* and after an error the others may still run and be answered.            *)
(*                                                                         *)
(* moved is the exception: when a slot moves under a transaction the       *)
(* replies go to whoever they go to.                                       *)
(***************************************************************************)
EXTENDS BatchReplies

VARIABLES
  state,  \* of the batch
  added,  \* the commands whose async0 put them in the batch
  taken,  \* those that execute_async took
  ran,    \* those that Redis ran
  told,   \* the answer each caller has
  moved

vars == <<state, added, taken, ran, told, moved>>

Init ==
  /\ state = "open"
  /\ added = {}
  /\ taken = {}
  /\ ran = {}
  /\ told = [c \in Commands |-> NoAnswer]
  /\ moved = FALSE

Become(from, to) == state = from /\ state' = to

\* The batch does not refuse commands after it was closed.
Add(c) ==
  /\ c \notin added
  /\ added' = added \cup {c}
  /\ UNCHANGED <<state, taken, ran, told, moved>>

Move ==
  /\ ~moved
  /\ moved' = TRUE
  /\ UNCHANGED <<state, added, taken, ran, told>>

Close ==
  /\ Become("open", "claimed") \/ Become("open", "discarding")
  /\ UNCHANGED <<added, taken, ran, told, moved>>

Discard ==
  /\ Become("discarding", "discarded")
  /\ told' = [c \in Commands |-> IF c \in added THEN Failure("discarded") ELSE told[c]]
  /\ UNCHANGED <<added, taken, ran, moved>>

Take ==
  /\ Become("claimed", IF added = {} THEN "ok" ELSE "executing")
  /\ taken' = added
  /\ UNCHANGED <<added, ran, told, moved>>

Run ==
  /\ state \in {"executing", "failed"}
  /\ ran' \in {ran \cup S : S \in SUBSET taken}
  /\ UNCHANGED <<state, added, taken, told, moved>>

\* May the caller of c be told a?
Truthful(c, a) ==
  /\ a.tag \in {"ok", "failed", "closed"}
  /\ a.val # Null => moved \/ (a.val = c /\ c \in ran)

\* Some of the taken commands get the answer they have been waiting for.
Tells(Allowed(_, _)) ==
  told' \in {f \in [Commands -> Answers] :
    \A c \in Commands :
      f[c] # told[c] => c \in taken /\ told[c] = NoAnswer /\ Allowed(c, f[c])}

Tell ==
  /\ state \in {"executing", "failed"}
  /\ Tells(Truthful)
  /\ UNCHANGED <<state, added, taken, ran, moved>>

\* The last answers may come with it.
Return ==
  /\ Become("executing", "ok")
  /\ Tells(Truthful)
  /\ \A c \in taken : told'[c] # NoAnswer
  /\ UNCHANGED <<added, taken, ran, moved>>

\* The error drops senders.
Fail ==
  /\ Become("executing", "failed")
  /\ Tells(LAMBDA c, a : a = Failure("closed"))
  /\ UNCHANGED <<added, taken, ran, moved>>

Next ==
  \/ \E c \in Commands : Add(c)
  \/ Move \/ Close \/ Discard \/ Take \/ Run \/ Tell \/ Return \/ Fail

Spec == Init /\ [][Next]_vars
==============================================================================
