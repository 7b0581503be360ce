-------------------------------- MODULE Glob ---------------------------------
(***************************************************************************)
(* redis_glob_matches of publish_subscribe_service.rs, which decides on    *)
(* the client which listeners a message is for, and what it ought to       *)
(* compute.  Patterns and texts are sequences of characters.               *)
(***************************************************************************)
EXTENDS Integers, Sequences

\* Mutant: a question mark matches no character as well.
glob_innerLoose(p, t) ==
  LET match[pi \in 1 .. Len(p) + 1] ==
        {ti \in 1 .. Len(t) + 1 :
           IF pi > Len(p) THEN ti > Len(t)
           ELSE IF p[pi] = "*" THEN \E i \in ti .. Len(t) + 1 : i \in match[pi + 1]
           ELSE \/ p[pi] = "?" /\ ti \in match[pi + 1]
                \/ ti \leq Len(t) /\ p[pi] \in {"?", t[ti]} /\ ti + 1 \in match[pi + 1]}
  IN 1 \in match[1]

\* match: for every pi, the ti from which the rest of t matches that of p.
glob_inner(p, t) ==
  LET match[pi \in 1 .. Len(p) + 1] ==
        {ti \in 1 .. Len(t) + 1 :
           IF pi > Len(p) THEN ti > Len(t)
           ELSE IF p[pi] = "*" THEN \E i \in ti .. Len(t) + 1 : i \in match[pi + 1]
           ELSE ti \leq Len(t) /\ p[pi] \in {"?", t[ti]} /\ ti + 1 \in match[pi + 1]}
  IN 1 \in match[1]

redis_glob_matches(pattern, text) == glob_inner(pattern, text)

\* The text can be cut into one piece for each character of the pattern: any
\* piece for a star, a piece of one character for a question mark, and the
\* character itself for any other.
Matches(pattern, text) ==
  \E cut \in [0 .. Len(pattern) -> 0 .. Len(text)] :
    /\ cut[0] = 0 /\ cut[Len(pattern)] = Len(text)
    /\ \A n \in 1 .. Len(pattern) :
         IF pattern[n] = "*" THEN cut[n - 1] \leq cut[n]
         ELSE /\ cut[n] = cut[n - 1] + 1
              /\ pattern[n] \in {"?", text[cut[n]]}
==============================================================================
