---------------------------- MODULE ParsecMeaning ----------------------------
(***************************************************************************)
(* What a parser stands for, without calls, order or backtracking: the     *)
(* places in a text t where a match that starts at i can end.  A choice    *)
(* matches what either side matches and a repetition any number of times.  *)
(***************************************************************************)
EXTENDS Parsec, FiniteSets

RECURSIVE Ends(_, _, _), Repeated(_, _, _, _, _)

\* The ends of k to m matches of p, one after the other, from the places S; m
\* rounds are enough when m is the length of the text and no match is empty.
Repeated(p, t, S, k, m) ==
    (IF k <= 0 THEN S ELSE {})
    \cup IF S = {} \/ m = 0 THEN {}
         ELSE Repeated(p, t, UNION {Ends(p, t, i) : i \in S}, k - 1, m - 1)

Ends(p, t, i) ==
    CASE p.op = "one" -> {j \in {i + 1} : j <= Len(t) /\ t[j] \in p.of}
      [] p.op = "lit" -> {j \in {i + Len(p.s)} : j <= Len(t) /\ SubSeq(t, i + 1, j) = p.s}
      [] p.op = "span" -> Repeated(One(p.of), t, {i}, p.min, Len(t))
      [] p.op \in {"compose", "skip", "joint"} ->
             UNION {Ends(p.b, t, j) : j \in Ends(p.a, t, i)}
      [] p.op = "ends_with" -> {j \in Ends(p.a, t, i) : Ends(p.b, t, j) # {}}
      [] p.op = "choice" -> Ends(p.a, t, i) \cup Ends(p.b, t, i)
      [] p.op = "except" -> {j \in Ends(p.a, t, i) : Ends(p.b, t, i) = {}}
      [] p.op = "optional" -> {i} \cup Ends(p.a, t, i)
      [] p.op = "times" -> Repeated(p.a, t, {i}, p.min,
                               IF p.max = Unbounded THEN Len(t) ELSE p.max)
      [] p.op = "mapfn" -> Ends(p.a, t, i)
      [] p.op = "chainl" -> UNION {Repeated(Joint(p.b, p.a), t, {j}, 0, Len(t)) :
                                   j \in Ends(p.a, t, i)}
      [] p.op = "rule" -> Ends(Rule[p.name], t, i)

-------------------------------------------------------------------------------
\* A parser and its operands, and theirs.
RECURSIVE Parts(_)
Parts(p) == {p} \cup UNION {Parts(p[k]) : k \in DOMAIN p \cap {"a", "b"}}

\* No endless loop of p repeats something that can match without consuming.
Productive(p, t) ==
    LET Moves(q) == \A i \in 0..Len(t) : i \notin Ends(q, t, i)
    IN \A q \in Parts(p) :
        /\ q.op = "times" /\ q.max = Unbounded => Moves(q.a)
        /\ q.op = "chainl" => Moves(Joint(q.b, q.a))

\* No part of p can match in two ways from one place.
Definite(p, t) ==
    \A q \in Parts(p) \ {p}, i \in 0..Len(t) : Cardinality(Ends(q, t, i)) <= 1

-------------------------------------------------------------------------------
\* The state of the calls: places and lengths lie in the text.
TypeOK ==
    /\ \A k \in 1..Len(stack) :
         /\ stack[k].at \in 0..Len(job.text)
         /\ stack[k].n \in 0..Unbounded
         /\ stack[k].len \in -1..Len(job.text)
    /\ ret.len \in -2..Len(job.text)

\* A parser that succeeds has consumed a match: the length it answers is the
\* length of something its grammar derives at the start of the text, whatever
\* was tried and given up before.  Code: the lengths added up and the texts
\* dropped by every operator() of combinator.hpp.
ConsumesAMatch == Status => ret.len \in Ends(job.p, job.text, 0)

\* A parser whose parts can match in one way only fails where nothing matches:
\* giving up the first alternative, or stopping a loop, loses nothing else.
\* Code: the tests for -1 in combinator.hpp.
FailsWithoutMatch ==
    Done /\ Failed /\ Definite(job.p, job.text) => Ends(job.p, job.text, 0) = {}

\* Every application returns when no loop repeats an empty match.  Code: the
\* loops of times and chainl (combinator.hpp:234, 408).
Terminates == <>Done
===============================================================================
