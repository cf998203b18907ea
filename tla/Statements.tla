------------------------------ MODULE Statements ------------------------------
(***************************************************************************)
(* What a structured program does, without labels and jumps.               *)
(*                                                                         *)
(* A statement is                                                          *)
(*   [k |-> "do", grow]          an assignment, read or write; grow: the   *)
(*                               temporaries that are spilled meanwhile    *)
(*   [k |-> "call"]              a procedure call                          *)
(*   [k |-> "seq", ss]           begin ... end                             *)
(*   [k |-> "if", op, e, then, else]     else may be None                  *)
(*   [k |-> "case", e, arms]                                               *)
(*   [k |-> "for", dir, e, body]         dir 1 for "to", -1 for "downto"   *)
(* and an expression e is "var" (nothing to compute), "temp" (computed     *)
(* into a temporary) or "call" (a function is called).                     *)
(*                                                                         *)
(* A statement is known by its path in the program.  What remains to be    *)
(* done is a sequence of work: deeds, tests, and statements not begun.     *)
(***************************************************************************)
EXTENDS Integers, SequencesExt

None == [k |-> "none"]

Work(k, id, part, s, i) == [k |-> k, id |-> id, part |-> part, s |-> s, i |-> i]

Deed(id, part) == <<Work("do", id, part, None, 0)>>
Test(id, part, s, i) == <<Work("test", id, part, s, i)>>
Sub(s, id, i) == <<Work("stmt", Append(id, i), "", s, 0)>>

\* The value of an expression is computed; a computed one is copied where it is
\* needed more than once.
Evaluated(e, id) == IF e = "var" THEN <<>> ELSE Deed(id, "value")
Copied(e, id) == IF e = "var" THEN <<>> ELSE Deed(id, "copy")

\* Comparing two numbers gives "lt", "eq" or "gt".
Comparison == {"lt", "eq", "gt"}
Holds(op, r) ==
    r \in CASE op = "<"  -> {"lt"}
            [] op = "<=" -> {"lt", "eq"}
            [] op = ">"  -> {"gt"}
            [] op = ">=" -> {"gt", "eq"}
            [] op = "="  -> {"eq"}
            [] op = "<>" -> {"lt", "gt"}

\* The relation a test is about.
Relation(w) ==
    CASE w.s.k = "if"   -> w.s.op
      [] w.s.k = "case" -> "="
      [] w.s.k = "for"  -> IF w.s.dir = 1 THEN "<=" ELSE ">="

Begun(w) ==
    CASE w.s.k \in {"do", "call"} -> Deed(w.id, "")
      [] w.s.k = "none" -> <<>>
      [] w.s.k = "seq"  -> FlattenSeq([i \in DOMAIN w.s.ss |-> Sub(w.s.ss[i], w.id, i)])
      [] w.s.k = "if"   -> Evaluated(w.s.e, w.id) \o Test(w.id, "if", w.s, 0)
      [] w.s.k = "case" -> Evaluated(w.s.e, w.id) \o Copied(w.s.e, w.id) \o Test(w.id, "arm", w.s, 1)
      [] w.s.k = "for"  -> Evaluated(w.s.e, w.id) \o Test(w.id, "enter", w.s, 0)

\* What a test leads to.
Decided(w, yes) ==
    CASE w.part = "if"    -> IF yes THEN Sub(w.s.then, w.id, 1) ELSE Sub(w.s.else, w.id, 2)
      [] w.part = "arm"   -> IF yes THEN Sub(w.s.arms[w.i], w.id, w.i)
                             ELSE IF w.i = Len(w.s.arms) THEN <<>>
                             ELSE Test(w.id, "arm", w.s, w.i + 1)
      [] w.part = "enter" -> IF yes THEN Copied(w.s.e, w.id) \o Deed(w.id, "init") \o Test(w.id, "loop", w.s, 0)
                             ELSE <<>>
      [] w.part = "loop"  -> IF yes THEN Sub(w.s.body, w.id, 1) \o Deed(w.id, "step") \o Test(w.id, "loop", w.s, 0)
                             ELSE Deed(w.id, "final")

\* Statements are begun until the next deed or test comes first.
RECURSIVE Ready(_)
Ready(todo) ==
    IF todo # <<>> /\ Head(todo).k = "stmt" THEN Ready(Begun(Head(todo)) \o Tail(todo)) ELSE todo

\* The work that remains after the first deed, and after the first test.
Done(todo) == IF todo = <<>> THEN todo ELSE Ready(Tail(todo))
Chosen(todo, r) ==
    IF todo = <<>> \/ Head(todo).k # "test" THEN todo
    ELSE Ready(Decided(Head(todo), Holds(Relation(Head(todo)), r)) \o Tail(todo))
===============================================================================
