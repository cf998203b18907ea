-------------------------------- MODULE Control --------------------------------
(***************************************************************************)
(* The control flow of the emitted code: statements become labels and      *)
(* jumps (pl0_tac_gen.cpp), the quadruples are cut into blocks             *)
(* (pl0_opt.cpp), and the blocks become text (pl0_x86.cpp), with the stack *)
(* of bases old that is pushed and popped in the order of the text.  Then  *)
(* the text runs, next to what the program says remains to be done.        *)
(***************************************************************************)
EXTENDS Statements

CONSTANTS
    Programs,       \* [nested |-> a sequence of programs, body |-> a statement]
    MaxLoopDepth    \* the longest path of a loop in one of them (fairness only)

VARIABLES
    phase,      \* "tac", "block", "gen", then "idle" and "run"
    prog,       \* the program compiled
    ir,         \* irb: the quadruples
    bbs,        \* the blocks
    text,       \* what is emitted, see One
    pc,         \* position in text
    esp,        \* cells the frame has grown to
    todo        \* what remains to be done

vars == <<phase, prog, ir, bbs, text, pc, esp, todo>>

-------------------------------------------------------------------------------
(* Quadruples.  l is a label, cc the condition of a jump, id and part what *)
(* the quadruple does for which statement, grow the cells it takes.        *)

Quad(op, l) == [op |-> op, l |-> l, cc |-> "", id |-> <<>>, part |-> "", grow |-> 0]
Deeds(op, id, part, grow) == [Quad(op, 0) EXCEPT !.id = id, !.part = part, !.grow = grow]

Label(l) == Quad("label", l)
Merge(l) == Quad("merge", l)        \* a label "allsuffix", behind a call
Jump(l) == Quad("jmp", l)
Cmp(l) == Quad("cmp", l)
Branch(cc, l, id, part) == [Quad("branch", l) EXCEPT !.cc = cc, !.id = id, !.part = part]

\* The builder: st.code are the quadruples so far, st.label the labels used.
Emit(st, qs) == [st EXCEPT !.code = @ \o qs]
Use(st, n) == [st EXCEPT !.label = @ + n]

Call(st, id, part) == Emit(Use(st, 1), <<Deeds("call", id, part, 0), Merge(st.label + 1)>>)

\* pl0_tac_expr(e)
Expr(st, e, id) ==
    CASE e = "var"  -> st
      [] e = "temp" -> Emit(st, <<Deeds("do", id, "value", 1)>>)
      [] e = "call" -> Call(st, id, "value")

\* The definition and the assignment of the copy of a computed value.
Copy(e, id) == IF e = "var" THEN <<>> ELSE <<Quad("def", 0), Deeds("do", id, "copy", 0)>>

\* The jump that leaves when the condition does not hold.
\* (Mutant: "<" does not leave when the operands are equal.)
UnlessOrEqual(op) ==
    CASE op \in {"<", "<="} -> "jg"
      [] op = ">"  -> "jle"
      [] op = ">=" -> "jl"
      [] op = "="  -> "jne"
      [] op = "<>" -> "je"

Unless(op) ==
    CASE op = "<"  -> "jge"
      [] op = "<=" -> "jg"
      [] op = ">"  -> "jle"
      [] op = ">=" -> "jl"
      [] op = "="  -> "jne"
      [] op = "<>" -> "je"

RECURSIVE Stmt(_, _, _)

Compound(st, s, id) ==
    FoldLeft(LAMBDA b, i : Stmt(b, s.ss[i], Append(id, i)), st, [i \in DOMAIN s.ss |-> i])

Cond(st, s, id) ==
    LET then == st.label + 1
        end == st.label + 2
        st1 == Expr(Use(st, 2), s.e, id)
        else == IF s.else = None THEN end ELSE st1.label + 1
        st2 == Emit(IF s.else = None THEN st1 ELSE Use(st1, 1),
                    <<Cmp(then), Branch(Unless(s.op), else, id, "if"), Label(then)>>)
        st3 == Emit(Stmt(st2, s.then, Append(id, 1)), <<Jump(end)>>)
        st4 == IF s.else = None THEN st3
               ELSE Emit(Stmt(Emit(st3, <<Label(else)>>), s.else, Append(id, 2)), <<Jump(end)>>)
    IN Emit(st4, <<Label(end)>>)

\* The arm tested when arm i does not match.  (Mutant: the same one again.)
NextArmSame(i) == i
NextArm(i) == i + 1

\* The labels of the arms follow the label of the end.
Case(st, s, id) ==
    LET n == Len(s.arms)
        st1 == Emit(Expr(st, s.e, id), Copy(s.e, id))
        end == st1.label + 1
        arm(i) == IF i > n THEN end ELSE end + i
        Arm(b, i) ==
            LET t == b.label + 1
                b1 == Emit(Use(b, 1), <<Label(arm(i)), Cmp(t),
                                        Branch("jne", arm(NextArm(i)), id, "arm"), Label(t)>>)
            IN Emit(Stmt(b1, s.arms[i], Append(id, i)), <<Jump(end)>>)
    IN Emit(FoldLeft(Arm, Emit(Use(st1, n + 1), <<Jump(arm(1))>>), [i \in 1..n |-> i]),
            <<Label(end)>>)

For(st, s, id) ==
    LET begin == st.label + 1   front == st.label + 2   inner == st.label + 3
        end == st.label + 4     tail == st.label + 5
        leave == IF s.dir = 1 THEN "jg" ELSE "jl"
        st1 == Emit(Expr(Use(st, 5), s.e, id),
                    <<Cmp(front), Branch(leave, tail, id, "enter"), Label(front)>>
                    \o Copy(s.e, id)
                    \o <<Deeds("do", id, "init", 0), Jump(begin), Label(begin),
                         Cmp(inner), Branch(leave, end, id, "loop"), Label(inner)>>)
    IN Emit(Stmt(st1, s.body, Append(id, 1)),
            <<Deeds("do", id, "step", 0), Jump(begin), Label(end),
              Deeds("do", id, "final", 0), Jump(tail), Label(tail)>>)

Stmt(st, s, id) ==
    CASE s.k = "none" -> st
      [] s.k = "do"   -> Emit(st, <<Deeds("do", id, "", s.grow)>>)
      [] s.k = "call" -> Call(st, id, "")
      [] s.k = "seq"  -> Compound(st, s, id)
      [] s.k = "if"   -> Cond(st, s, id)
      [] s.k = "case" -> Case(st, s, id)
      [] s.k = "for"  -> For(st, s, id)

\* A procedure: a variable, the nested procedures, a label, the body.
RECURSIVE Procedure(_, _, _)
Procedure(st, p, id) ==
    LET st1 == Emit(st, <<Deeds("head", id, "", 0), Quad("def", 0)>>)
        st2 == FoldLeft(LAMBDA b, i : Procedure(b, p.nested[i], Append(id, i)), st1,
                        [i \in DOMAIN p.nested |-> i])
        st3 == Stmt(Emit(Use(st2, 1), <<Label(st2.label + 1)>>), p.body, Append(id, 0))
    IN Emit(st3, <<Deeds("end", id, "", 0)>>)

-------------------------------------------------------------------------------
(* Blocks.  c.p is the position in the code, c.bbs the blocks so far; a    *)
(* header has no label (no = 0).  The suffix of a block are the labels it  *)
(* may continue at; the code records the inverse, prefix, with it.         *)

\* The first position from p on with one of these operations.
First(code, p, ops) == Min({q \in p..Len(code) : code[q].op \in ops})

\* (Mutant: a call does not end a block.)
EndsNotAtCall(code, p) == First(code, p, {"jmp", "branch", "end"})
Ends(code, p) == First(code, p, {"jmp", "branch", "call", "end"})

\* (Mutant: the block behind a call is not recorded.)
SuffixOfJumps(code, p, q) ==
    {code[i].l : i \in {i \in p..q : code[i].op \in {"cmp", "jmp", "branch"}}}
SuffixOf(code, p, q) ==
    {code[i].l : i \in {i \in p..q : code[i].op \in {"cmp", "jmp", "branch"}}}
    \cup IF code[q].op = "call" THEN {code[q + 1].l} ELSE {}

\* The blocks of a body.  Definitions met inside go to the header h.
RECURSIVE Bodies(_, _, _)
Bodies(code, c, h) ==
    IF code[c.p].op = "end"
    THEN [bbs |-> [c.bbs EXCEPT ![Len(c.bbs)].isEnd = TRUE], p |-> c.p + 1]
    ELSE LET q == Ends(code, c.p + 1)
             part == SubSeq(code, c.p, q)
             block == [no |-> code[c.p].l, isEnd |-> FALSE, suffix |-> SuffixOf(code, c.p, q),
                       code |-> SelectSeq(part, LAMBDA e : e.op # "def")]
             defs == SelectSeq(part, LAMBDA e : e.op = "def")
         IN Bodies(code, [bbs |-> Append([c.bbs EXCEPT ![h].code = @ \o defs], block),
                          p |-> IF code[q].op = "end" THEN q ELSE q + 1], h)

RECURSIVE Cut(_, _), Nested(_, _)
Cut(code, c) ==
    LET e == Min({q \in c.p + 1..Len(code) : code[q].op # "def"})
        header == [no |-> 0, isEnd |-> FALSE, suffix |-> {}, code |-> SubSeq(code, c.p, e - 1)]
    IN Bodies(code, Nested(code, [bbs |-> Append(c.bbs, header), p |-> e]), Len(c.bbs) + 1)

Nested(code, c) == IF code[c.p].op = "head" THEN Nested(code, Cut(code, c)) ELSE c

-------------------------------------------------------------------------------
(* Text.  g.old and g.dist are those of the code, dist counted upwards in  *)
(* cells.  Each quadruple is emitted with the cells esp is taken back by   *)
(* before it (add) and dist before it (at); depth is the length of old.    *)

Back(old) == IF old = <<>> THEN 0 ELSE Last(old)
Popped(old) == IF old = <<>> THEN <<>> ELSE Front(old)

Text(g, q, add) ==
    [g EXCEPT !.text = Append(@, [q |-> q, at |-> g.dist, add |-> add, depth |-> Len(g.old)])]

\* What is taken back at a cmp and at a goto.
Excess(g) == IF g.dist > Back(g.old) THEN g.dist - Back(g.old) ELSE 0

\* pl0_x86_gen_common.  (Mutants: a cmp leaves dist alone; the label behind a
\* call pushes too.)
Labelled(g, q) == [Text(g, q, 0) EXCEPT !.old = Append(@, g.dist)]
ComparedKeeps(g, q) == Text(g, q, Excess(g))
Compared(g, q) == [Text(g, q, Excess(g)) EXCEPT !.dist = Back(g.old)]
Left(g, q) == [Text(g, q, Excess(g)) EXCEPT !.dist = Back(g.old), !.old = Popped(@)]
Ended(g, q) == [Text(g, q, 0) EXCEPT !.dist = Back(Popped(g.old)), !.old = Popped(Popped(@))]
Grown(g, q) == [Text(g, q, 0) EXCEPT !.dist = @ + q.grow]

OnePushes(g, q) ==
    CASE q.op \in {"label", "merge"} -> Labelled(g, q)
      [] q.op = "cmp" -> Compared(g, q)
      [] q.op \in {"jmp", "branch"} -> Left(g, q)
      [] q.op = "end" -> Ended(g, q)
      [] OTHER -> Grown(g, q)

One(g, q) ==
    CASE q.op = "label" -> Labelled(g, q)
      [] q.op = "cmp" -> Compared(g, q)
      [] q.op \in {"jmp", "branch"} -> Left(g, q)
      [] q.op = "end" -> Ended(g, q)
      [] OTHER -> Grown(g, q)

\* pl0_x86_gen_blocks: the header is opened, the nested functions are emitted,
\* then the header, then the blocks up to the last one of the function.
\* The display is one cell.
Opened(g, header) == [g EXCEPT !.old = Append(@, g.dist), !.dist = Len(header.code)]

RECURSIVE GenBodies(_, _), GenBlocks(_, _), GenNested(_, _)
GenBodies(bs, g) ==
    LET g1 == [FoldLeft(One, g, bs[g.bp].code) EXCEPT !.bp = @ + 1]
    IN IF bs[g.bp].isEnd \/ g1.bp > Len(bs) \/ bs[g1.bp].no = 0 THEN g1 ELSE GenBodies(bs, g1)
GenNested(bs, g) ==
    IF g.bp <= Len(bs) /\ bs[g.bp].no = 0 THEN GenNested(bs, GenBlocks(bs, g)) ELSE g
GenBlocks(bs, g) ==
    LET header == bs[g.bp]
        g1 == GenNested(bs, [Opened(g, header) EXCEPT !.bp = @ + 1])
    IN GenBodies(bs, Text(g1, Head(header.code), 0))

-------------------------------------------------------------------------------
(* The passes, in the order of main.                                       *)

Init ==
    /\ phase = "tac" /\ prog \in Programs
    /\ ir = <<>> /\ bbs = <<>> /\ text = <<>>
    /\ pc = 0 /\ esp = 0 /\ todo = <<>>

TacProgram ==
    /\ phase = "tac" /\ phase' = "block"
    /\ ir' = Procedure([code |-> <<>>, label |-> 0], prog, <<>>).code
    /\ UNCHANGED <<prog, bbs, text, pc, esp, todo>>

BlockPass ==
    /\ phase = "block" /\ phase' = "gen"
    /\ bbs' = Cut(ir, [bbs |-> <<>>, p |-> 1]).bbs
    /\ UNCHANGED <<prog, ir, text, pc, esp, todo>>

Gen ==
    /\ phase = "gen" /\ phase' = "idle"
    /\ text' = GenBlocks(bbs, [old |-> <<>>, dist |-> 0, text |-> <<>>, bp |-> 1]).text
    /\ UNCHANGED <<prog, ir, bbs, pc, esp, todo>>

-------------------------------------------------------------------------------
(* The text runs, one of its functions at a time.                          *)

Here == text[pc].q
Target(l) == Min({i \in DOMAIN text : text[i].q.op = "label" /\ text[i].q.l = l} \cup {Len(text) + 1})

\* The statement of a path, from the program down.
RECURSIVE Function(_, _)
Function(p, id) == IF id = <<>> THEN p ELSE Function(p.nested[Head(id)], Tail(id))

Start ==
    /\ phase = "idle" /\ phase' = "run"
    /\ \E i \in DOMAIN text :
         /\ text[i].q.op = "head"
         /\ pc' = i + 1 /\ esp' = text[i].at
         /\ todo' = Ready(Sub(Function(prog, text[i].q.id).body, text[i].q.id, 0))
    /\ UNCHANGED <<prog, ir, bbs, text>>

Running(op) == phase = "run" /\ pc \in DOMAIN text /\ Here.op = op

Step(op, next, work) ==
    /\ Running(op)
    /\ pc' = next /\ todo' = work
    /\ esp' = esp - text[pc].add + Here.grow
    /\ UNCHANGED <<phase, prog, ir, bbs, text>>

Pass == \E op \in {"label", "merge", "cmp"} : Step(op, pc + 1, todo)
Perform == \E op \in {"do", "call"} : Step(op, pc + 1, Done(todo))
Jmp == Step("jmp", Target(Here.l), todo)

\* The conditional jumps of the processor.
Taken(cc, r) ==
    r \in CASE cc = "jge" -> {"gt", "eq"}
            [] cc = "jg"  -> {"gt"}
            [] cc = "jle" -> {"lt", "eq"}
            [] cc = "jl"  -> {"lt"}
            [] cc = "jne" -> {"lt", "gt"}
            [] cc = "je"  -> {"eq"}

Compare(r) ==
    Step("branch", IF Taken(Here.cc, r) THEN Target(Here.l) ELSE pc + 1, Chosen(todo, r))
Jcc == \E r \in Comparison : Compare(r)

\* leave, ret
Return ==
    /\ Running("end") /\ phase' = "idle"
    /\ pc' = 0 /\ esp' = 0 /\ todo' = <<>>
    /\ UNCHANGED <<prog, ir, bbs, text>>

Next == TacProgram \/ BlockPass \/ Gen \/ Start \/ Pass \/ Perform \/ Jmp \/ Jcc \/ Return

Spec == Init /\ [][Next]_vars

\* The processor goes on, and a loop that is tested again and again is left in
\* the end: its variable moves towards its bound.  Loops are told apart by how
\* deep they are nested; those of one depth follow each other.
LeaveLoop(depth) ==
    /\ todo # <<>> /\ Head(todo).part = "loop" /\ Len(Head(todo).id) = depth
    /\ \E r \in Comparison : ~Holds(Relation(Head(todo)), r) /\ Compare(r)
Fairness == /\ WF_vars(Pass \/ Perform \/ Jmp \/ Jcc \/ Return)
            /\ \A depth \in 1..MaxLoopDepth : SF_vars(LeaveLoop(depth))
FairSpec == Spec /\ Fairness
-------------------------------------------------------------------------------
QuadOk(q) ==
    /\ q.op \in {"head", "end", "def", "do", "call", "label", "merge", "cmp", "jmp", "branch"}
    /\ q.l \in Nat /\ q.grow \in Nat

\* The types of the variables.
TypeOK ==
    /\ phase \in {"tac", "block", "gen", "idle", "run"}
    /\ \A i \in DOMAIN ir : QuadOk(ir[i])
    /\ \A b \in DOMAIN bbs : bbs[b].no \in Nat /\ bbs[b].isEnd \in BOOLEAN
    /\ \A i \in DOMAIN text : QuadOk(text[i].q) /\ text[i].at \in Nat /\ text[i].add \in Nat
    /\ pc \in 0..Len(text) /\ esp \in Nat
    /\ \A i \in DOMAIN todo : todo[i].k \in {"do", "test", "stmt"}

\* Whatever the outcomes of its tests, the code does what the program says in the
\* order the program says it, and returns when nothing is left to be done.
FollowsProgram ==
    phase = "run" =>
        /\ Here.op \in {"do", "call"} =>
             todo # <<>> /\ Head(todo).k = "do" /\ <<Head(todo).id, Head(todo).part>> = <<Here.id, Here.part>>
        /\ Here.op = "branch" =>
             todo # <<>> /\ Head(todo).k = "test" /\ <<Head(todo).id, Head(todo).part>> = <<Here.id, Here.part>>
        /\ Here.op = "end" => todo = <<>>

\* Wherever control comes from, esp is where the generator believed it to be when
\* it emitted the instruction, although it only followed the order of the text.
EspFollowsText == phase = "run" => esp = text[pc].at

\* Between a cmp and the jump that tests it nothing is taken back: add would
\* set the flags.
FlagsSurvive ==
    phase = "idle" => \A i \in DOMAIN text : text[i].q.op = "branch" => text[i].add = 0

\* old, which follows the text, holds at each label the bases of the enclosing
\* functions and of this one, and inside a block its own as well: it is never
\* popped when empty, and never yields the base of another function.
Owner(i) == text[Min({j \in i..Len(text) : text[j].q.op = "end"})].q.id
OldPaired ==
    phase = "idle" =>
        \A i \in DOMAIN text :
            text[i].depth = Len(Owner(i)) + IF text[i].q.op \in {"head", "label"} THEN 1 ELSE 2

\* Blocks begin at a label or behind a call and end at the first jump, call or
\* end, and every quadruple but the definitions stays where it was.
BlocksCoverCode ==
    phase = "idle" =>
        /\ \A b \in DOMAIN bbs : bbs[b].no # 0 =>
             /\ Head(bbs[b].code).op \in {"label", "merge"}
             /\ \A i \in DOMAIN bbs[b].code :
                  /\ i > 1 => bbs[b].code[i].op \notin {"label", "merge", "head", "def"}
                  /\ i < Len(bbs[b].code) => bbs[b].code[i].op \notin {"jmp", "branch", "call", "end"}
        /\ SelectSeq(FlattenSeq([b \in DOMAIN bbs |-> bbs[b].code]), LAMBDA q : q.op # "def")
             = SelectSeq(ir, LAMBDA q : q.op # "def")

\* The successors recorded for a block are those control can go to.
BlockAt(i) == text[Max({j \in 1..i : text[j].q.op \in {"label", "merge"}})].q.l
EdgesKnown ==
    [][phase = "run" /\ phase' = "run" /\ Here'.op \in {"label", "merge"}
        => \E b \in DOMAIN bbs : bbs[b].no = BlockAt(pc) /\ Here'.l \in bbs[b].suffix]_vars

\* A routine that is called returns once its loops are left: the labels and gotos
\* of if, case and for make no other cycle.
Returns == phase = "run" ~> phase = "idle"
===============================================================================
