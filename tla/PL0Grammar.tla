------------------------------ MODULE PL0Grammar ------------------------------
(***************************************************************************)
(* The language of pl0_grammar.ebnf, as the comments of pl0_parser.cpp     *)
(* state its rules: what a sequence of tokens derives, whatever the order  *)
(* in which alternatives are written and wherever a repetition stops.      *)
(*                                                                         *)
(* A token is a sequence of pieces: a whole word, a whole number, a sign   *)
(* of one or two pieces, a character or a string with its quotes.  Where   *)
(* one token ends and the next begins is decided before the grammar is     *)
(* looked at, by taking the longest token, and blanks only separate.       *)
(***************************************************************************)
EXTENDS PL0Parser, FiniteSets

TwoSigns == {<<":", "=">>, <<"<", "=">>, <<"<", ">">>, <<">", "=">>}

\* The longest prefix of t from place i whose pieces are in S.
PrefixIn(t, i, S) ==
    LET k == CHOOSE k \in 0..(Len(t) - i) :
                 /\ \A j \in 1..k : t[i + j] \in S
                 /\ i + k = Len(t) \/ t[i + k + 1] \notin S
    IN SubSeq(t, i + 1, i + k)

\* The token of t that starts at place i (which is not blank).
TokenAt(t, i) ==
    LET two == SubSeq(t, i + 1, i + 2)
        three == SubSeq(t, i + 1, i + 3)
        quoted == PrefixIn(t, i + 1, Alphas \cup Digits \cup (Signs \ {"\""}) \cup {Blank})
    IN CASE t[i + 1] \in Alphas -> PrefixIn(t, i, Alphas \cup Digits)
         [] t[i + 1] \in Digits -> PrefixIn(t, i, Digits)
         [] t[i + 1] = "'" /\ Len(t) >= i + 3 /\ t[i + 3] = "'" -> three
         [] t[i + 1] = "\"" /\ i + 1 + Len(quoted) < Len(t) ->
                << "\"" >> \o quoted \o << "\"" >>
         [] i + 2 <= Len(t) /\ two \in TwoSigns -> two
         [] OTHER -> SubSeq(t, i + 1, i + 1)

RECURSIVE Tokens(_, _)
Tokens(t, i) ==
    IF i >= Len(t) THEN <<>>
    ELSE IF t[i + 1] = Blank THEN Tokens(t, i + 1)
    ELSE << TokenAt(t, i) >> \o Tokens(t, i + Len(TokenAt(t, i)))

-------------------------------------------------------------------------------
\* Right-hand sides of rules.
T(t)      == [op |-> "t", tok |-> t]               \* a terminal of the tree's shape only
K(S)      == [op |-> "k", toks |-> S]              \* a terminal the tree keeps
Class(c)  == [op |-> "class", of |-> c]
Seq_(es)  == [op |-> "seq", es |-> es]
Alt(es)   == [op |-> "alt", es |-> es]
Star(e)   == [op |-> "star", e |-> e]
Maybe(e)  == Alt(<<Seq_(<<>>), e>>)
R(r)      == [op |-> "r", name |-> r]
List(e, s) == Seq_(<<e, Star(Seq_(<<T(s), e>>))>>)
Plus(e)   == Seq_(<<e, Star(e)>>)
Sign(c)   == T(<<c>>)
Word(w)   == T(<<w>>)

Is(c, t) ==
    CASE c = "identifier" -> t[1] \in Alphas /\ t \notin Keywords
      [] c = "number" -> t[1] \in Digits
      [] c = "character" -> Len(t) = 3 /\ t[1] = "'" /\ t[2] \in Letters \cup Digits
      [] c = "string" -> Len(t) > 1 /\ t[1] = "\""

\* What the tree keeps of such a token: nothing of its quotes.
Kept(c, t) ==
    CASE c = "identifier" -> Node("fn", Spelt(t))
      [] c = "number" -> Node("fn", Spelt(t))
      [] c = "character" -> Spelt(SubSeq(t, 2, 2))
      [] c = "string" -> Node("vec2str", Spelt(SubSeq(t, 2, Len(t) - 1)))

Grammar == LET
    Id == R("pl0_identify")  Expr == R("pl0_expression")  Stmt == R("pl0_stmt")
    Decl(header) == Plus(Seq_(<<R(header), R("pl0_prog"), Sign(";")>>))
    Params == Maybe(R("pl0_param_list"))
    CallOf == Seq_(<<Id, Maybe(R("pl0_arg_list"))>>)
  IN
       "pl0_program" :> Seq_(<<R("pl0_prog"), Sign(".")>>)
    @@ "pl0_prog" :> Seq_(<<Maybe(R("pl0_const_stmt")), Maybe(R("pl0_var_stmt")),
                            Star(R("pl0_executable")), R("pl0_compound_stmt")>>)
    @@ "pl0_char" :> Class("character")
    @@ "pl0_charseq" :> Class("string")
    @@ "pl0_unsigned" :> Class("number")
    @@ "pl0_const" :> Alt(<<Seq_(<<K({<<"+">>, <<"-">>}), R("pl0_unsigned")>>),
                            R("pl0_unsigned"), R("pl0_char")>>)
    @@ "pl0_identify" :> Class("identifier")
    @@ "pl0_primitive_type" :> K({<<"integer">>, <<"char">>})
    @@ "fn" :> R("pl0_primitive_type")               \* a type that is no array
    @@ "pl0_type" :> Alt(<<R("fn"),
                           Seq_(<<Word("array"), Sign("["), R("pl0_unsigned"), Sign("]"),
                                  Word("of"), R("pl0_primitive_type")>>)>>)
    @@ "pl0_var_define" :> Seq_(<<List(Id, <<",">>), Sign(":"), R("pl0_type")>>)
    @@ "pl0_var_stmt" :> Seq_(<<Word("var"), Plus(Seq_(<<R("pl0_var_define"), Sign(";")>>))>>)
    @@ "pl0_const_define" :> Seq_(<<Id, Sign("="), R("pl0_const")>>)
    @@ "pl0_const_stmt" :> Seq_(<<Word("const"), List(R("pl0_const_define"), <<",">>),
                                  Sign(";")>>)
    @@ "pl0_param_group" :> Seq_(<<Maybe(K({<<"var">>})), List(Id, <<",">>), Sign(":"),
                                   R("pl0_primitive_type")>>)
    @@ "pl0_param_list" :> Seq_(<<Sign("("), List(R("pl0_param_group"), <<";">>), Sign(")")>>)
    @@ "pl0_procedure_header" :> Seq_(<<Word("procedure"), Id, Params, Sign(";")>>)
    @@ "pl0_function_header" :> Seq_(<<Word("function"), Id, Params, Sign(":"),
                                       R("pl0_primitive_type"), Sign(";")>>)
    @@ "pl0_procedure_stmt" :> Decl("pl0_procedure_header")
    @@ "pl0_function_stmt" :> Decl("pl0_function_header")
    @@ "pl0_executable" :> Alt(<<R("pl0_function_stmt"), R("pl0_procedure_stmt")>>)
    @@ "pl0_addop" :> K({<<"+">>, <<"-">>})
    @@ "pl0_multop" :> K({<<"*">>, <<"/">>, <<"%">>})
    @@ "pl0_expression" :> Seq_(<<Maybe(R("pl0_addop")), R("pl0_term"),
                                  Star(Seq_(<<R("pl0_addop"), R("pl0_term")>>))>>)
    @@ "pl0_arg_list" :> Seq_(<<Sign("("), List(R("pl0_arg"), <<",">>), Sign(")")>>)
    @@ "pl0_arg" :> Expr
    @@ "pl0_call_func" :> CallOf
    @@ "pl0_term" :> Seq_(<<R("pl0_factor"), Star(Seq_(<<R("pl0_multop"), R("pl0_factor")>>))>>)
    \* An identifier alone is derived as a call without arguments.
    @@ "pl0_factor" :> Alt(<<Seq_(<<Id, Sign("["), Expr, Sign("]")>>),
                             Seq_(<<Sign("("), Expr, Sign(")")>>),
                             R("pl0_unsigned"), R("pl0_call_func")>>)
    @@ "pl0_comp_op" :> K({<<"<", "=">>, <<"<", ">">>, <<">", "=">>, <<"<">>, <<">">>, <<"=">>})
    @@ "pl0_condition" :> Seq_(<<Expr, R("pl0_comp_op"), Expr>>)
    @@ "pl0_assign_stmt" :> Seq_(<<Id, Maybe(Seq_(<<Sign("["), Expr, Sign("]")>>)),
                                   T(<<":", "=">>), Expr>>)
    @@ "pl0_cond_stmt" :> Seq_(<<Word("if"), R("pl0_condition"), Word("then"), Stmt,
                                 Maybe(Seq_(<<Word("else"), Stmt>>))>>)
    @@ "pl0_case_term" :> Seq_(<<R("pl0_const"), Sign(":"), Stmt>>)
    @@ "pl0_case_stmt" :> Seq_(<<Word("case"), Expr, Word("of"),
                                 List(R("pl0_case_term"), <<";">>), Word("end")>>)
    @@ "pl0_for_stmt" :> Seq_(<<Word("for"), Id, T(<<":", "=">>), Expr,
                                K({<<"do", "wnto">>, <<"to">>}), Expr, Word("do"), Stmt>>)
    @@ "pl0_call_proc" :> CallOf
    @@ "pl0_compound_stmt" :> Seq_(<<Word("begin"), List(Stmt, <<";">>), Word("end")>>)
    @@ "pl0_read_stmt" :> Seq_(<<Word("read"), Sign("("), List(Id, <<",">>), Sign(")")>>)
    @@ "pl0_write_stmt" :> Seq_(<<Word("write"), Sign("("),
                                  Alt(<<Seq_(<<R("pl0_charseq"), Sign(","), Expr>>),
                                        R("pl0_charseq"), Expr>>), Sign(")")>>)
    @@ "pl0_stmt" :> Alt(<<R("pl0_assign_stmt"), R("pl0_cond_stmt"), R("pl0_case_stmt"),
                           R("pl0_call_proc"), R("pl0_compound_stmt"), R("pl0_read_stmt"),
                           R("pl0_write_stmt"), R("pl0_for_stmt"), Seq_(<<>>)>>)

-------------------------------------------------------------------------------
\* The derivations of e from the tokens ts after the first i: where they end
\* and the trees they build.
RECURSIVE Derive(_, _, _), Along(_, _, _), Closure(_, _, _)

Then(ds, e, ts) ==
    UNION {{[at |-> n.at, val |-> d.val \o n.val] : n \in Derive(e, ts, d.at)} : d \in ds}

\* The sequence es, continued from each derivation of ds.
Along(es, ts, ds) ==
    IF es = <<>> \/ ds = {} THEN ds ELSE Along(Tail(es), ts, Then(ds, Head(es), ts))

Closure(e, ts, ds) ==
    LET more == Then(ds, e, ts) IN IF more = {} THEN ds ELSE ds \cup Closure(e, ts, more)

Derive(e, ts, i) ==
    LET here == {[at |-> i, val |-> <<>>]}
        next == IF i < Len(ts) THEN {ts[i + 1]} ELSE {}
    IN CASE e.op = "t" -> {[at |-> i + 1, val |-> <<>>] : t \in next \cap {e.tok}}
         [] e.op = "k" -> {[at |-> i + 1, val |-> Spelt(t)] : t \in next \cap e.toks}
         [] e.op = "class" ->
                {[at |-> i + 1, val |-> Kept(e.of, t)] : t \in {u \in next : Is(e.of, u)}}
         [] e.op = "seq" -> Along(e.es, ts, here)
         [] e.op = "alt" -> UNION {Derive(e.es[k], ts, i) : k \in DOMAIN e.es}
         [] e.op = "star" -> Closure(e.e, ts, here)
         [] e.op = "r" -> {[at |-> d.at, val |-> Node(e.name, d.val)] :
                           d \in Derive(Grammar[e.name], ts, i)}

\* The trees of the first n pieces of the text, read as one phrase of the rule
\* the job applies.
Trees(n) ==
    LET ts == Tokens(SubSeq(job.text, 1, n), 0)
    IN {d.val : d \in {e \in Derive(R(job.p.name), ts, 0) : e.at = Len(ts)}}

-------------------------------------------------------------------------------
\* A parser that succeeds has consumed a phrase of its rule, and its syntax
\* tree is one the grammar gives that phrase: no operator of >>, <<, + and |
\* drops a child, takes too much or skips a token.  Code: the rules of
\* pl0_parser.cpp against the comments above them.
BuildsAPhrase == Status => ret.val \in Trees(ret.len)

\* A text that is a phrase as a whole is taken to its end: no alternative that
\* succeeds too early, no repetition that goes too far and no blank makes the
\* parser miss it.  Code: the order of the alternatives in pl0_parser.cpp.
TakesWholePhrases == Done /\ Trees(Len(job.text)) # {} => Status /\ Strict

\* A rule calls itself only with less text: the recursion of the parsers is
\* bounded by the text.  Code: the order of the calls in pl0_parser.cpp.
NoLeftRecursion ==
    \A k, l \in 1..Len(stack) :
        k < l /\ stack[k].p.op = "rule" /\ stack[k].p = stack[l].p =>
            stack[k].at < stack[l].at

\* Every text is parsed or refused.  Code: the loops of ++ and >= over rules.
ParserReturns == <>Done
===============================================================================
