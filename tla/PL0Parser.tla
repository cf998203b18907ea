------------------------------ MODULE PL0Parser ------------------------------
(***************************************************************************)
(* The parsers of pl0_parser.cpp, one operator per rule, written with the  *)
(* combinators of Parsec as the code writes them, and the four functions   *)
(* that do more than call a combinator.                                    *)
(*                                                                         *)
(* A text is a sequence of pieces.  A piece is a letter, a digit, a sign,  *)
(* a blank, or one of the words the code looks for as a literal, which     *)
(* counts as a run of letters ("downto" is two pieces, since "do" starts   *)
(* it): "var" followed by "x" is the identifier varx.                      *)
(***************************************************************************)
EXTENDS Parsec

Digits == {"0", "1"}
Letters == {"x", "y"}
Words == {"begin", "end", "for", "do", "wnto", "to", "if", "then", "else", "case",
          "const", "var", "array", "of", "integer", "char", "procedure", "function",
          "read", "write"}
Alphas == Letters \cup Words
Signs == {".", ",", ";", ":", "=", "<", ">", "+", "-", "*", "/", "%", "(", ")", "[", "]",
          "'", "\""}
Blank == " "

Keywords == {<<w>> : w \in Words \ {"wnto", "procedure", "function", "read", "write"}}
            \cup {<<"do", "wnto">>}

-------------------------------------------------------------------------------
\* Short forms of the code.
spaces == Span({Blank}, 0)
Spaced(p) == Skip(Compose(spaces, p), spaces)      \* spaces >> p << spaces
C(c) == Lit(<<c>>)                                 \* pl0_character
W(w) == Lit(<<w>>)                                 \* pl0_string_literal
Between(a, p, b) == Skip(Compose(C(a), p), C(b))   \* a >> p << b

\* Parsers that are functions of their own (see the steps below).
NotKeyword(p) == [op |-> "not_keyword", a |-> p]
IfThenElse(p, q, r, again) ==
    [op |-> "if", a |-> p, b |-> q, c |-> r, again |-> again]
Group(p, q) == [op |-> "group", a |-> p, b |-> q]

pl0_program == Spaced(Skip(Call("pl0_prog"), C(".")))
pl0_prog == Spaced(Joint(Joint(Opt(Call("pl0_const_stmt")), Opt(Call("pl0_var_stmt"))),
                         Joint(Many(Call("pl0_executable")), Call("pl0_compound_stmt"))))

\* Declarations.
pl0_char == Spaced(Between("'", Choice(One(Digits), One(Letters)), "'"))
pl0_charseq ==
    Spaced(MapFn(Between("\"", Many(Except(One(Alphas \cup Digits \cup Signs \cup {Blank}),
                                           C("\""))), "\""), "vec2str"))
pl0_unsigned == MapFn(Spaced(Span(Digits, 1)), "fn")
pl0_const ==
    IfThenElse(Spaced(Choice(C("+"), C("-"))), Call("pl0_unsigned"),
               Choice(Call("pl0_unsigned"), Call("pl0_char")), FALSE)
pl0_identify ==
    NotKeyword(Spaced(MapFn(Joint(One(Alphas), Span(Alphas \cup Digits, 0)), "fn")))
pl0_primitive_type == Spaced(Choice(W("integer"), W("char")))
pl0_type ==
    Spaced(Choice(MapFn(Call("pl0_primitive_type"), "fn"),
                  Joint(Skip(Skip(Compose(Compose(W("array"), spaces),
                                          Between("[", Call("pl0_unsigned"), "]")),
                                  spaces), W("of")),
                        Call("pl0_primitive_type"))))
\* Mutant: the names are dropped instead of the colon.
pl0_var_defineDropsNames == Spaced(Compose(SepBy1(Call("pl0_identify"), C(",")),
                                           Compose(C(":"), Call("pl0_type"))))

pl0_var_define == Spaced(Joint(SepBy1(Call("pl0_identify"), C(",")),
                               Compose(C(":"), Call("pl0_type"))))
pl0_var_stmt == Spaced(Compose(W("var"), Many1(Skip(Call("pl0_var_define"), C(";")))))
pl0_const_define == Spaced(Joint(Call("pl0_identify"), Compose(C("="), Call("pl0_const"))))
pl0_const_stmt ==
    Spaced(Skip(Compose(W("const"), SepBy1(Call("pl0_const_define"), C(","))), C(";")))
pl0_param_group ==
    Group(Spaced(W("var")),
          Spaced(Joint(SepBy1(Call("pl0_identify"), C(",")),
                       Compose(C(":"), Call("pl0_primitive_type")))))
pl0_param_list == Spaced(Between("(", SepBy1(Call("pl0_param_group"), C(";")), ")"))
pl0_procedure_header ==
    Spaced(Skip(Compose(W("procedure"), Joint(Call("pl0_identify"),
                                              Opt(Call("pl0_param_list")))), C(";")))
pl0_function_header ==
    Spaced(Joint(Compose(W("function"), Joint(Call("pl0_identify"),
                                              Opt(Call("pl0_param_list")))),
                 Skip(Compose(C(":"), Call("pl0_primitive_type")), C(";"))))
pl0_procedure_stmt ==
    Many1(Skip(Joint(Call("pl0_procedure_header"), Call("pl0_prog")), C(";")))
pl0_function_stmt ==
    Many1(Skip(Joint(Call("pl0_function_header"), Call("pl0_prog")), C(";")))
pl0_executable ==
    IfThenElse(Call("pl0_function_header"), Call("pl0_function_stmt"),
               Call("pl0_procedure_stmt"), TRUE)

\* Expressions.
pl0_addop == Spaced(Choice(C("+"), C("-")))
pl0_multop == Spaced(Choice(Choice(C("*"), C("/")), C("%")))
pl0_expression ==
    Joint(Joint(Opt(Call("pl0_addop")), Call("pl0_term")),
          Many(Joint(Call("pl0_addop"), Call("pl0_term"))))
pl0_arg_list == Between("(", SepBy1(Call("pl0_arg"), C(",")), ")")
pl0_arg == Call("pl0_expression")
pl0_call_func == Spaced(Joint(Call("pl0_identify"), Opt(Call("pl0_arg_list"))))
\* Mutant: a term starts with a term.
pl0_termLeft ==
    Choice(Joint(Call("pl0_term"), Joint(Call("pl0_multop"), Call("pl0_factor"))),
           Call("pl0_factor"))

pl0_term == ChainL(Call("pl0_factor"), Call("pl0_multop"))
pl0_factor ==
    Choice(Joint(Call("pl0_identify"), Skip(Between("[", Call("pl0_expression"), "]"), spaces)),
    Choice(Skip(Skip(Compose(Compose(spaces, C("(")), Spaced(Call("pl0_expression"))), C(")")),
                spaces),
    Choice(Spaced(Call("pl0_unsigned")),
    Choice(Spaced(Call("pl0_call_func")),
           Spaced(Call("pl0_identify"))))))
\* Mutant: the short operators are tried first.
pl0_comp_opShortFirst ==
    Spaced(Choice(Choice(Choice(C("<"), C(">")), C("=")),
                  Choice(Choice(Lit(<<"<", "=">>), Lit(<<"<", ">">>)), Lit(<<">", "=">>))))

pl0_comp_op ==
    Spaced(Choice(Choice(Choice(Choice(Choice(Lit(<<"<", "=">>), Lit(<<"<", ">">>)),
           Lit(<<">", "=">>)), C("<")), C(">")), C("=")))
pl0_condition ==
    Spaced(Joint(Joint(Call("pl0_expression"), Call("pl0_comp_op")), Call("pl0_expression")))

\* Statements.
Assign == Lit(<<":", "=">>)
pl0_assign_stmt ==
    Spaced(Joint(Joint(Call("pl0_identify"), Opt(Between("[", Call("pl0_expression"), "]"))),
                 Compose(Compose(spaces, Assign), Call("pl0_expression"))))
pl0_cond_stmt ==
    Spaced(Joint(Joint(Compose(Spaced(W("if")), Call("pl0_condition")),
                       Compose(Spaced(W("then")), Call("pl0_stmt"))),
                 Opt(Compose(Spaced(W("else")), Call("pl0_stmt")))))
pl0_case_term == Joint(Skip(Call("pl0_const"), Spaced(C(":"))), Call("pl0_stmt"))
pl0_case_stmt ==
    Spaced(Joint(Skip(Compose(Spaced(W("case")), Spaced(Call("pl0_expression"))), W("of")),
                 Skip(SepBy1(Call("pl0_case_term"), C(";")), Spaced(W("end")))))
pl0_for_stmt ==
    Spaced(Joint(Joint(Joint(Compose(Spaced(W("for")), Call("pl0_identify")),
                             Compose(Spaced(Assign), Call("pl0_expression"))),
                       Spaced(Choice(Lit(<<"do", "wnto">>), W("to")))),
                 Joint(Call("pl0_expression"), Compose(W("do"), Call("pl0_stmt")))))
pl0_call_proc == Spaced(Joint(Call("pl0_identify"), Opt(Call("pl0_arg_list"))))
pl0_compound_stmt ==
    Spaced(Skip(Compose(Spaced(W("begin")), SepBy1(Call("pl0_stmt"), Spaced(C(";")))),
                Spaced(W("end"))))
pl0_read_stmt ==
    Spaced(Skip(Compose(Compose(Compose(Compose(spaces, W("read")), spaces), C("(")),
                        SepBy1(Call("pl0_identify"), C(","))), C(")")))
pl0_write_stmt ==
    LET Write(p) == Spaced(Skip(Compose(Compose(Compose(W("write"), spaces), C("(")), p),
                                C(")")))
    IN Choice(Write(Joint(Call("pl0_charseq"), Compose(C(","), Call("pl0_expression")))),
              Choice(Write(Call("pl0_charseq")), Write(Call("pl0_expression"))))
pl0_stmt ==
    Opt(Choice(Choice(Choice(Choice(Choice(Choice(Choice(
        Call("pl0_write_stmt"), Call("pl0_read_stmt")), Call("pl0_assign_stmt")),
        Call("pl0_cond_stmt")), Call("pl0_case_stmt")), Call("pl0_compound_stmt")),
        Call("pl0_for_stmt")), Call("pl0_call_proc")))

PL0Rule ==
       ("pl0_program" :> pl0_program)
    @@ ("pl0_prog" :> pl0_prog)
    @@ ("pl0_char" :> pl0_char)
    @@ ("pl0_charseq" :> pl0_charseq)
    @@ ("pl0_unsigned" :> pl0_unsigned)
    @@ ("pl0_const" :> pl0_const)
    @@ ("pl0_identify" :> pl0_identify)
    @@ ("pl0_primitive_type" :> pl0_primitive_type)
    @@ ("pl0_type" :> pl0_type)
    @@ ("pl0_var_define" :> pl0_var_define)
    @@ ("pl0_var_stmt" :> pl0_var_stmt)
    @@ ("pl0_const_define" :> pl0_const_define)
    @@ ("pl0_const_stmt" :> pl0_const_stmt)
    @@ ("pl0_param_group" :> pl0_param_group)
    @@ ("pl0_param_list" :> pl0_param_list)
    @@ ("pl0_procedure_header" :> pl0_procedure_header)
    @@ ("pl0_function_header" :> pl0_function_header)
    @@ ("pl0_procedure_stmt" :> pl0_procedure_stmt)
    @@ ("pl0_function_stmt" :> pl0_function_stmt)
    @@ ("pl0_executable" :> pl0_executable)
    @@ ("pl0_addop" :> pl0_addop)
    @@ ("pl0_multop" :> pl0_multop)
    @@ ("pl0_expression" :> pl0_expression)
    @@ ("pl0_arg_list" :> pl0_arg_list)
    @@ ("pl0_arg" :> pl0_arg)
    @@ ("pl0_call_func" :> pl0_call_func)
    @@ ("pl0_term" :> pl0_term)
    @@ ("pl0_factor" :> pl0_factor)
    @@ ("pl0_comp_op" :> pl0_comp_op)
    @@ ("pl0_condition" :> pl0_condition)
    @@ ("pl0_assign_stmt" :> pl0_assign_stmt)
    @@ ("pl0_cond_stmt" :> pl0_cond_stmt)
    @@ ("pl0_case_term" :> pl0_case_term)
    @@ ("pl0_case_stmt" :> pl0_case_stmt)
    @@ ("pl0_for_stmt" :> pl0_for_stmt)
    @@ ("pl0_call_proc" :> pl0_call_proc)
    @@ ("pl0_compound_stmt" :> pl0_compound_stmt)
    @@ ("pl0_read_stmt" :> pl0_read_stmt)
    @@ ("pl0_write_stmt" :> pl0_write_stmt)
    @@ ("pl0_stmt" :> pl0_stmt)

-------------------------------------------------------------------------------
\* pl0_identify_fn: a word that is a keyword is no identifier.
IdentifyStep ==
    /\ Runs("not_keyword")
    /\ \/ ret = None /\ Apply(Top, Top.p.a, 0)
       \/ /\ ret # None
          /\ Return(IF Succeeded /\ \A k \in Keywords : ret.val # Node("fn", Spelt(k))
                    THEN ret ELSE Fail)

\* pl0_const_fn and pl0_executable_fn: what the first parser finds decides
\* between the two others; the second one starts again at the same text when
\* again is TRUE.
IfStep ==
    /\ Runs("if")
    /\ \/ ret = None /\ Apply(Top, Top.p.a, 0)
       \/ Failed /\ Top.n = 0 /\ Apply([Top EXCEPT !.n = 1], Top.p.c, 0)
       \/ /\ Succeeded /\ Top.n = 0
          /\ IF Top.p.again
             THEN Apply([Top EXCEPT !.n = 1], Top.p.b, 0)
             ELSE Apply([Top EXCEPT !.n = 1, !.len = ret.len, !.val = ret.val],
                        Top.p.b, ret.len)
       \/ Failed /\ Top.n = 1 /\ Return(Fail)
       \/ /\ Succeeded /\ Top.n = 1
          /\ Return([len |-> Top.len + ret.len, val |-> Top.val \o ret.val])

\* pl0_param_group_fn: the length of "var" is added to the length of the rest,
\* a failure of the rest included.
ParamGroupStep ==
    /\ Runs("group")
    /\ \/ ret = None /\ Apply(Top, Top.p.a, 0)
       \/ Top.n = 0 /\ Failed /\ Apply([Top EXCEPT !.n = 1], Top.p.b, 0)
       \/ /\ Top.n = 0 /\ Succeeded
          /\ Apply([Top EXCEPT !.n = 1, !.len = ret.len, !.val = Spelt(<<"var">>)],
                   Top.p.b, ret.len)
       \/ /\ Top.n = 1 /\ ret # None
          /\ Return([len |-> Top.len + ret.len, val |-> Top.val \o ret.val])

PL0Step == Step \/ IdentifyStep \/ IfStep \/ ParamGroupStep

PL0Next == PL0Step \/ Finished

PL0Spec == Init /\ [][PL0Next]_vars /\ WF_vars(PL0Step)
===============================================================================
