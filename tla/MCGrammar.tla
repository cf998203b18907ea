------------------------------ MODULE MCGrammar ------------------------------
EXTENDS PL0Grammar

MCUnbounded == 3

\* Tokens are written by name; a name is a piece but for these.
Pieces(n) ==
    CASE n = ":=" -> <<":", "=">> [] n = "<=" -> <<"<", "=">> [] n = "<>" -> <<"<", ">">>
      [] n = ">=" -> <<">", "=">> [] n = "downto" -> <<"do", "wnto">>
      [] n = "'x'" -> <<"'", "x", "'">> [] n = "'1'" -> <<"'", "1", "'">>
      [] n = "varx" -> <<"var", "x">> [] n = "beginx" -> <<"begin", "x">>
      [] n = "str" -> <<"\"", "x", " ", "begin", "\"">>
      [] OTHER -> <<n>>

\* The text of a sentence: blanks everywhere, or only between two words.
RECURSIVE Written(_, _)
Written(ns, loose) ==
    IF ns = <<>> THEN <<>>
    ELSE LET p == Pieces(Head(ns))
             q == IF Len(ns) > 1 THEN Pieces(ns[2]) ELSE <<".">>
             gap == Len(ns) > 1 /\ (loose \/ {p[Len(p)], q[1]} \subseteq Alphas \cup Digits)
         IN p \o (IF gap THEN <<Blank>> ELSE <<>>) \o Written(Tail(ns), loose)

Without(ns, i) == SubSeq(ns, 1, i - 1) \o SubSeq(ns, i + 1, Len(ns))
Swapped(ns, i) == [ns EXCEPT ![i] = ns[i + 1], ![i + 1] = ns[i]]
Edits(ns) == {Without(ns, i) : i \in 1..Len(ns)} \cup {Swapped(ns, i) : i \in 1..(Len(ns) - 1)}

Sentences == {
  <<"pl0_program", <<"begin", "end", ".">> >>,
  <<"pl0_const_stmt", <<"const", "x", "=", "1", ",", "y", "=", "-", "1", ",", "x", "=", "'x'", ";">> >>,
  <<"pl0_prog", <<"var", "x", ",", "y", ":", "integer", ";", "x", ":", "array", "[", "1", "]", "of", "char", ";", "begin", "x", "[", "x", "]", ":=", "y", "end">> >>,
  <<"pl0_executable", <<"procedure", "x", "(", "var", "x", ":", "integer", ";", "y", ",", "x", ":", "char", ")", ";", "begin", "end", ";">> >>,
  <<"pl0_executable", <<"function", "x", ":", "integer", ";", "procedure", "y", ";", "begin", "end", ";", "begin", "end", ";">> >>,
  <<"pl0_stmt", <<"if", "x", "<", "y", "then", "x", ":=", "1", "else", "y", ":=", "1">> >>,
  <<"pl0_stmt", <<"if", "x", "<=", "1", "then", "if", "x", "<>", "y", "then", "x", "else", "y", "(", "x", ")">> >>,
  <<"pl0_stmt", <<"case", "x", "of", "1", ":", "x", ";", "-", "1", ":", "begin", "end", ";", "'x'", ":", "end">> >>,
  <<"pl0_stmt", <<"begin", "for", "x", ":=", "1", "to", "y", "do", ";", "for", "x", ":=", "y", "downto", "1", "do", "x", "end">> >>,
  <<"pl0_stmt", <<"begin", "read", "(", "x", ",", "y", ")", ";", "write", "(", "str", ",", "x", ")", ";", "write", "(", "str", ")", ";", "write", "(", "x", ")", "end">> >>,
  <<"pl0_expression", <<"-", "x", "*", "(", "y", "+", "1", ")", "/", "x", "[", "1", "]", "%", "y", "(", "x", ",", "1", ")">> >>
}

\* Every sentence with blanks everywhere, and every edit of it with none.
MCJobs ==
    UNION {{[p |-> Call(s[1]), text |-> Written(s[2], TRUE)]}
           \cup {[p |-> Call(s[1]), text |-> Written(ns, FALSE)] : ns \in {s[2]} \cup Edits(s[2])}
           : s \in Sentences}

\* Procedures whose names begin with a word of the language.
PrefixCallJobs ==
    {[p |-> Call("pl0_prog"),
      text |-> Written(<<"procedure", n, ";", "begin", "end", ";", "begin", n, "end">>, FALSE)] :
     n \in {"x", "varx", "beginx"}}
===============================================================================
