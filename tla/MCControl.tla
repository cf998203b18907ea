------------------------------- MODULE MCControl -------------------------------
(***************************************************************************)
(* Every construct around simple statements, every construct around those, *)
(* and procedures with nested procedures.                                  *)
(***************************************************************************)
EXTENDS Control

Do(g) == [k |-> "do", grow |-> g]
Proc == [k |-> "call"]
If(op, e, s, t) == [k |-> "if", op |-> op, e |-> e, then |-> s, else |-> t]
Case_(e, arms) == [k |-> "case", e |-> e, arms |-> arms]
For_(dir, e, s) == [k |-> "for", dir |-> dir, e |-> e, body |-> s]
Seq2(s, t) == [k |-> "seq", ss |-> <<s, t>>]

Simple == {Do(0), Do(1), Proc}
Values == {"var", "temp", "call"}

\* Every construct around members of S and T.
Around(S, T, E, O) ==
    {If(op, e, s, t) : op \in O, e \in E, s \in S, t \in T \cup {None}}
    \cup {Case_(e, <<s>>) : e \in E, s \in S} \cup {Case_(e, <<s, t>>) : e \in E, s \in S, t \in T}
    \cup {For_(d, e, s) : d \in {1, -1}, e \in E, s \in S}
    \cup {Seq2(s, t) : s \in S, t \in T}

Flat == Around(Simple, Simple, Values, {"<", "<=", ">", ">=", "=", "<>"})
Inner == Around({Do(1), Proc}, {Do(1)}, {"var", "temp"}, {"<"})
Deep == Around(Inner, Inner \cup {Do(1)}, {"call"}, {"<"}) \cup {Seq2(s, t) : s \in {Do(1)}, t \in Inner}

Leaf(b) == [nested |-> <<>>, body |-> b]
MCPrograms ==
    {Leaf(b) : b \in Flat \cup Deep}
    \cup {[nested |-> <<Leaf(b)>>, body |-> c] : b \in Inner, c \in Inner}
    \cup {[nested |-> <<[nested |-> <<Leaf(b)>>, body |-> Do(1)], Leaf(Do(1))>>, body |-> Proc] : b \in Inner}
===============================================================================
