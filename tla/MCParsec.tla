------------------------------- MODULE MCParsec -------------------------------
(***************************************************************************)
(* Every combinator over characters and one string, and every combinator   *)
(* over those, on every text of at most three characters.                  *)
(***************************************************************************)
EXTENDS ParsecMeaning

MCUnbounded == 5
Leaves == {One({"a"}), One({"b"}), Lit(<<"a", "b">>)}
Unaries(S) ==
    UNION {{Opt(p), Many(p), Many1(p), CountK(p, 2), MapFn(p, "fn")} : p \in S}
Binaries(S, T) ==
    UNION {{Compose(p, q), Skip(p, q), Joint(p, q), EndsWith(p, q), Choice(p, q),
            Except(p, q), ChainL(p, q), SepBy1(p, q)} : p \in S, q \in T}

MCRule == [r \in {"ab"} |-> Lit(<<"a", "b">>)]
Parsers == Leaves \cup {CountK(p, 0) : p \in Leaves} \cup {Call("ab"), Span({"a"}, 0), Span({"b"}, 1)}
           \cup Unaries(Leaves) \cup Binaries(Leaves, Leaves)
           \cup Unaries(Binaries(Leaves, Leaves))
           \cup Binaries(Leaves, Unaries(Leaves)) \cup Binaries(Unaries(Leaves), Leaves)
Texts == UNION {[1..n -> {"a", "b"}] : n \in 0..3}

MCJobs == {j \in [p : Parsers, text : Texts] : Productive(j.p, j.text)}
===============================================================================
