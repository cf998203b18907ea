-------------------------------- MODULE Parsec --------------------------------
(***************************************************************************)
(* The combinators of libparsec.  A parser is a record: op names the       *)
(* combinator, the other fields are its operands.  Applying a parser to a  *)
(* text is a C++ call that calls the operands in turn, so the state is the *)
(* stack of those calls and the result last returned, and one step is what *)
(* an operator() does between two calls.                                   *)
(*                                                                         *)
(* A text is a sequence of characters, and an input_t is the place in the  *)
(* text from which it still has to be read.  A result is a length, -1 for  *)
(* failure, and a value: the sequence of what the operands gave, pairs and *)
(* vectors flattened, with a leaf for every character and a tree for every *)
(* mapfn and every rule.                                                   *)
(***************************************************************************)
EXTENDS Integers, Sequences, SequencesExt

CONSTANTS Rule,         \* Rule[r]: the parser a parser_t named r calls
          Jobs,         \* the applications: records [p: parser, text: text]
          Unbounded     \* the count many and many1 never reach (0x7fffffff)

ASSUME UnboundedAssumption == Unbounded \in Nat \ {0}

VARIABLES job,          \* the application that runs; never changes
          stack,        \* the calls that have not returned, innermost last
          ret           \* what the last call returned, None when taken

vars == <<job, stack, ret>>

-------------------------------------------------------------------------------
\* Parsers.
One(S)         == [op |-> "one", of |-> S]                \* digit, alpha, ...
Lit(s)         == [op |-> "lit", s |-> s]                 \* character, string_literal
Span(S, k)     == [op |-> "span", of |-> S, min |-> k]    \* ++ and ()++ of One(S)
Compose(p, q)  == [op |-> "compose", a |-> p, b |-> q]    \* p >> q
Skip(p, q)     == [op |-> "skip", a |-> p, b |-> q]       \* p << q
Joint(p, q)    == [op |-> "joint", a |-> p, b |-> q]      \* p + q
EndsWith(p, q) == [op |-> "ends_with", a |-> p, b |-> q]  \* p < q
Choice(p, q)   == [op |-> "choice", a |-> p, b |-> q]     \* p | q
Except(p, q)   == [op |-> "except", a |-> p, b |-> q]     \* p - q
Opt(p)         == [op |-> "optional", a |-> p]            \* ~p
Times(p, k, m) == [op |-> "times", a |-> p, min |-> k, max |-> m]
Many(p)        == Times(p, 0, Unbounded)                  \* ++p
Many1(p)       == Times(p, 1, Unbounded)                  \* p++
CountK(p, k)   == Times(p, k, k)                          \* p * k
SepBy1(p, q)   == Joint(p, Many(Compose(q, p)))           \* p % q
MapFn(p, f)    == [op |-> "mapfn", a |-> p, fn |-> f]     \* p / f
ChainL(p, q)   == [op |-> "chainl", a |-> p, b |-> q]     \* p >= q
Call(r)        == [op |-> "rule", name |-> r]             \* a parser_t

\* Results.
None == [len |-> -2, val |-> <<>>]
Fail == [len |-> -1, val |-> <<>>]
Node(r, v) == << [rule |-> r, of |-> v] >>
Spelt(s) == [i \in 1..Len(s) |-> [rule |-> s[i], of |-> <<>>]]

\* A call: the parser, where it started, and its local variables: what it has
\* consumed and collected so far, and how many operands have returned.
Frame(p, i) == [p |-> p, at |-> i, len |-> 0, val |-> <<>>, n |-> 0]

-------------------------------------------------------------------------------
\* input_t::drop and input_t::take.
Drop(i, k) == IF k < 0 THEN i
              ELSE IF i + k < Len(job.text) THEN i + k ELSE Len(job.text)
Take(i, k) == IF i + k <= Len(job.text) THEN SubSeq(job.text, i + 1, i + k)
                                        ELSE <<>>
Empty(i) == i = Len(job.text)

\* The longest run of characters of S from place i.
RunOf(S, i) ==
    CHOOSE k \in 0..(Len(job.text) - i) :
        /\ \A j \in 1..k : job.text[i + j] \in S
        /\ Empty(i + k) \/ job.text[i + k + 1] \notin S

Top == Last(stack)
Runs(op) == stack # <<>> /\ Top.p.op = op
Failed == ret.len = -1
Succeeded == ret.len >= 0

\* The running call, now f, calls q on what is left after k characters.
Apply(f, q, k) ==
    /\ stack' = Append(Front(stack), f) \o << Frame(q, Drop(f.at, k)) >>
    /\ ret' = None
    /\ UNCHANGED job

Return(r) == stack' = Front(stack) /\ ret' = r /\ UNCHANGED job

Init == /\ job \in Jobs
        /\ stack = << Frame(job.p, 0) >>
        /\ ret = None

-------------------------------------------------------------------------------
Character ==
    /\ Runs("one")
    /\ Return(IF ~Empty(Top.at) /\ job.text[Top.at + 1] \in Top.p.of
              THEN [len |-> 1, val |-> Spelt(Take(Top.at, 1))] ELSE Fail)

StringLiteral ==
    /\ Runs("lit")
    /\ Return(IF ~Empty(Top.at) /\ Take(Top.at, Len(Top.p.s)) = Top.p.s
              THEN [len |-> Len(Top.p.s), val |-> Spelt(Top.p.s)] ELSE Fail)

\* A repeated character class: no other call can happen in between.
CharacterRun ==
    /\ Runs("span")
    /\ LET k == RunOf(Top.p.of, Top.at)
       IN Return(IF k >= Top.p.min
                 THEN [len |-> k, val |-> Spelt(Take(Top.at, k))]
                 ELSE Fail)

\* The four combinators that run a, then b on what a has left; they differ in
\* what they make of the two results.
InSequence(op, Both(_, _)) ==
    /\ Runs(op)
    /\ \/ ret = None /\ Apply(Top, Top.p.a, 0)
       \/ Failed /\ Return(Fail)
       \/ /\ Succeeded /\ Top.n = 0
          /\ Apply([Top EXCEPT !.n = 1, !.len = ret.len, !.val = ret.val],
                   Top.p.b, ret.len)
       \/ Succeeded /\ Top.n = 1 /\ Return(Both(Top, ret))

ComposeStep == InSequence("compose",
    LAMBDA x, y : [len |-> x.len + y.len, val |-> y.val])
JointStep == InSequence("joint",
    LAMBDA x, y : [len |-> x.len + y.len, val |-> x.val \o y.val])
\* Mutant: what q has taken is not counted.
SkipStepForgetsLength == InSequence("skip", LAMBDA x, y : [len |-> x.len, val |-> x.val])

SkipStep == InSequence("skip",
    LAMBDA x, y : [len |-> x.len + y.len, val |-> x.val])
EndsWithStep == InSequence("ends_with",
    LAMBDA x, y : [len |-> x.len, val |-> x.val])

\* Mutant: the second alternative is never tried.
ChoiceStepFirstOnly ==
    /\ Runs("choice")
    /\ IF ret = None THEN Apply(Top, Top.p.a, 0) ELSE Return(ret)

ChoiceStep ==
    /\ Runs("choice")
    /\ \/ ret = None /\ Apply(Top, Top.p.a, 0)
       \/ Failed /\ Top.n = 0 /\ Apply([Top EXCEPT !.n = 1], Top.p.b, 0)
       \/ (Succeeded \/ (Failed /\ Top.n = 1)) /\ Return(ret)

\* Both operands are run, on the same text, whatever the first gave.
ExceptStep ==
    /\ Runs("except")
    /\ \/ ret = None /\ Apply(Top, Top.p.a, 0)
       \/ /\ ret # None /\ Top.n = 0
          /\ Apply([Top EXCEPT !.n = 1, !.len = ret.len, !.val = ret.val], Top.p.b, 0)
       \/ /\ ret # None /\ Top.n = 1
          /\ Return(IF Top.len # -1 /\ Failed THEN [len |-> Top.len, val |-> Top.val]
                                              ELSE Fail)

OptionalStep ==
    /\ Runs("optional")
    /\ \/ ret = None /\ Apply(Top, Top.p.a, 0)
       \/ Failed /\ Return([len |-> 0, val |-> <<>>])
       \/ Succeeded /\ Return(ret)

\* What a loop has after one more round.
Round == [Top EXCEPT !.n = IF @ + 1 < Unbounded THEN @ + 1 ELSE @,
                     !.len = @ + ret.len, !.val = @ \o ret.val]

TimesStep ==
    /\ Runs("times")
    /\ \/ ret = None /\ Top.p.max > 0 /\ Apply(Top, Top.p.a, 0)
       \/ ret = None /\ Top.p.max = 0 /\ Return([len |-> 0, val |-> <<>>])
       \/ /\ Failed
          /\ Return([len |-> IF Top.n < Top.p.min THEN -1 ELSE Top.len, val |-> Top.val])
       \/ /\ Succeeded /\ Round.n >= Top.p.max
          /\ Return([len |-> Round.len, val |-> Round.val])
       \/ Succeeded /\ Round.n < Top.p.max /\ Apply(Round, Top.p.a, Round.len)

\* fn is applied to the value even of a failure.
MapFnStep ==
    /\ Runs("mapfn")
    /\ \/ ret = None /\ Apply(Top, Top.p.a, 0)
       \/ ret # None /\ Return([len |-> ret.len, val |-> Node(Top.p.fn, ret.val)])

\* Mutant: the break on failure is missing.
ChainLStepNoBreak ==
    /\ Runs("chainl")
    /\ \/ ret = None /\ Apply(Top, Top.p.a, 0)
       \/ Failed /\ Top.n = 0 /\ Return(Fail)
       \/ Failed /\ Top.n > 0 /\ Apply(Top, Joint(Top.p.b, Top.p.a), Top.len)
       \/ /\ Succeeded /\ Empty(Drop(Top.at, Round.len))
          /\ Return([len |-> Round.len, val |-> Round.val])
       \/ /\ Succeeded /\ ~Empty(Drop(Top.at, Round.len))
          /\ Apply(Round, Joint(Top.p.b, Top.p.a), Round.len)

ChainLStep ==
    /\ Runs("chainl")
    /\ \/ ret = None /\ Apply(Top, Top.p.a, 0)
       \/ Failed /\ Top.n = 0 /\ Return(Fail)
       \/ Failed /\ Top.n > 0 /\ Return([len |-> Top.len, val |-> Top.val])
       \/ /\ Succeeded /\ Empty(Drop(Top.at, Round.len))
          /\ Return([len |-> Round.len, val |-> Round.val])
       \/ /\ Succeeded /\ ~Empty(Drop(Top.at, Round.len))
          /\ Apply(Round, Joint(Top.p.b, Top.p.a), Round.len)

\* parser_t::operator(): the function behind a rule answers with a new node of
\* the syntax tree, made from the value of its parser even when that failed.
RuleStep ==
    /\ Runs("rule")
    /\ \/ ret = None /\ Apply(Top, Rule[Top.p.name], 0)
       \/ ret # None /\ Return([len |-> ret.len, val |-> Node(Top.p.name, ret.val)])

\* ParsecT::parse has returned: status and strict.
Done == stack = <<>>
Status == Done /\ ~Failed
Strict == Done /\ Empty(Drop(0, ret.len))

Finished == Done /\ UNCHANGED vars

Step ==
    \/ Character \/ StringLiteral \/ CharacterRun
    \/ ComposeStep \/ JointStep \/ SkipStep \/ EndsWithStep
    \/ ChoiceStep \/ ExceptStep \/ OptionalStep \/ TimesStep
    \/ MapFnStep \/ ChainLStep \/ RuleStep

Next == Step \/ Finished

\* The calls are made by one thread that nothing stops.
Spec == Init /\ [][Next]_vars /\ WF_vars(Step)
===============================================================================
