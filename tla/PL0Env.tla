-------------------------------- MODULE PL0Env --------------------------------
(***************************************************************************)
(* pl0_env<T>: the symbol table used four times by the semantic analysis   *)
(* (variables, constants, procedures, functions) and once by the code      *)
(* generator (run-time locations).  It is one flat vector of records and   *)
(* a stack of tags, the lengths the vector had when each scope was opened. *)
(*                                                                         *)
(* A record is found by its whole name or by the part of its name after    *)
(* the last '_' (procedures are stored under their qualified name,         *)
(* "_p_q").  Last[n] is that part, and n itself for a plain identifier.    *)
(*                                                                         *)
(* Vectors of the code are indexed from 0 and sequences here from 1: the   *)
(* record tb[i] of the code is tb[i+1], a tag keeps its value.             *)
(***************************************************************************)
EXTENDS Integers, Sequences

CONSTANTS Name,         \* names of records and names looked up
          Last,         \* Last[n]: the part of n after its last '_'
          Data,         \* what a record holds besides its name
          MaxEntries,   \* bound on the length of tb
          MaxDepth      \* bound on the number of open scopes above the first

ASSUME LastAssumption == Last \in [Name -> Name]
ASSUME BoundAssumption == MaxEntries \in Nat /\ MaxDepth \in Nat

VARIABLES tb,           \* the records, oldest first
          tags          \* tags[j]: Len(tb) when scope j was opened

vars == <<tb, tags>>

Entry == [name : Name, data : Data]

-------------------------------------------------------------------------------
Top == tags[Len(tags)]                       \* tags.back()

Matches(e, k) == e.name = k \/ Last[e.name] = k

\* The positions pl0_env::find(k, cross) accepts: all of them when cross, else
\* those the innermost scope has added.
Hits(k, cross) ==
    {i \in 1..Len(tb) : (cross \/ i > Top) /\ Matches(tb[i], k)}

Found(k, cross) == Hits(k, cross) # {}

IsMax(i, S) == i \in S /\ \A j \in S : j <= i

\* The record the search from the top stops at (0 when there is none).
Find(k, cross) ==
    IF Found(k, cross) THEN CHOOSE i \in Hits(k, cross) : IsMax(i, Hits(k, cross))
                       ELSE 0

Depth == Len(tags) - 1                       \* depth()

\* Mutant of DepthOf: a scope also owns the last record of the scope below it.
DepthOfOffByOne(k) ==
    IF Found(k, TRUE)
    THEN LET opened == {j \in 1..Len(tags) : Find(k, TRUE) >= tags[j]}
         IN (CHOOSE j \in opened : IsMax(j, opened)) - 1
    ELSE -1

\* depth(k): the innermost scope whose tag is not above the record found; -1
\* when the name is unknown.
DepthOf(k) ==
    IF Found(k, TRUE)
    THEN LET opened == {j \in 1..Len(tags) : Find(k, TRUE) > tags[j]}
         IN (CHOOSE j \in opened : IsMax(j, opened)) - 1
    ELSE -1

-------------------------------------------------------------------------------
Init == tb = <<>> /\ tags = <<0>>

Push(e) ==
    /\ Len(tb) < MaxEntries
    /\ tb' = Append(tb, e)
    /\ UNCHANGED tags

\* Mutant of Tag: records the index of the last record, not the length.
TagLastIndex ==
    /\ Len(tags) <= MaxDepth
    /\ tags' = Append(tags, Len(tb) - 1)
    /\ UNCHANGED tb

Tag ==
    /\ Len(tags) <= MaxDepth
    /\ tags' = Append(tags, Len(tb))
    /\ UNCHANGED tb

\* Mutants of Detag: pops while the length is >= the tag; pops the tag first and
\* the records down to the tag below it.
DetagOneTooMany ==
    /\ Len(tags) > 1
    /\ tb' = SubSeq(tb, 1, Top - 1)
    /\ tags' = SubSeq(tags, 1, Len(tags) - 1)
DetagTagFirst ==
    /\ Len(tags) > 1
    /\ tags' = SubSeq(tags, 1, Len(tags) - 1)
    /\ tb' = SubSeq(tb, 1, tags[Len(tags) - 1])

\* Every detag() of the callers answers a tag(): the base tag is never popped.
Detag ==
    /\ Len(tags) > 1
    /\ tb' = SubSeq(tb, 1, Top)
    /\ tags' = SubSeq(tags, 1, Len(tags) - 1)

Next == Tag \/ Detag \/ \E e \in Entry : Push(e)

Spec == Init /\ [][Next]_vars

-------------------------------------------------------------------------------
TypeOK ==
    /\ tb \in Seq(Entry)
    /\ tags \in Seq(Nat)

\* g cuts t into consecutive segments, the first of which starts t.
Cuts(g, t) ==
    /\ Len(g) >= 1
    /\ g[1] = 0
    /\ \A i, j \in 1..Len(g) : i <= j => g[i] <= g[j]
    /\ \A i \in 1..Len(g) : g[i] <= Len(t)

\* The tags are increasing lengths of tb: detag() never grows tb and never
\* reaches below the scope it closes.
TagsCutTable == Cuts(tags, tb)

\* Where segment j of t ends when g cuts t, and the segments themselves.
End(g, t, j) == IF j = Len(g) THEN Len(t) ELSE g[j + 1]
Segments(g, t) == [j \in 1..Len(g) |-> SubSeq(t, g[j] + 1, End(g, t, j))]

\* The scopes as ScopeStack has them.
Open == Segments(tags, tb)

Abstract == INSTANCE ScopeStack WITH scopes <- Open

\* The vector and its tags implement the stack of scopes.
ImplementsScopeStack == Abstract!Spec

\* find(k, cross) and depth(k) answer what lexical scoping answers: the newest
\* declaration of the innermost scope that declares k, and the number of that
\* scope.  Code: pl0_env::find (both overloads) and pl0_env::depth(name).
Declaring(k) == {j \in 1..Len(tags) : \E i \in 1..Len(Open[j]) : Matches(Open[j][i], k)}

LexicalScoping ==
    \A k \in Name :
        /\ Found(k, TRUE) <=> Declaring(k) # {}
        /\ Found(k, FALSE) <=> Len(tags) \in Declaring(k)
        /\ Found(k, TRUE) =>
             LET d == CHOOSE j \in Declaring(k) : IsMax(j, Declaring(k))
                 here == {i \in 1..Len(Open[d]) : Matches(Open[d][i], k)}
                 p == CHOOSE i \in here : IsMax(i, here)
             IN /\ DepthOf(k) = d - 1
                /\ tb[Find(k, TRUE)] = Open[d][p]
                /\ Found(k, FALSE) => Find(k, FALSE) = Find(k, TRUE)
        /\ ~Found(k, TRUE) => DepthOf(k) = -1
===============================================================================
