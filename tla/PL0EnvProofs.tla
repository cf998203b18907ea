----------------------------- MODULE PL0EnvProofs -----------------------------
(***************************************************************************)
(* Proofs about the symbol table, for every set of names, every record and *)
(* every bound: the tags cut the vector into consecutive scopes, lookups   *)
(* are lexical, and the whole table implements the stack of scopes.        *)
(***************************************************************************)
EXTENDS PL0Env, NumberFacts, SequenceTheorems, TLAPS

IInv == TypeOK /\ TagsCutTable

-------------------------------------------------------------------------------
(* The inductive invariant.                                                *)

\* The empty table with its base tag satisfies the invariant.
LEMMA InitIInv == Init => IInv
  BY DEF Init, IInv, TypeOK, TagsCutTable, Cuts

\* push() adds a record above every tag.
LEMMA PushIInv == ASSUME IInv, NEW e \in Entry, Push(e) PROVE IInv'
  BY DEF IInv, TypeOK, TagsCutTable, Cuts, Push

\* tag() records the current length, the largest tag so far.
LEMMA TagIInv == ASSUME IInv, Tag PROVE IInv'
  BY DEF IInv, TypeOK, TagsCutTable, Cuts, Tag

\* detag() cuts the table at its last tag, which is below all it keeps.
LEMMA DetagIInv == ASSUME IInv, Detag PROVE IInv'
  <1>1. Top \in 0..Len(tb) /\ Len(tags) \in Nat /\ Len(tags) > 1
    BY DEF IInv, TypeOK, TagsCutTable, Cuts, Detag, Top
  <1>2. tb' \in Seq(Entry) /\ Len(tb') = Top
    BY <1>1 DEF IInv, TypeOK, Detag
  <1>3. /\ tags' \in Seq(Nat)
        /\ Len(tags') = Len(tags) - 1
        /\ \A i \in 1..Len(tags') : tags'[i] = tags[i]
    <2> DEFINE n == Len(tags) - 1
    <2>1. tags \in Seq(Nat) /\ tags' = SubSeq(tags, 1, n)
      BY DEF IInv, TypeOK, Detag
    <2>2. n \in Nat /\ n <= Len(tags)
      BY <1>1
    <2> HIDE DEF n
    <2>3. tags' \in Seq(Nat) /\ Len(tags') = n /\ \A i \in 1..n : tags'[i] = tags[i]
      BY <2>1, <2>2
    <2> QED BY <2>3 DEF n
  <1>4. \A i \in 1..Len(tags') : tags[i] <= Top
    <2>1. \A i, j \in 1..Len(tags) : i <= j => tags[i] <= tags[j]
      BY DEF IInv, TagsCutTable, Cuts
    <2> QED BY <1>1, <1>3, <2>1 DEF Top
  <1> QED BY <1>1, <1>2, <1>3, <1>4, SMTT(30) DEF IInv, TypeOK, TagsCutTable, Cuts

LEMMA NextIInv == IInv /\ [Next]_vars => IInv'
  <1> SUFFICES ASSUME IInv, [Next]_vars PROVE IInv'
    OBVIOUS
  <1>1. CASE Tag BY <1>1, TagIInv
  <1>2. CASE Detag BY <1>2, DetagIInv
  <1>3. CASE \E e \in Entry : Push(e) BY <1>3, PushIInv
  <1>4. CASE UNCHANGED vars BY <1>4 DEF IInv, TypeOK, TagsCutTable, Cuts, vars
  <1> QED BY <1>1, <1>2, <1>3, <1>4 DEF Next

\* The vector holds records and the tags are lengths it has had, cutting it
\* into consecutive scopes, after any sequence of push, tag and detag.
THEOREM EnvInvariant == Spec => [](TypeOK /\ TagsCutTable)
  <1>1. Init => IInv BY InitIInv
  <1>2. IInv /\ [Next]_vars => IInv' BY NextIInv
  <1> QED BY <1>1, <1>2, PTL DEF Spec, IInv

-------------------------------------------------------------------------------
(* Refinement: the segments of the table are the scopes of ScopeStack.     *)

LEMMA SegmentIs ==
  ASSUME NEW g, NEW t, NEW j \in 1..Len(g)
  PROVE  Segments(g, t)[j] = SubSeq(t, g[j] + 1, End(g, t, j))
  BY DEF Segments

\* A piece of a table is a list of records.
LEMMA PieceIsScope ==
  ASSUME NEW t \in Seq(Entry), NEW lo \in Nat, NEW hi \in Nat, lo <= hi, hi <= Len(t)
  PROVE  /\ SubSeq(t, lo + 1, hi) \in Seq(Entry)
         /\ Len(SubSeq(t, lo + 1, hi)) = hi - lo
         /\ \A i \in 1..(hi - lo) : SubSeq(t, lo + 1, hi)[i] = t[lo + i]
  <1>1. \A i \in (lo + 1)..hi : t[i] \in Entry
    OBVIOUS
  <1>2. /\ SubSeq(t, lo + 1, hi) \in Seq(Entry)
        /\ Len(SubSeq(t, lo + 1, hi)) = IF lo + 1 <= hi THEN hi - (lo + 1) + 1 ELSE 0
        /\ \A i \in 1..(hi - (lo + 1) + 1) : SubSeq(t, lo + 1, hi)[i] = t[lo + 1 + i - 1]
    BY <1>1, SubSeqProperties
  <1>3. ASSUME NEW i \in 1..(hi - lo) PROVE SubSeq(t, lo + 1, hi)[i] = t[lo + i]
    <2>1. i \in 1..(hi - (lo + 1) + 1) /\ lo + 1 + i - 1 = lo + i
      OBVIOUS
    <2> QED BY <1>2, <2>1
  <1> QED BY <1>2, <1>3

\* Tables that agree up to hi have the same piece up to hi.
LEMMA PiecesAgree ==
  ASSUME NEW t \in Seq(Entry), NEW u \in Seq(Entry), NEW lo \in Nat, NEW hi \in Nat,
         lo <= hi, hi <= Len(t), hi <= Len(u), \A i \in 1..hi : u[i] = t[i]
  PROVE  SubSeq(u, lo + 1, hi) = SubSeq(t, lo + 1, hi)
  <1>1. \A i \in 1..(hi - lo) : u[lo + i] = t[lo + i]
    OBVIOUS
  <1> DEFINE s == SubSeq(t, lo + 1, hi)
             v == SubSeq(u, lo + 1, hi)
  <1>2. s \in Seq(Entry) /\ Len(s) = hi - lo /\ \A i \in 1..(hi - lo) : s[i] = t[lo + i]
    BY PieceIsScope
  <1>3. v \in Seq(Entry) /\ Len(v) = hi - lo /\ \A i \in 1..(hi - lo) : v[i] = u[lo + i]
    BY PieceIsScope
  <1> HIDE DEF s, v
  <1>4. \A i \in 1..Len(v) : v[i] = s[i]
    BY <1>1, <1>2, <1>3
  <1>5. v = s
    BY <1>2, <1>3, <1>4, SeqEqual
  <1> QED BY <1>5 DEF s, v

\* A record added to a table is added to the piece that reaches its end.
LEMMA PieceGrows ==
  ASSUME NEW t \in Seq(Entry), NEW r \in Entry, NEW lo \in Nat, lo <= Len(t),
         NEW u \in Seq(Entry), Len(u) = Len(t) + 1, u[Len(t) + 1] = r,
         \A i \in 1..Len(t) : u[i] = t[i]
  PROVE  SubSeq(u, lo + 1, Len(t) + 1) = Append(SubSeq(t, lo + 1, Len(t)), r)
  <1> DEFINE s == SubSeq(t, lo + 1, Len(t))
             v == SubSeq(u, lo + 1, Len(t) + 1)
             len == Len(t) - lo
  <1>1. Len(t) \in Nat
    OBVIOUS
  <1>2. len \in Nat /\ Len(t) + 1 - lo = len + 1 /\ lo + (len + 1) = Len(t) + 1
    BY <1>1
  <1>3. /\ s \in Seq(Entry) /\ Len(s) = len
        /\ \A i \in 1..len : s[i] = t[lo + i]
    BY <1>1, PieceIsScope
  <1>4. /\ v \in Seq(Entry) /\ Len(v) = Len(t) + 1 - lo
        /\ \A i \in 1..(Len(t) + 1 - lo) : v[i] = u[lo + i]
    <2>1. Len(t) + 1 \in Nat /\ lo <= Len(t) + 1 /\ Len(t) + 1 <= Len(u)
      BY <1>1
    <2> QED BY <1>1, <2>1, PieceIsScope
  <1>5. \A i \in 1..len : u[lo + i] = t[lo + i]
    <2> SUFFICES ASSUME NEW i \in 1..len PROVE u[lo + i] = t[lo + i]
      OBVIOUS
    <2>1. lo + i \in 1..Len(t) BY <1>1
    <2> QED BY <1>1, <2>1
  <1> HIDE DEF s, v, len
  <1>6. /\ Append(s, r) \in Seq(Entry) /\ Len(Append(s, r)) = len + 1
        /\ \A i \in 1..len : Append(s, r)[i] = s[i]
        /\ Append(s, r)[len + 1] = r
    BY <1>2, <1>3, AppendProperties
  <1>7. ASSUME NEW i \in 1..(len + 1) PROVE v[i] = Append(s, r)[i]
    <2>1. CASE i \in 1..len
      BY <1>2, <1>3, <1>4, <1>5, <1>6, <2>1
    <2>2. CASE i = len + 1
      BY <1>1, <1>2, <1>4, <1>6, <2>2
    <2>3. i \in 1..len \/ i = len + 1
      BY <1>2
    <2> QED BY <2>1, <2>2, <2>3
  <1>8. v = Append(s, r)
    BY <1>2, <1>4, <1>6, <1>7, SeqEqual
  <1> QED BY <1>8 DEF s, v

\* Where segment j starts and ends.
LEMMA SegmentBounds ==
  ASSUME NEW g \in Seq(Nat), NEW t \in Seq(Entry), Cuts(g, t), NEW j \in 1..Len(g)
  PROVE  /\ g[j] \in Nat /\ End(g, t, j) \in Nat
         /\ g[j] <= End(g, t, j) /\ End(g, t, j) <= Len(t)
  BY DEF Cuts, End

LEMMA SegmentsAreScopes ==
  ASSUME NEW g \in Seq(Nat), NEW t \in Seq(Entry), Cuts(g, t)
  PROVE  Segments(g, t) \in Seq(Seq(Entry)) /\ Len(Segments(g, t)) = Len(g)
  <1>1. ASSUME NEW j \in 1..Len(g) PROVE Segments(g, t)[j] \in Seq(Entry)
    <2>1. /\ g[j] \in Nat /\ End(g, t, j) \in Nat
          /\ g[j] <= End(g, t, j) /\ End(g, t, j) <= Len(t)
      BY SegmentBounds
    <2>2. SubSeq(t, g[j] + 1, End(g, t, j)) \in Seq(Entry)
      BY <2>1, PieceIsScope
    <2> QED BY <2>2, SegmentIs
  <1> QED BY <1>1 DEF Segments

\* Tables that agree up to the end of segment j have the same segment j.
LEMMA SegmentsAgree ==
  ASSUME NEW g \in Seq(Nat), NEW t \in Seq(Entry), Cuts(g, t),
         NEW h \in Seq(Nat), NEW u \in Seq(Entry), Cuts(h, u),
         NEW j \in 1..Len(g), j \in 1..Len(h),
         h[j] = g[j], End(h, u, j) = End(g, t, j),
         \A i \in 1..End(g, t, j) : u[i] = t[i]
  PROVE  Segments(h, u)[j] = Segments(g, t)[j]
  <1>1. /\ g[j] \in Nat /\ End(g, t, j) \in Nat /\ g[j] <= End(g, t, j)
        /\ End(g, t, j) <= Len(t) /\ End(g, t, j) <= Len(u)
    BY SegmentBounds
  <1>2. SubSeq(u, g[j] + 1, End(g, t, j)) = SubSeq(t, g[j] + 1, End(g, t, j))
    BY <1>1, PiecesAgree
  <1>3. Segments(g, t)[j] = SubSeq(t, g[j] + 1, End(g, t, j))
    BY SegmentIs
  <1>4. Segments(h, u)[j] = SubSeq(u, h[j] + 1, End(h, u, j))
    BY SegmentIs
  <1> QED BY <1>2, <1>3, <1>4

-------------------------------------------------------------------------------
(* One lemma per operation, in terms of the tags g and the table t.        *)

LEMMA OpenScope ==
  ASSUME NEW g \in Seq(Nat), NEW t \in Seq(Entry), Cuts(g, t),
         NEW h \in Seq(Nat), h = Append(g, Len(t)), Cuts(h, t)
  PROVE  Segments(h, t) = Append(Segments(g, t), <<>>)
  <1> DEFINE n == Len(g)
             old == Segments(g, t)
             new == Segments(h, t)
  <1>1. /\ n \in Nat /\ n >= 1 /\ Len(h) = n + 1 /\ h[n + 1] = Len(t) /\ Len(t) \in Nat
        /\ \A j \in 1..n : h[j] = g[j]
    BY DEF Cuts
  <1>2. /\ old \in Seq(Seq(Entry)) /\ Len(old) = n
        /\ new \in Seq(Seq(Entry)) /\ Len(new) = n + 1
    BY <1>1, SegmentsAreScopes
  <1>3. ASSUME NEW j \in 1..n PROVE new[j] = old[j]
    <2>1. j \in 1..Len(h) /\ h[j] = g[j] /\ End(h, t, j) = End(g, t, j)
      BY <1>1 DEF End
    <2> QED BY <2>1, SegmentsAgree
  <1>4. new[n + 1] = <<>>
    <2>1. n + 1 \in 1..Len(h) /\ End(h, t, n + 1) = Len(t)
      BY <1>1 DEF End
    <2>2. new[n + 1] = SubSeq(t, Len(t) + 1, Len(t))
      BY <1>1, <2>1, SegmentIs
    <2> QED BY <1>1, <2>2, SubSeqEmpty
  <1> HIDE DEF n, old, new
  <1>5. /\ Append(old, <<>>) \in Seq(Seq(Entry)) /\ Len(Append(old, <<>>)) = n + 1
        /\ \A j \in 1..n : Append(old, <<>>)[j] = old[j]
        /\ Append(old, <<>>)[n + 1] = <<>>
    BY <1>1, <1>2, AppendProperties
  <1>6. new = Append(old, <<>>)
    <2>1. \A j \in 1..(n + 1) : new[j] = Append(old, <<>>)[j]
      BY <1>1, <1>3, <1>4, <1>5
    <2> QED BY <1>2, <1>5, <2>1, SeqEqual
  <1> QED BY <1>6 DEF old, new

LEMMA CloseScope ==
  ASSUME NEW g \in Seq(Nat), NEW t \in Seq(Entry), Cuts(g, t), Len(g) > 1,
         NEW h \in Seq(Nat), NEW u \in Seq(Entry), Cuts(h, u),
         Len(h) = Len(g) - 1, \A j \in 1..(Len(g) - 1) : h[j] = g[j],
         Len(u) = g[Len(g)], \A i \in 1..g[Len(g)] : u[i] = t[i]
  PROVE  Segments(h, u) = SubSeq(Segments(g, t), 1, Len(g) - 1)
  <1> DEFINE n == Len(g) - 1
             top == g[Len(g)]
             old == Segments(g, t)
             new == Segments(h, u)
  <1>1. n \in Nat /\ n >= 1 /\ Len(g) = n + 1
    OBVIOUS
  <1>2. top \in Nat /\ top <= Len(t) /\ g[n + 1] = top
    BY DEF Cuts
  <1>3. /\ old \in Seq(Seq(Entry)) /\ Len(old) = n + 1
        /\ new \in Seq(Seq(Entry)) /\ Len(new) = n
    BY <1>1, SegmentsAreScopes
  <1>4. ASSUME NEW j \in 1..n PROVE new[j] = old[j]
    <2>1. j \in 1..Len(g) /\ j \in 1..Len(h) /\ h[j] = g[j]
      BY <1>1, SMTT(30)
    <2>2. End(h, u, j) = End(g, t, j)
      <3>1. CASE j = n
        BY <1>1, <1>2, <3>1 DEF End
      <3>2. CASE j # n
        <4>1. j \in 1..n /\ Len(g) = n + 1 /\ Len(h) = n /\ n \in Nat
          BY <1>1
        <4> HIDE DEF n
        <4>2. j # Len(g) /\ j # Len(h) /\ j + 1 \in 1..n
          BY <3>2, <4>1
        <4>3. h[j + 1] = g[j + 1]
          BY <4>2 DEF n
        <4> QED BY <4>2, <4>3 DEF End
      <3> QED BY <3>1, <3>2
    <2>3. End(h, u, j) \in Nat /\ End(h, u, j) <= top
      BY <1>2, <2>1, SegmentBounds
    <2> DEFINE e == End(g, t, j)
    <2>4. e \in Nat /\ e <= top
      BY <2>2, <2>3
    <2>5. \A i \in 1..e : u[i] = t[i]
      <3> HIDE DEF e
      <3> QED BY <1>2, <2>4
    <2> QED BY <2>1, <2>2, <2>5, SegmentsAgree
  <1> HIDE DEF n, old, new
  <1>5. /\ SubSeq(old, 1, n) \in Seq(Seq(Entry)) /\ Len(SubSeq(old, 1, n)) = n
        /\ \A j \in 1..n : SubSeq(old, 1, n)[j] = old[j]
    BY <1>1, <1>3
  <1>6. new = SubSeq(old, 1, n)
    BY <1>3, <1>4, <1>5, SeqEqual, SMTT(30)
  <1> QED BY <1>6 DEF n, old, new

LEMMA GrowScope ==
  ASSUME NEW g \in Seq(Nat), NEW t \in Seq(Entry), Cuts(g, t), NEW r \in Entry,
         NEW u \in Seq(Entry), Cuts(g, u), Len(u) = Len(t) + 1, u[Len(t) + 1] = r,
         \A i \in 1..Len(t) : u[i] = t[i]
  PROVE  Segments(g, u) = [Segments(g, t) EXCEPT ![Len(g)] = Append(@, r)]
  <1> DEFINE n == Len(g)
             old == Segments(g, t)
             new == Segments(g, u)
             added == Append(old[n], r)
  <1>1. /\ n \in Nat /\ n >= 1 /\ n \in 1..Len(g) /\ g[n] \in Nat /\ g[n] <= Len(t)
        /\ Len(t) \in Nat
    BY DEF Cuts
  <1>2. /\ old \in Seq(Seq(Entry)) /\ Len(old) = n
        /\ new \in Seq(Seq(Entry)) /\ Len(new) = n
    BY SegmentsAreScopes
  <1>3. ASSUME NEW j \in 1..n, j # n PROVE new[j] = old[j]
    <2>1. j \in 1..Len(g) /\ End(g, u, j) = End(g, t, j)
      BY <1>1, <1>3 DEF End
    <2>2. \A i \in 1..End(g, t, j) : u[i] = t[i]
      BY <1>1, <2>1, SegmentBounds
    <2> QED BY <2>1, <2>2, SegmentsAgree
  <1>4. new[n] = added
    <2>1. End(g, t, n) = Len(t) /\ End(g, u, n) = Len(t) + 1
      BY <1>1 DEF End
    <2>2. old[n] = SubSeq(t, g[n] + 1, Len(t)) /\ new[n] = SubSeq(u, g[n] + 1, Len(t) + 1)
      <3>1. old[n] = SubSeq(t, g[n] + 1, End(g, t, n))
        BY <1>1, SegmentIs
      <3>2. new[n] = SubSeq(u, g[n] + 1, End(g, u, n))
        BY <1>1, SegmentIs
      <3> QED BY <2>1, <3>1, <3>2
    <2>3. SubSeq(u, g[n] + 1, Len(t) + 1) = Append(SubSeq(t, g[n] + 1, Len(t)), r)
      BY <1>1, PieceGrows
    <2> QED BY <2>2, <2>3
  <1>5. n \in 1..Len(old) /\ added \in Seq(Entry)
    <2>1. old[n] \in Seq(Entry) BY <1>1, <1>2
    <2> QED BY <1>1, <1>2, <2>1, AppendProperties
  <1> HIDE DEF added, n, old, new
  <1>6. /\ [old EXCEPT ![n] = added] \in Seq(Seq(Entry))
        /\ Len([old EXCEPT ![n] = added]) = n
        /\ \A j \in 1..n : [old EXCEPT ![n] = added][j] = IF j = n THEN added ELSE old[j]
    BY <1>2, <1>5, ExceptSeq
  <1>7. \A j \in 1..n : new[j] = [old EXCEPT ![n] = added][j]
    BY <1>3, <1>4, <1>6
  <1>8. new = [old EXCEPT ![n] = added]
    BY <1>2, <1>6, <1>7, SeqEqual
  <1> QED BY <1>8 DEF added, n, old, new

-------------------------------------------------------------------------------
(* Each step of the table is the step of ScopeStack of the same meaning.   *)

\* The invariant before and after a step, in the form the lemmas take.
LEMMA CutsBefore ==
  ASSUME IInv
  PROVE  tags \in Seq(Nat) /\ tb \in Seq(Entry) /\ Cuts(tags, tb) /\ Len(Open) = Len(tags)
  BY SegmentsAreScopes DEF IInv, TypeOK, TagsCutTable, Open

LEMMA CutsAfter ==
  ASSUME IInv'
  PROVE  tags' \in Seq(Nat) /\ tb' \in Seq(Entry) /\ Cuts(tags', tb')
         /\ Open' = Segments(tags', tb')
  BY DEF IInv, TypeOK, TagsCutTable, Open

\* tag() opens an empty scope and leaves the contents of the others alone.
LEMMA TagEnters == ASSUME IInv, Tag PROVE Abstract!Enter
  <1>1. IInv' BY TagIInv
  <1>2. Open' = Append(Open, <<>>)
    <2>1. tags' = Append(tags, Len(tb)) /\ tb' = tb BY DEF Tag
    <2> QED BY <1>1, <2>1, CutsBefore, CutsAfter, OpenScope DEF Open
  <1> QED BY <1>2, CutsBefore DEF Abstract!Enter, Tag

\* detag() drops the innermost scope and leaves the others as they were.
LEMMA DetagLeaves == ASSUME IInv, Detag PROVE Abstract!Leave
  <1>1. IInv' BY DetagIInv
  <1>2. Open' = SubSeq(Open, 1, Len(tags) - 1)
    <2>1. /\ Len(tags) > 1 /\ Len(tags') = Len(tags) - 1
          /\ \A j \in 1..(Len(tags) - 1) : tags'[j] = tags[j]
          /\ Len(tb') = tags[Len(tags)] /\ \A i \in 1..tags[Len(tags)] : tb'[i] = tb[i]
      BY DEF IInv, TypeOK, TagsCutTable, Cuts, Detag, Top
    <2> QED BY <1>1, <2>1, CutsBefore, CutsAfter, CloseScope DEF Open
  <1> QED BY <1>2, CutsBefore DEF Abstract!Leave, Detag

\* push() declares a record in the innermost scope.
LEMMA PushDeclares == ASSUME IInv, NEW r \in Entry, Push(r) PROVE Abstract!Declare(r)
  <1>1. IInv' BY PushIInv
  <1>2. Open' = [Open EXCEPT ![Len(tags)] = Append(@, r)]
    <2>1. /\ tags' = tags /\ Len(tb') = Len(tb) + 1 /\ tb'[Len(tb) + 1] = r
          /\ \A i \in 1..Len(tb) : tb'[i] = tb[i]
      BY DEF IInv, TypeOK, Push
    <2>2. tb' \in Seq(Entry) /\ Cuts(tags, tb') /\ Open' = Segments(tags, tb')
      BY <1>1, <2>1, CutsAfter
    <2> QED BY <2>1, <2>2, CutsBefore, GrowScope DEF Open
  <1> QED BY <1>2, CutsBefore DEF Abstract!Declare

\* The vector with its tags implements the stack of scopes: leaving a scope
\* restores exactly what was visible before it was entered.
THEOREM EnvRefinesScopeStack == Spec => ImplementsScopeStack
  <1>1. Init => Abstract!Init
    <2> SUFFICES ASSUME Init PROVE Open = << <<>> >>
      BY DEF Abstract!Init
    <2>1. Len(tags) = 1 /\ tags[1] = 0 /\ Len(tb) = 0
      BY DEF Init
    <2>2. Open[1] = SubSeq(tb, 1, 0)
      <3>1. 1 \in 1..Len(tags) /\ End(tags, tb, 1) = 0 /\ tags[1] + 1 = 1
        BY <2>1 DEF End
      <3> QED BY <3>1, SegmentIs DEF Open
    <2>3. Open[1] = <<>>
      BY <2>2, SubSeqEmpty
    <2>4. Open = [j \in 1..1 |-> <<>>]
      BY <2>1, <2>3 DEF Open, Segments
    <2> QED BY <2>4
  <1>2. IInv /\ [Next]_vars => [Abstract!Next]_Open
    <2> SUFFICES ASSUME IInv, [Next]_vars PROVE [Abstract!Next]_Open
      OBVIOUS
    <2>1. CASE Tag BY <2>1, TagEnters DEF Abstract!Next
    <2>2. CASE Detag BY <2>2, DetagLeaves DEF Abstract!Next
    <2>3. CASE \E e \in Entry : Push(e) BY <2>3, PushDeclares DEF Abstract!Next
    <2>4. CASE UNCHANGED vars BY <2>4 DEF vars, Open, Segments, End
    <2> QED BY <2>1, <2>2, <2>3, <2>4 DEF Next
  <1>3. Spec => []IInv
    BY EnvInvariant DEF IInv
  <1> QED BY <1>1, <1>2, <1>3, PTL DEF Spec, ImplementsScopeStack, Abstract!Spec

-------------------------------------------------------------------------------
(* The greatest element of a set of positions, which find and depth look   *)
(* for.                                                                    *)

LEMMA MaxExists ==
  ASSUME NEW n \in Nat, NEW S \in SUBSET (1..n), S # {}
  PROVE  \E x \in S : IsMax(x, S)
  BY Greatest DEF IsMax

LEMMA MaxIs ==
  ASSUME NEW n \in Nat, NEW S \in SUBSET (1..n), NEW x, IsMax(x, S)
  PROVE  (CHOOSE i \in S : IsMax(i, S)) = x
  <1> DEFINE y == CHOOSE i \in S : IsMax(i, S)
  <1>1. x \in S /\ \A j \in S : j <= x
    BY DEF IsMax
  <1>2. y \in S /\ IsMax(y, S)
    BY <1>1
  <1> HIDE DEF y
  <1>3. \A j \in S : j <= y
    BY <1>2 DEF IsMax
  <1>4. x <= y /\ y <= x /\ x \in Int /\ y \in Int
    BY <1>1, <1>2, <1>3
  <1>5. y = x
    BY <1>4
  <1> QED BY <1>5 DEF y

-------------------------------------------------------------------------------
(* Lookups.                                                                *)

\* The records of scope j are those between its tag and the next one.
LEMMA OpenIs ==
  ASSUME IInv, NEW j \in 1..Len(tags)
  PROVE  /\ tags[j] \in Nat /\ End(tags, tb, j) \in Nat
         /\ tags[j] <= End(tags, tb, j) /\ End(tags, tb, j) <= Len(tb)
         /\ Len(Open[j]) = End(tags, tb, j) - tags[j]
         /\ \A i \in 1..Len(Open[j]) : Open[j][i] = tb[tags[j] + i]
  <1> DEFINE lo == tags[j]
             hi == End(tags, tb, j)
  <1>1. lo \in Nat /\ hi \in Nat /\ lo <= hi /\ hi <= Len(tb) /\ tb \in Seq(Entry)
    BY CutsBefore, SegmentBounds
  <1>2. Open[j] = SubSeq(tb, lo + 1, hi)
    BY SegmentIs DEF Open
  <1> HIDE DEF lo, hi
  <1>3. /\ Len(SubSeq(tb, lo + 1, hi)) = hi - lo
        /\ \A i \in 1..(hi - lo) : SubSeq(tb, lo + 1, hi)[i] = tb[lo + i]
    BY <1>1, PieceIsScope
  <1> QED BY <1>1, <1>2, <1>3 DEF lo, hi

\* Every record is in a scope, the last one opened before it was added.
LEMMA ScopeOf ==
  ASSUME IInv, NEW p \in 1..Len(tb)
  PROVE  \E j \in 1..Len(tags) :
            /\ tags[j] < p /\ p <= End(tags, tb, j)
            /\ \A i \in 1..Len(tags) : tags[i] < p => i <= j
  <1> DEFINE n == Len(tags)
             S == {j \in 1..n : tags[j] < p}
  <1>1. /\ tags \in Seq(Nat) /\ tb \in Seq(Entry) /\ n \in Nat /\ n >= 1 /\ tags[1] = 0
    BY CutsBefore DEF Cuts
  <1>2. 1 \in S /\ S \in SUBSET (1..n)
    BY <1>1
  <1>3. PICK j \in S : IsMax(j, S)
    <2> HIDE DEF S, n
    <2> QED BY <1>1, <1>2, MaxExists
  <1>4. j \in 1..n /\ tags[j] < p /\ \A i \in 1..n : tags[i] < p => i <= j
    BY <1>3 DEF IsMax
  <1>5. p <= End(tags, tb, j)
    <2>1. CASE j = n
      BY <2>1 DEF End
    <2>2. CASE j # n
      <3>1. j + 1 \in 1..n /\ ~(j + 1 <= j)
        BY <1>1, <1>4, <2>2
      <3>2. ~(tags[j + 1] < p)
        BY <1>4, <3>1
      <3>3. tags[j + 1] \in Nat /\ End(tags, tb, j) = tags[j + 1]
        BY <1>1, <2>2, <3>1 DEF End
      <3> QED BY <3>2, <3>3
    <2> QED BY <2>1, <2>2
  <1> QED BY <1>4, <1>5

\* A scope declares k when find() accepts a record of it.
LEMMA DeclaringIs ==
  ASSUME IInv, NEW k, NEW j \in 1..Len(tags)
  PROVE  j \in Declaring(k) <=>
           \E p \in Hits(k, TRUE) : tags[j] < p /\ p <= End(tags, tb, j)
  <1> DEFINE lo == tags[j]
             hi == End(tags, tb, j)
  <1>1. /\ lo \in Nat /\ hi \in Nat /\ lo <= hi /\ hi <= Len(tb) /\ Len(Open[j]) = hi - lo
        /\ \A i \in 1..Len(Open[j]) : Open[j][i] = tb[lo + i]
        /\ Len(tb) \in Nat
    BY OpenIs, CutsBefore
  <1> HIDE DEF lo, hi
  <1>2. ASSUME j \in Declaring(k)
        PROVE  \E p \in Hits(k, TRUE) : lo < p /\ p <= hi
    <2>1. PICK i \in 1..Len(Open[j]) : Matches(Open[j][i], k)
      BY <1>2 DEF Declaring
    <2>2. lo + i \in 1..Len(tb) /\ lo < lo + i /\ lo + i <= hi
      BY <1>1, <2>1
    <2>3. lo + i \in Hits(k, TRUE)
      BY <1>1, <2>1, <2>2 DEF Hits
    <2> QED BY <2>2, <2>3
  <1>3. ASSUME NEW p \in Hits(k, TRUE), lo < p, p <= hi
        PROVE  j \in Declaring(k)
    <2>1. p \in 1..Len(tb) /\ Matches(tb[p], k)
      BY DEF Hits
    <2>2. p - lo \in 1..Len(Open[j]) /\ lo + (p - lo) = p
      BY <1>1, <1>3, <2>1
    <2>3. Matches(Open[j][p - lo], k)
      BY <1>1, <2>1, <2>2
    <2> QED BY <2>2, <2>3 DEF Declaring
  <1> QED BY <1>2, <1>3 DEF lo, hi

LEMMA HitsFacts ==
  ASSUME IInv, NEW k, NEW cross \in BOOLEAN
  PROVE  /\ Len(tb) \in Nat /\ Hits(k, cross) \in SUBSET (1..Len(tb))
         /\ Found(k, cross) => /\ Find(k, cross) \in Hits(k, cross)
                               /\ IsMax(Find(k, cross), Hits(k, cross))
  <1>1. Len(tb) \in Nat /\ Hits(k, cross) \in SUBSET (1..Len(tb))
    BY CutsBefore DEF Hits
  <1>2. ASSUME Found(k, cross) PROVE IsMax(Find(k, cross), Hits(k, cross))
    <2>1. PICK x \in Hits(k, cross) : IsMax(x, Hits(k, cross))
      BY <1>1, <1>2, MaxExists DEF Found
    <2>2. Find(k, cross) = CHOOSE i \in Hits(k, cross) : IsMax(i, Hits(k, cross))
      BY <1>2 DEF Find
    <2>3. Find(k, cross) = x
      BY <1>1, <2>1, <2>2, MaxIs
    <2> QED BY <2>1, <2>3
  <1> QED BY <1>1, <1>2 DEF IsMax

LEMMA InnermostHits ==
  ASSUME IInv, NEW k
  PROVE  /\ Hits(k, FALSE) = {p \in Hits(k, TRUE) : p > tags[Len(tags)]}
         /\ Len(tags) \in 1..Len(tags) /\ tags[Len(tags)] \in Nat
         /\ End(tags, tb, Len(tags)) = Len(tb)
  BY CutsBefore DEF Hits, Top, Cuts, End

\* The newest record of k is in the innermost scope that declares k, and it is
\* the newest there.
LEMMA NewestHit ==
  ASSUME IInv, NEW k, Found(k, TRUE)
  PROVE  \E d \in Declaring(k) :
            /\ d \in 1..Len(tags) /\ IsMax(d, Declaring(k))
            /\ DepthOf(k) = d - 1
            /\ LET here == {i \in 1..Len(Open[d]) : Matches(Open[d][i], k)}
                   p == CHOOSE i \in here : IsMax(i, here)
               IN tb[Find(k, TRUE)] = Open[d][p]
  <1> DEFINE n == Len(tags)
             f == Find(k, TRUE)
             H == Hits(k, TRUE)
  <1>1. /\ f \in H /\ f \in 1..Len(tb) /\ (\A p \in H : p <= f) /\ H \subseteq 1..Len(tb)
        /\ n \in Nat /\ tags \in Seq(Nat) /\ Len(tb) \in Nat
    <2>1. tags \in Seq(Nat) /\ n \in Nat
      BY CutsBefore
    <2>2. TRUE \in BOOLEAN
      OBVIOUS
    <2>3. /\ H \in SUBSET (1..Len(tb)) /\ Len(tb) \in Nat
          /\ f \in H /\ IsMax(f, H)
      BY <2>2, HitsFacts
    <2> QED BY <2>1, <2>3 DEF IsMax
  <1>2. PICK d \in 1..n :
          /\ tags[d] < f /\ f <= End(tags, tb, d)
          /\ \A i \in 1..n : tags[i] < f => i <= d
    BY <1>1, ScopeOf
  <1>3. d \in Declaring(k)
    BY <1>1, <1>2, DeclaringIs
  <1>4. ASSUME NEW i \in Declaring(k) PROVE i \in 1..n /\ i <= d
    <2>1. i \in 1..n
      BY DEF Declaring
    <2>2. PICK p \in H : tags[i] < p
      BY <2>1, DeclaringIs
    <2> HIDE DEF f, H
    <2>3. p <= f /\ p \in Nat /\ tags[i] \in Nat /\ f \in Nat
      BY <1>1, <2>1, <2>2
    <2>4. tags[i] < f
      BY <2>2, <2>3
    <2> QED BY <1>2, <2>1, <2>4
  <1>5. IsMax(d, Declaring(k))
    BY <1>3, <1>4 DEF IsMax
  <1>6. DepthOf(k) = d - 1
    <2> DEFINE opened == {j \in 1..n : f > tags[j]}
    <2>1. DepthOf(k) = (CHOOSE j \in opened : IsMax(j, opened)) - 1
      BY DEF DepthOf
    <2>2. \A j \in 1..n : f > tags[j] <=> tags[j] < f
      BY <1>1
    <2>3. IsMax(d, opened) /\ opened \in SUBSET (1..n)
      BY <1>2, <2>2 DEF IsMax
    <2> HIDE DEF opened, n
    <2>4. (CHOOSE j \in opened : IsMax(j, opened)) = d
      BY <1>1, <2>3, MaxIs
    <2> QED BY <2>1, <2>4
  <1> DEFINE here == {i \in 1..Len(Open[d]) : Matches(Open[d][i], k)}
             lo == tags[d]
  <1>7. /\ lo \in Nat /\ End(tags, tb, d) \in Nat /\ End(tags, tb, d) <= Len(tb)
        /\ Len(Open[d]) = End(tags, tb, d) - lo /\ Len(Open[d]) \in Nat
        /\ \A i \in 1..Len(Open[d]) : Open[d][i] = tb[lo + i]
    BY OpenIs
  <1>8. Matches(tb[f], k)
    BY <1>1 DEF Hits
  <1> HIDE DEF f, n, lo, H
  <1>9. f - lo \in here /\ Open[d][f - lo] = tb[f]
    <2>1. f - lo \in 1..Len(Open[d]) /\ lo + (f - lo) = f
      BY <1>1, <1>2, <1>7, SMTT(30) DEF lo
    <2> QED BY <1>7, <1>8, <2>1
  <1>10. ASSUME NEW i \in here PROVE i <= f - lo
    <2>1. i \in 1..Len(Open[d]) /\ Matches(tb[lo + i], k) /\ lo + i \in 1..Len(tb)
      BY <1>1, <1>7
    <2>2. lo + i \in H
      BY <2>1 DEF Hits, H
    <2>3. lo + i <= f
      BY <1>1, <2>2
    <2> QED BY <1>1, <1>7, <2>1, <2>3
  <1>11. (CHOOSE i \in here : IsMax(i, here)) = f - lo
    <2>1. IsMax(f - lo, here) /\ here \in SUBSET (1..Len(Open[d]))
      BY <1>9, <1>10 DEF IsMax
    <2> HIDE DEF here
    <2> QED BY <1>7, <2>1, MaxIs
  <1> QED BY <1>2, <1>3, <1>5, <1>6, <1>9, <1>11 DEF f, n

LEMMA LookupsAreLexical ==
  ASSUME IInv, NEW k \in Name
  PROVE  /\ Found(k, TRUE) <=> Declaring(k) # {}
         /\ Found(k, FALSE) <=> Len(tags) \in Declaring(k)
         /\ Found(k, TRUE) =>
              LET d == CHOOSE j \in Declaring(k) : IsMax(j, Declaring(k))
                  here == {i \in 1..Len(Open[d]) : Matches(Open[d][i], k)}
                  p == CHOOSE i \in here : IsMax(i, here)
              IN /\ DepthOf(k) = d - 1
                 /\ tb[Find(k, TRUE)] = Open[d][p]
                 /\ Found(k, FALSE) => Find(k, FALSE) = Find(k, TRUE)
         /\ ~Found(k, TRUE) => DepthOf(k) = -1
  <1> DEFINE n == Len(tags)
             D == Declaring(k)
  <1>1. /\ n \in Nat /\ n \in 1..n /\ tags[n] \in Nat /\ Len(tb) \in Nat
        /\ End(tags, tb, n) = Len(tb)
        /\ Hits(k, FALSE) = {p \in Hits(k, TRUE) : p > tags[n]}
        /\ Hits(k, TRUE) \in SUBSET (1..Len(tb))
    <2>1. tags \in Seq(Nat) /\ n \in Nat /\ TRUE \in BOOLEAN
      BY CutsBefore
    <2>2. Hits(k, TRUE) \in SUBSET (1..Len(tb)) /\ Len(tb) \in Nat
      BY <2>1, HitsFacts
    <2> QED BY <2>1, <2>2, InnermostHits
  <1>2. D \in SUBSET (1..n)
    BY DEF Declaring
  <1>3. Found(k, TRUE) <=> D # {}
    <2>1. ASSUME Found(k, TRUE) PROVE D # {}
      BY <2>1, NewestHit
    <2>2. ASSUME NEW j \in D PROVE Found(k, TRUE)
      BY <1>2, DeclaringIs DEF Found
    <2> QED BY <2>1, <2>2
  <1>4. Found(k, FALSE) <=> n \in D
    <2> DEFINE H == Hits(k, TRUE)
               lo == tags[n]
    <2>1. n \in D <=> \E p \in H : lo < p /\ p <= Len(tb)
      BY <1>1, DeclaringIs
    <2>2. H \in SUBSET (1..Len(tb)) /\ lo \in Nat /\ Len(tb) \in Nat
      BY <1>1
    <2>3. Found(k, FALSE) <=> \E p \in H : p > lo
      BY <1>1 DEF Found
    <2> HIDE DEF H, lo, n, D
    <2>4. \A p \in H : p > lo <=> (lo < p /\ p <= Len(tb))
      BY <2>2
    <2> QED BY <2>1, <2>3, <2>4
  <1>5. ASSUME Found(k, FALSE), Found(k, TRUE) PROVE Find(k, FALSE) = Find(k, TRUE)
    <2> DEFINE f == Find(k, TRUE)
               e == Find(k, FALSE)
               H == Hits(k, TRUE)
               I == Hits(k, FALSE)
               lo == tags[n]
    <2>1. f \in H /\ \A p \in H : p <= f
      BY <1>5, HitsFacts DEF IsMax
    <2>2. e \in I /\ \A p \in I : p <= e
      BY <1>5, HitsFacts DEF IsMax
    <2>3. I = {p \in H : p > lo} /\ H \in SUBSET (1..Len(tb)) /\ lo \in Nat
          /\ Len(tb) \in Nat
      BY <1>1
    <2> HIDE DEF e, f, H, I, lo, n
    <2>4. e \in H /\ e > lo
      BY <2>2, <2>3
    <2>5. e \in Nat /\ f \in Nat /\ e <= f
      BY <2>1, <2>3, <2>4
    <2>6. f \in I
      BY <2>1, <2>3, <2>4, <2>5
    <2>7. f <= e
      BY <2>2, <2>6
    <2>8. e = f
      BY <2>5, <2>7
    <2> QED BY <2>8 DEF e, f
  <1>6. ASSUME Found(k, TRUE)
        PROVE  LET d == CHOOSE j \in D : IsMax(j, D)
                   here == {i \in 1..Len(Open[d]) : Matches(Open[d][i], k)}
                   p == CHOOSE i \in here : IsMax(i, here)
               IN /\ DepthOf(k) = d - 1
                  /\ tb[Find(k, TRUE)] = Open[d][p]
    <2>1. PICK d \in D :
            /\ IsMax(d, D) /\ DepthOf(k) = d - 1
            /\ LET here == {i \in 1..Len(Open[d]) : Matches(Open[d][i], k)}
                   p == CHOOSE i \in here : IsMax(i, here)
               IN tb[Find(k, TRUE)] = Open[d][p]
      BY <1>6, NewestHit
    <2>2. (CHOOSE j \in D : IsMax(j, D)) = d
      <3> HIDE DEF D, n
      <3> QED BY <1>1, <1>2, <2>1, MaxIs
    <2> QED BY <2>1, <2>2
  <1>7. ~Found(k, TRUE) => DepthOf(k) = -1
    BY DEF DepthOf
  <1> QED BY <1>3, <1>4, <1>5, <1>6, <1>7

\* After any sequence of push, tag and detag, a lookup answers what lexical
\* scoping answers: the newest record of the innermost scope that has one, and
\* the number of that scope.  Code: pl0_env::find and pl0_env::depth.
THEOREM EnvScoping == Spec => []LexicalScoping
  <1>1. IInv => LexicalScoping
    BY LookupsAreLexical DEF LexicalScoping
  <1>2. Spec => []IInv
    BY EnvInvariant DEF IInv
  <1> QED BY <1>1, <1>2, PTL

\* The vector only ever holds records and the stack of tags only lengths.
THEOREM EnvTyped == Spec => []TypeOK
  BY EnvInvariant, PTL
===============================================================================
