--------------------------- MODULE MeaningProofs ---------------------------
(***************************************************************************)
(* What a name means, for every program: the tables of Tables find the     *)
(* declaration that the history says was the last, wherever it is kept.    *)
(*                                                                         *)
(* Each record tells the scope it belongs to, so the order of a table      *)
(* hardly matters: it is a set of records, and detag() takes those of the  *)
(* last scope.                                                             *)
(***************************************************************************)
EXTENDS TablesProofs, NumberFacts, SequenceTheorems

Recs(t) == {t[i] : i \in 1..Len(t)}

\* The scope of a record, counted as the tags of its table count them: the
\* parameters of a routine have one of their own, but not in the table of
\* places.
Level(of, r) ==
    IF of = "places" THEN Len(r.data.of) + 2
    ELSE 2 * Len(r.data.of) + IF r.data.sort = "param" THEN 1 ELSE 2

\* The tags g put each record of t into its scope.
Filed(t, g, of) ==
    /\ t \in Seq(Recs(t)) /\ g \in Seq(Nat) /\ Len(g) >= 1
    /\ \A j, k \in 1..Len(g) : j <= k => g[j] <= g[k] /\ g[k] <= Len(t)
    /\ \A i \in 1..Len(t) : Level(of, t[i]) \in 1..Len(g)
    /\ \A i \in 1..Len(t), j \in 1..Len(g) : g[j] < i <=> j <= Level(of, t[i])

-------------------------------------------------------------------------------
(* Tables as sets of records.                                              *)

LEMMA AppendRecs ==
  ASSUME NEW t, t \in Seq(Recs(t)), NEW e
  PROVE  /\ Append(t, e) \in Seq(Recs(Append(t, e)))
         /\ Len(t) \in Nat /\ Len(Append(t, e)) = Len(t) + 1
         /\ Append(t, e)[Len(t) + 1] = e
         /\ \A i \in 1..Len(t) : Append(t, e)[i] = t[i]
         /\ Recs(Append(t, e)) = Recs(t) \cup {e}
  <1> DEFINE S == Recs(t) \cup {e}
             u == Append(t, e)
  <1>1. t \in Seq(S) /\ e \in S /\ Len(t) \in Nat
    <2>1. Recs(t) \subseteq S
      OBVIOUS
    <2> HIDE DEF S
    <2>2. t \in Seq(S)
      BY <2>1
    <2>3. e \in S
      BY DEF S
    <2> QED BY <2>2, <2>3
  <1>2. u \in Seq(S) /\ Len(u) = Len(t) + 1 /\ u[Len(t) + 1] = e
        /\ \A i \in 1..Len(t) : u[i] = t[i]
    <2> HIDE DEF S
    <2>1. u \in Seq(S)
      BY <1>1, AppendProperties
    <2>2. Len(u) = Len(t) + 1
      BY <1>1, AppendProperties
    <2>3. u[Len(t) + 1] = e
      BY <1>1, AppendProperties
    <2>4. \A i \in 1..Len(t) : u[i] = t[i]
      BY <1>1, AppendProperties
    <2> QED BY <2>1, <2>2, <2>3, <2>4
  <1> HIDE DEF u, S
  <1>3. Recs(u) = Recs(t) \cup {e}
    <2>1. ASSUME NEW r \in Recs(u) PROVE r \in Recs(t) \cup {e}
      <3>1. PICK i \in 1..(Len(t) + 1) : r = u[i]
        BY <1>2 DEF Recs
      <3> QED BY <1>1, <1>2, <3>1 DEF Recs
    <2>2. ASSUME NEW r \in Recs(t) PROVE r \in Recs(u)
      <3>1. PICK i \in 1..Len(t) : r = t[i]
        BY DEF Recs
      <3>2. i \in 1..Len(u) /\ u[i] = r
        BY <1>1, <1>2, <3>1
      <3> QED BY <3>2 DEF Recs
    <2>3. e \in Recs(u)
      <3>1. Len(t) + 1 \in 1..Len(u) /\ u[Len(t) + 1] = e
        BY <1>1, <1>2
      <3> QED BY <3>1 DEF Recs
    <2> QED BY <2>1, <2>2, <2>3
  <1>4. u \in Seq(Recs(u))
    BY <1>2, <1>3 DEF S
  <1> QED BY <1>1, <1>2, <1>3, <1>4 DEF u

LEMMA PrefixRecs ==
  ASSUME NEW t, t \in Seq(Recs(t)), NEW n \in 0..Len(t)
  PROVE  /\ SubSeq(t, 1, n) \in Seq(Recs(SubSeq(t, 1, n)))
         /\ Len(SubSeq(t, 1, n)) = n
         /\ \A i \in 1..n : SubSeq(t, 1, n)[i] = t[i]
         /\ Recs(SubSeq(t, 1, n)) = {t[i] : i \in 1..n}
  <1> DEFINE u == SubSeq(t, 1, n)
             S == Recs(t)
  <1>1. t \in Seq(S) /\ Len(t) \in Nat /\ n \in Nat
    OBVIOUS
  <1> HIDE DEF S
  <1>2. u \in Seq(S) /\ Len(u) = n /\ \A i \in 1..n : u[i] = t[i]
    <2>1. Len(u) = n
      BY <1>1
    <2>2. u \in Seq(S)
      BY <1>1
    <2>3. \A i \in 1..n : u[i] = t[i]
      BY <1>1
    <2> QED BY <2>1, <2>2, <2>3
  <1> HIDE DEF u
  <1>3. Recs(u) = {t[i] : i \in 1..n}
    BY <1>2 DEF Recs
  <1>4. u \in Seq(Recs(u))
    <2>1. \A i \in 1..Len(u) : u[i] \in Recs(u)
      BY DEF Recs
    <2>2. u = [i \in 1..Len(u) |-> u[i]] /\ Len(u) \in Nat
      BY <1>1, <1>2
    <2> QED BY <2>1, <2>2
  <1> QED BY <1>2, <1>3, <1>4 DEF u

-------------------------------------------------------------------------------
(* The three operations of a table.                                        *)

LEMMA FiledPush ==
  ASSUME NEW t, NEW g, NEW of, Filed(t, g, of), NEW e, Level(of, e) = Len(g)
  PROVE  Filed(Append(t, e), g, of) /\ Recs(Append(t, e)) = Recs(t) \cup {e}
  <1> DEFINE u == Append(t, e)
  <1>1. /\ t \in Seq(Recs(t)) /\ g \in Seq(Nat) /\ Len(g) >= 1 /\ Len(g) \in Nat
        /\ \A j, k \in 1..Len(g) : j <= k => g[j] <= g[k] /\ g[k] <= Len(t)
        /\ \A i \in 1..Len(t) : Level(of, t[i]) \in 1..Len(g)
        /\ \A i \in 1..Len(t), j \in 1..Len(g) : g[j] < i <=> j <= Level(of, t[i])
    BY DEF Filed
  <1>2. /\ u \in Seq(Recs(u)) /\ Len(t) \in Nat /\ Len(u) = Len(t) + 1 /\ u[Len(t) + 1] = e
        /\ \A i \in 1..Len(t) : u[i] = t[i]
        /\ Recs(u) = Recs(t) \cup {e}
    BY <1>1, AppendRecs
  <1> HIDE DEF u
  <1>3. \A j \in 1..Len(g) : g[j] \in Nat /\ g[j] <= Len(t)
    BY <1>1
  <1>4. \A j, k \in 1..Len(g) : j <= k => g[j] <= g[k] /\ g[k] <= Len(u)
    BY <1>1, <1>2, <1>3
  <1>5. ASSUME NEW i \in 1..Len(u) PROVE Level(of, u[i]) \in 1..Len(g)
    <2>1. CASE i \in 1..Len(t)
      BY <1>1, <1>2, <2>1
    <2>2. CASE i = Len(t) + 1
      <3>1. u[i] = e
        BY <1>2, <2>2
      <3> QED BY <1>1, <3>1
    <2> QED BY <1>2, <2>1, <2>2
  <1>6. ASSUME NEW i \in 1..Len(u), NEW j \in 1..Len(g)
        PROVE  g[j] < i <=> j <= Level(of, u[i])
    <2>1. CASE i \in 1..Len(t)
      BY <1>1, <1>2, <2>1
    <2>2. CASE i = Len(t) + 1
      BY <1>1, <1>2, <1>3, <2>2
    <2> QED BY <1>2, <2>1, <2>2
  <1>7. Filed(u, g, of)
    BY <1>1, <1>2, <1>4, <1>5, <1>6 DEF Filed
  <1> QED BY <1>2, <1>7 DEF u

LEMMA FiledTag ==
  ASSUME NEW t, NEW g, NEW of, Filed(t, g, of)
  PROVE  Filed(t, Append(g, Len(t)), of)
  <1> DEFINE h == Append(g, Len(t))
             n == Len(g)
  <1>1. /\ t \in Seq(Recs(t)) /\ g \in Seq(Nat) /\ n >= 1 /\ n \in Nat /\ Len(t) \in Nat
        /\ \A j, k \in 1..n : j <= k => g[j] <= g[k] /\ g[k] <= Len(t)
        /\ \A i \in 1..Len(t) : Level(of, t[i]) \in 1..n
        /\ \A i \in 1..Len(t), j \in 1..n : g[j] < i <=> j <= Level(of, t[i])
    BY DEF Filed
  <1>2. h \in Seq(Nat) /\ Len(h) = n + 1 /\ h[n + 1] = Len(t) /\ \A j \in 1..n : h[j] = g[j]
    <2>1. h \in Seq(Nat)
      BY <1>1, AppendProperties
    <2>2. Len(h) = n + 1
      BY <1>1, AppendProperties
    <2>3. h[n + 1] = Len(t)
      BY <1>1, AppendProperties
    <2>4. \A j \in 1..n : h[j] = g[j]
      BY <1>1, AppendProperties
    <2> QED BY <2>1, <2>2, <2>3, <2>4
  <1> HIDE DEF h, n
  <1>3. ASSUME NEW j \in 1..(n + 1), NEW k \in 1..(n + 1), j <= k
        PROVE  h[j] <= h[k] /\ h[k] <= Len(t)
    <2>1. CASE k \in 1..n
      <3>1. j \in 1..n
        BY <1>1, <1>3, <2>1
      <3> QED BY <1>1, <1>2, <1>3, <2>1, <3>1
    <2>2. CASE k = n + 1
      <3>1. CASE j = n + 1
        BY <1>1, <1>2, <2>2, <3>1
      <3>2. CASE j \in 1..n
        <4>1. h[j] = g[j] /\ g[j] <= Len(t)
          BY <1>1, <1>2, <3>2
        <4> QED BY <1>1, <1>2, <2>2, <4>1
      <3> QED BY <1>1, <3>1, <3>2
    <2> QED BY <1>1, <2>1, <2>2
  <1>4. ASSUME NEW i \in 1..Len(t) PROVE Level(of, t[i]) \in 1..(n + 1)
    <2>1. Level(of, t[i]) \in 1..n
      BY <1>1
    <2> QED BY <1>1, <2>1
  <1>5. ASSUME NEW i \in 1..Len(t), NEW j \in 1..(n + 1)
        PROVE  h[j] < i <=> j <= Level(of, t[i])
    <2>1. Level(of, t[i]) \in 1..n
      BY <1>1
    <2>2. CASE j \in 1..n
      BY <1>1, <1>2, <2>2
    <2>3. CASE j = n + 1
      BY <1>1, <1>2, <2>1, <2>3
    <2> QED BY <1>1, <2>2, <2>3
  <1>6. Filed(t, h, of)
    BY <1>1, <1>2, <1>3, <1>4, <1>5 DEF Filed
  <1> QED BY <1>6 DEF h

\* detag() takes the records of the last scope and no other.
LEMMA FiledDetag ==
  ASSUME NEW t, NEW g, NEW of, Filed(t, g, of), Len(g) > 1
  PROVE  /\ Filed(SubSeq(t, 1, g[Len(g)]), SubSeq(g, 1, Len(g) - 1), of)
         /\ Recs(SubSeq(t, 1, g[Len(g)])) = {r \in Recs(t) : Level(of, r) < Len(g)}
  <1> DEFINE n == Len(g)
             p == g[n]
             u == SubSeq(t, 1, p)
             h == SubSeq(g, 1, n - 1)
  <1>1. /\ t \in Seq(Recs(t)) /\ g \in Seq(Nat) /\ n > 1 /\ n \in Nat /\ Len(t) \in Nat
        /\ \A j, k \in 1..n : j <= k => g[j] <= g[k] /\ g[k] <= Len(t)
        /\ \A i \in 1..Len(t) : Level(of, t[i]) \in 1..n
        /\ \A i \in 1..Len(t), j \in 1..n : g[j] < i <=> j <= Level(of, t[i])
    BY DEF Filed
  <1>2. p \in 0..Len(t) /\ p \in Nat
    BY <1>1
  <1>3. h \in Seq(Nat) /\ Len(h) = n - 1 /\ \A j \in 1..(n - 1) : h[j] = g[j]
    <2>1. n - 1 \in 0..n
      BY <1>1
    <2>2. h \in Seq(Nat)
      BY <1>1, <2>1
    <2>3. Len(h) = n - 1
      BY <1>1, <2>1
    <2>4. \A j \in 1..(n - 1) : h[j] = g[j]
      BY <1>1, <2>1
    <2> QED BY <2>2, <2>3, <2>4
  <1> HIDE DEF p
  <1>4. /\ u \in Seq(Recs(u)) /\ Len(u) = p /\ \A i \in 1..p : u[i] = t[i]
        /\ Recs(u) = {t[i] : i \in 1..p}
    BY <1>1, <1>2, PrefixRecs
  <1> HIDE DEF n, u, h
  <1>5. ASSUME NEW i \in 1..Len(t) PROVE i \in 1..p <=> Level(of, t[i]) < n
    <2>1. n \in 1..n /\ (p < i <=> n <= Level(of, t[i])) /\ Level(of, t[i]) \in 1..n
      BY <1>1 DEF p
    <2> QED BY <1>1, <1>2, <2>1
  <1>6. ASSUME NEW j \in 1..(n - 1), NEW k \in 1..(n - 1), j <= k
        PROVE  h[j] <= h[k] /\ h[k] <= p
    <2>1. j \in 1..n /\ k \in 1..n /\ n \in 1..n /\ k <= n
      BY <1>1
    <2>2. g[j] <= g[k] /\ g[k] <= p
      BY <1>1, <1>6, <2>1 DEF p
    <2> QED BY <1>3, <2>2
  <1>7. ASSUME NEW i \in 1..p
        PROVE  /\ Level(of, u[i]) \in 1..(n - 1)
               /\ \A j \in 1..(n - 1) : h[j] < i <=> j <= Level(of, u[i])
    <2>1. i \in 1..Len(t) /\ u[i] = t[i]
      BY <1>1, <1>2, <1>4
    <2>2. Level(of, t[i]) < n /\ Level(of, t[i]) \in 1..n
      BY <1>1, <1>5, <2>1
    <2>3. ASSUME NEW j \in 1..(n - 1) PROVE h[j] < i <=> j <= Level(of, u[i])
      <3>1. j \in 1..n /\ h[j] = g[j]
        BY <1>1, <1>3
      <3> QED BY <1>1, <2>1, <3>1
    <2> QED BY <1>1, <2>1, <2>2, <2>3
  <1>8. Filed(u, h, of)
    <2>1. Len(h) >= 1
      BY <1>1, <1>3
    <2> QED BY <1>3, <1>4, <1>6, <1>7, <2>1 DEF Filed
  <1>9. Recs(u) = {r \in Recs(t) : Level(of, r) < n}
    <2>1. ASSUME NEW r \in Recs(u) PROVE r \in Recs(t) /\ Level(of, r) < n
      <3>1. PICK i \in 1..p : r = t[i]
        BY <1>4
      <3>2. i \in 1..Len(t)
        BY <1>1, <1>2
      <3> QED BY <1>5, <3>1, <3>2 DEF Recs
    <2>2. ASSUME NEW r \in Recs(t), Level(of, r) < n PROVE r \in Recs(u)
      <3>1. PICK i \in 1..Len(t) : r = t[i]
        BY DEF Recs
      <3>2. i \in 1..p
        BY <1>5, <2>2, <3>1
      <3> QED BY <1>4, <3>1, <3>2
    <2> QED BY <2>1, <2>2
  <1> QED BY <1>8, <1>9 DEF n, p, u, h

-------------------------------------------------------------------------------
(* What pl0_env::find and depth(name) answer about a table: of the records *)
(* with the name, the last one, which is of the innermost scope.           *)

Hit(r, k) == r.name = k \/ LastPart[r.name] = k
Matching(t, k) == {i \in 1..Len(t) : Hit(t[i], k)}
Largest(S) == CHOOSE i \in S : i \in S /\ \A j \in S : j <= i
At(t, k) == IF Matching(t, k) # {} THEN Largest(Matching(t, k)) ELSE 0
Below(g, p) == {j \in 1..Len(g) : p > g[j]}
DepthIn(t, g, k) ==
    IF Matching(t, k) # {} THEN Largest(Below(g, At(t, k))) - 1 ELSE -1

\* The one record a lookup of k stops at: r, which entry i of t is.
StopsAt(t, g, of, k, i, r) ==
    /\ i \in 1..Len(t) /\ r = t[i] /\ r \in Recs(t) /\ Hit(r, k) /\ At(t, k) = i
    /\ DepthIn(t, g, k) = Level(of, r) - 1
    /\ \A j \in 1..Len(t) : Hit(t[j], k) => j <= i
    /\ \A q \in Recs(t) : Hit(q, k) => Level(of, q) <= Level(of, r)

LEMMA NothingFound ==
  ASSUME NEW t, NEW g, NEW k, \A r \in Recs(t) : ~Hit(r, k)
  PROVE  At(t, k) = 0 /\ DepthIn(t, g, k) = -1
  <1>1. Matching(t, k) = {}
    BY DEF Matching, Recs
  <1> QED BY <1>1 DEF At, DepthIn

LEMMA LastFound ==
  ASSUME NEW t, NEW g, NEW of, Filed(t, g, of), NEW k, NEW q \in Recs(t), Hit(q, k)
  PROVE  \E i \in 1..Len(t) : StopsAt(t, g, of, k, i, t[i])
  <1> DEFINE M == Matching(t, k)
  <1>1. /\ Len(t) \in Nat /\ g \in Seq(Nat) /\ Len(g) \in Nat
        /\ \A j, l \in 1..Len(g) : j <= l => g[j] <= g[l] /\ g[l] <= Len(t)
        /\ \A i \in 1..Len(t) : Level(of, t[i]) \in 1..Len(g)
        /\ \A i \in 1..Len(t), j \in 1..Len(g) : g[j] < i <=> j <= Level(of, t[i])
    BY DEF Filed
  <1>2. M \in SUBSET (1..Len(t)) /\ M # {}
    BY DEF Matching, Recs
  <1> HIDE DEF M
  <1>3. PICK i \in M : \A j \in M : j <= i
    BY <1>1, <1>2, Greatest
  <1>4. At(t, k) = i
    <2> DEFINE c == Largest(M)
    <2>1. c \in M /\ \A j \in M : j <= c
      BY <1>3 DEF Largest
    <2>2. At(t, k) = c
      BY <1>2 DEF At, M
    <2> HIDE DEF c
    <2>3. c <= i /\ i <= c /\ c \in Nat /\ i \in Nat
      BY <1>1, <1>2, <1>3, <2>1
    <2> QED BY <2>2, <2>3
  <1>5. i \in 1..Len(t) /\ Hit(t[i], k) /\ t[i] \in Recs(t)
    BY <1>2, <1>3 DEF M, Matching, Recs
  <1>6. ASSUME NEW j \in 1..Len(t), Hit(t[j], k) PROVE j <= i
    BY <1>3, <1>6 DEF M, Matching
  <1>7. ASSUME NEW r \in Recs(t), Hit(r, k) PROVE Level(of, r) <= Level(of, t[i])
    <2>1. PICK j \in 1..Len(t) : r = t[j]
      BY DEF Recs
    <2>2. j <= i
      BY <1>6, <1>7, <2>1
    <2>3. Level(of, r) \in 1..Len(g) /\ g[Level(of, r)] < j
      BY <1>1, <2>1
    <2>4. g[Level(of, r)] \in Nat
      BY <1>1, <2>3
    <2>5. g[Level(of, r)] < i
      BY <1>1, <1>5, <2>2, <2>3, <2>4
    <2> QED BY <1>1, <1>5, <2>3, <2>5
  <1>8. DepthIn(t, g, k) = Level(of, t[i]) - 1
    <2> DEFINE l == Level(of, t[i])
               B == Below(g, i)
               c == Largest(B)
    <2>1. l \in 1..Len(g) /\ \A j \in 1..Len(g) : g[j] < i <=> j <= l
      BY <1>1, <1>5
    <2> HIDE DEF l
    <2>2. \A j : j \in B <=> j \in 1..Len(g) /\ j <= l
      BY <1>1, <1>5, <2>1 DEF Below
    <2>3. DepthIn(t, g, k) = c - 1
      BY <1>2, <1>4 DEF DepthIn, M
    <2> HIDE DEF B
    <2>4. l \in B /\ \A j \in B : j <= l
      BY <2>1, <2>2
    <2>5. c \in B /\ \A j \in B : j <= c
      BY <2>4 DEF Largest
    <2> HIDE DEF c
    <2>6. c = l
      BY <1>1, <2>1, <2>2, <2>4, <2>5
    <2> QED BY <2>3, <2>6 DEF l
  <1> QED BY <1>4, <1>5, <1>6, <1>7, <1>8 DEF StopsAt

\* find(k, false) looks at the records of the last scope.
Innermost(t, g, k) == {i \in 1..Len(t) : i > g[Len(g)] /\ Hit(t[i], k)}

LEMMA FoundHere ==
  ASSUME NEW t, NEW g, NEW of, Filed(t, g, of), NEW k
  PROVE  Innermost(t, g, k) # {} <=> \E r \in Recs(t) : Hit(r, k) /\ Level(of, r) = Len(g)
  <1> DEFINE n == Len(g)
  <1>1. /\ Len(t) \in Nat /\ g \in Seq(Nat) /\ n \in Nat /\ n \in 1..n
        /\ \A i \in 1..Len(t) : Level(of, t[i]) \in 1..n
        /\ \A i \in 1..Len(t) : g[n] < i <=> n <= Level(of, t[i])
    BY DEF Filed
  <1>2. \A i \in 1..Len(t) : i > g[n] <=> Level(of, t[i]) = n
    BY <1>1
  <1> HIDE DEF n
  <1> QED BY <1>2 DEF Innermost, Recs, n

LEMMA ValLooks ==
  ASSUME NEW k
  PROVE  /\ val!Find(k, TRUE) = At(valtb, k)
         /\ val!DepthOf(k) = DepthIn(valtb, valtags, k)
         /\ val!Found(k, FALSE) <=> Innermost(valtb, valtags, k) # {}
         /\ val!Found(k, TRUE) <=> Matching(valtb, k) # {}
  <1>1. val!Hits(k, TRUE) = Matching(valtb, k)
    BY DEF val!Hits, val!Matches, Matching, Hit
  <1>2. val!Hits(k, FALSE) = Innermost(valtb, valtags, k)
    BY DEF val!Hits, val!Matches, val!Top, Innermost, Hit
  <1>3. val!Found(k, TRUE) <=> Matching(valtb, k) # {}
    BY <1>1 DEF val!Found
  <1>4. val!Find(k, TRUE) = IF val!Found(k, TRUE) THEN Largest(val!Hits(k, TRUE)) ELSE 0
    BY DEF val!Find, val!IsMax, Largest
  <1>5. val!Find(k, TRUE) = At(valtb, k)
    BY <1>1, <1>3, <1>4 DEF At
  <1>6. val!DepthOf(k) = IF val!Found(k, TRUE) THEN Largest(Below(valtags, val!Find(k, TRUE))) - 1
                                            ELSE -1
    BY DEF val!DepthOf, val!IsMax, Largest, Below
  <1>7. val!DepthOf(k) = DepthIn(valtb, valtags, k)
    BY <1>3, <1>5, <1>6 DEF DepthIn
  <1>8. val!Found(k, FALSE) <=> Innermost(valtb, valtags, k) # {}
    BY <1>2 DEF val!Found
  <1> QED BY <1>3, <1>5, <1>7, <1>8

LEMMA VarLooks ==
  ASSUME NEW k
  PROVE  /\ var!Find(k, TRUE) = At(vartb, k)
         /\ var!DepthOf(k) = DepthIn(vartb, vartags, k)
         /\ var!Found(k, FALSE) <=> Innermost(vartb, vartags, k) # {}
         /\ var!Found(k, TRUE) <=> Matching(vartb, k) # {}
  <1>1. var!Hits(k, TRUE) = Matching(vartb, k)
    BY DEF var!Hits, var!Matches, Matching, Hit
  <1>2. var!Hits(k, FALSE) = Innermost(vartb, vartags, k)
    BY DEF var!Hits, var!Matches, var!Top, Innermost, Hit
  <1>3. var!Found(k, TRUE) <=> Matching(vartb, k) # {}
    BY <1>1 DEF var!Found
  <1>4. var!Find(k, TRUE) = IF var!Found(k, TRUE) THEN Largest(var!Hits(k, TRUE)) ELSE 0
    BY DEF var!Find, var!IsMax, Largest
  <1>5. var!Find(k, TRUE) = At(vartb, k)
    BY <1>1, <1>3, <1>4 DEF At
  <1>6. var!DepthOf(k) = IF var!Found(k, TRUE) THEN Largest(Below(vartags, var!Find(k, TRUE))) - 1
                                            ELSE -1
    BY DEF var!DepthOf, var!IsMax, Largest, Below
  <1>7. var!DepthOf(k) = DepthIn(vartb, vartags, k)
    BY <1>3, <1>5, <1>6 DEF DepthIn
  <1>8. var!Found(k, FALSE) <=> Innermost(vartb, vartags, k) # {}
    BY <1>2 DEF var!Found
  <1> QED BY <1>3, <1>5, <1>7, <1>8

LEMMA ProcLooks ==
  ASSUME NEW k
  PROVE  /\ proc!Find(k, TRUE) = At(proctb, k)
         /\ proc!DepthOf(k) = DepthIn(proctb, proctags, k)
         /\ proc!Found(k, FALSE) <=> Innermost(proctb, proctags, k) # {}
         /\ proc!Found(k, TRUE) <=> Matching(proctb, k) # {}
  <1>1. proc!Hits(k, TRUE) = Matching(proctb, k)
    BY DEF proc!Hits, proc!Matches, Matching, Hit
  <1>2. proc!Hits(k, FALSE) = Innermost(proctb, proctags, k)
    BY DEF proc!Hits, proc!Matches, proc!Top, Innermost, Hit
  <1>3. proc!Found(k, TRUE) <=> Matching(proctb, k) # {}
    BY <1>1 DEF proc!Found
  <1>4. proc!Find(k, TRUE) = IF proc!Found(k, TRUE) THEN Largest(proc!Hits(k, TRUE)) ELSE 0
    BY DEF proc!Find, proc!IsMax, Largest
  <1>5. proc!Find(k, TRUE) = At(proctb, k)
    BY <1>1, <1>3, <1>4 DEF At
  <1>6. proc!DepthOf(k) = IF proc!Found(k, TRUE) THEN Largest(Below(proctags, proc!Find(k, TRUE))) - 1
                                            ELSE -1
    BY DEF proc!DepthOf, proc!IsMax, Largest, Below
  <1>7. proc!DepthOf(k) = DepthIn(proctb, proctags, k)
    BY <1>3, <1>5, <1>6 DEF DepthIn
  <1>8. proc!Found(k, FALSE) <=> Innermost(proctb, proctags, k) # {}
    BY <1>2 DEF proc!Found
  <1> QED BY <1>3, <1>5, <1>7, <1>8

LEMMA FuncLooks ==
  ASSUME NEW k
  PROVE  /\ func!Find(k, TRUE) = At(functb, k)
         /\ func!DepthOf(k) = DepthIn(functb, functags, k)
         /\ func!Found(k, FALSE) <=> Innermost(functb, functags, k) # {}
         /\ func!Found(k, TRUE) <=> Matching(functb, k) # {}
  <1>1. func!Hits(k, TRUE) = Matching(functb, k)
    BY DEF func!Hits, func!Matches, Matching, Hit
  <1>2. func!Hits(k, FALSE) = Innermost(functb, functags, k)
    BY DEF func!Hits, func!Matches, func!Top, Innermost, Hit
  <1>3. func!Found(k, TRUE) <=> Matching(functb, k) # {}
    BY <1>1 DEF func!Found
  <1>4. func!Find(k, TRUE) = IF func!Found(k, TRUE) THEN Largest(func!Hits(k, TRUE)) ELSE 0
    BY DEF func!Find, func!IsMax, Largest
  <1>5. func!Find(k, TRUE) = At(functb, k)
    BY <1>1, <1>3, <1>4 DEF At
  <1>6. func!DepthOf(k) = IF func!Found(k, TRUE) THEN Largest(Below(functags, func!Find(k, TRUE))) - 1
                                            ELSE -1
    BY DEF func!DepthOf, func!IsMax, Largest, Below
  <1>7. func!DepthOf(k) = DepthIn(functb, functags, k)
    BY <1>3, <1>5, <1>6 DEF DepthIn
  <1>8. func!Found(k, FALSE) <=> Innermost(functb, functags, k) # {}
    BY <1>2 DEF func!Found
  <1> QED BY <1>3, <1>5, <1>7, <1>8

LEMMA LocLooks ==
  ASSUME NEW k
  PROVE  /\ loc!Find(k, TRUE) = At(loctb, k)
         /\ loc!DepthOf(k) = DepthIn(loctb, loctags, k)
         /\ loc!Found(k, FALSE) <=> Innermost(loctb, loctags, k) # {}
         /\ loc!Found(k, TRUE) <=> Matching(loctb, k) # {}
  <1>1. loc!Hits(k, TRUE) = Matching(loctb, k)
    BY DEF loc!Hits, loc!Matches, Matching, Hit
  <1>2. loc!Hits(k, FALSE) = Innermost(loctb, loctags, k)
    BY DEF loc!Hits, loc!Matches, loc!Top, Innermost, Hit
  <1>3. loc!Found(k, TRUE) <=> Matching(loctb, k) # {}
    BY <1>1 DEF loc!Found
  <1>4. loc!Find(k, TRUE) = IF loc!Found(k, TRUE) THEN Largest(loc!Hits(k, TRUE)) ELSE 0
    BY DEF loc!Find, loc!IsMax, Largest
  <1>5. loc!Find(k, TRUE) = At(loctb, k)
    BY <1>1, <1>3, <1>4 DEF At
  <1>6. loc!DepthOf(k) = IF loc!Found(k, TRUE) THEN Largest(Below(loctags, loc!Find(k, TRUE))) - 1
                                            ELSE -1
    BY DEF loc!DepthOf, loc!IsMax, Largest, Below
  <1>7. loc!DepthOf(k) = DepthIn(loctb, loctags, k)
    BY <1>3, <1>5, <1>6 DEF DepthIn
  <1>8. loc!Found(k, FALSE) <=> Innermost(loctb, loctags, k) # {}
    BY <1>2 DEF loc!Found
  <1> QED BY <1>3, <1>5, <1>7, <1>8

-------------------------------------------------------------------------------
(* The history: later declarations are of the same scope or further in,    *)
(* and no scope declares a name twice.                                     *)

Ordered(s) ==
    /\ s \in Seq(Recs(s))
    /\ \A i \in 1..Len(s) : Level("names", s[i]) \in Nat
    /\ \A i, j \in 1..Len(s) : i <= j => Level("names", s[i]) <= Level("names", s[j])
    /\ \A i, j \in 1..Len(s) :
         s[i].name = s[j].name /\ Level("names", s[i]) = Level("names", s[j]) => i = j

LEMMA OrderedAppend ==
  ASSUME NEW s, Ordered(s), NEW r, Level("names", r) \in Nat,
         \A d \in Recs(s) : Level("names", d) <= Level("names", r),
         \A d \in Recs(s) : ~(d.name = r.name /\ Level("names", d) = Level("names", r))
  PROVE  Ordered(Append(s, r)) /\ Recs(Append(s, r)) = Recs(s) \cup {r}
  <1> DEFINE u == Append(s, r)
             l(d) == Level("names", d)
  <1>1. /\ s \in Seq(Recs(s)) /\ \A i \in 1..Len(s) : l(s[i]) \in Nat /\ s[i] \in Recs(s)
        /\ \A i, j \in 1..Len(s) : i <= j => l(s[i]) <= l(s[j])
        /\ \A i, j \in 1..Len(s) : s[i].name = s[j].name /\ l(s[i]) = l(s[j]) => i = j
    BY DEF Ordered, Recs
  <1>2. /\ u \in Seq(Recs(u)) /\ Len(s) \in Nat /\ Len(u) = Len(s) + 1 /\ u[Len(s) + 1] = r
        /\ \A i \in 1..Len(s) : u[i] = s[i]
        /\ Recs(u) = Recs(s) \cup {r}
    BY <1>1, AppendRecs
  <1>3. /\ l(r) \in Nat /\ \A d \in Recs(s) : l(d) <= l(r)
        /\ \A d \in Recs(s) : ~(d.name = r.name /\ l(d) = l(r))
    OBVIOUS
  <1> HIDE DEF u, l
  <1>4. ASSUME NEW i \in 1..Len(u)
        PROVE  \/ i \in 1..Len(s) /\ u[i] = s[i] /\ s[i] \in Recs(s) /\ l(s[i]) \in Nat
               \/ i = Len(s) + 1 /\ u[i] = r
    <2>1. CASE i \in 1..Len(s)
      BY <1>1, <1>2, <2>1
    <2>2. CASE i = Len(s) + 1
      BY <1>2, <2>2
    <2> QED BY <1>2, <2>1, <2>2
  <1>5. \A i \in 1..Len(u) : l(u[i]) \in Nat
    BY <1>3, <1>4
  <1>6. ASSUME NEW i \in 1..Len(u), NEW j \in 1..Len(u), i <= j PROVE l(u[i]) <= l(u[j])
    <2>1. CASE j \in 1..Len(s)
      <3>1. i \in 1..Len(s)
        BY <1>6, <2>1
      <3> QED BY <1>1, <1>2, <1>6, <2>1, <3>1
    <2>2. CASE j = Len(s) + 1
      BY <1>2, <1>3, <1>4, <2>2
    <2> QED BY <1>4, <2>1, <2>2
  <1>7. ASSUME NEW i \in 1..Len(u), NEW j \in 1..Len(u), u[i].name = u[j].name, l(u[i]) = l(u[j])
        PROVE  i = j
    <2>1. CASE i \in 1..Len(s) /\ j \in 1..Len(s)
      BY <1>1, <1>2, <1>7, <2>1
    <2>2. CASE i = Len(s) + 1 /\ j \in 1..Len(s)
      <3>1. u[i] = r /\ u[j] \in Recs(s)
        BY <1>1, <1>2, <2>2
      <3> QED BY <1>3, <1>7, <3>1
    <2>3. CASE j = Len(s) + 1 /\ i \in 1..Len(s)
      <3>1. u[j] = r /\ u[i] \in Recs(s)
        BY <1>1, <1>2, <2>3
      <3> QED BY <1>3, <1>7, <3>1
    <2> QED BY <1>4, <2>1, <2>2, <2>3
  <1>8. Ordered(u)
    BY <1>2, <1>5, <1>6, <1>7 DEF Ordered, l
  <1> QED BY <1>2, <1>8 DEF u

LEMMA OrderedCut ==
  ASSUME NEW s, Ordered(s), NEW n \in Nat,
         NEW S, S = {i \in 1..Len(s) : Level("names", s[i]) < n}
  PROVE  /\ Ordered(SubSeq(s, 1, LastOf(S)))
         /\ Recs(SubSeq(s, 1, LastOf(S))) = {d \in Recs(s) : Level("names", d) < n}
  <1> DEFINE p == LastOf(S)
             u == SubSeq(s, 1, p)
             l(d) == Level("names", d)
  <1>1. /\ s \in Seq(Recs(s)) /\ Len(s) \in Nat
        /\ \A i \in 1..Len(s) : l(s[i]) \in Nat /\ s[i] \in Recs(s)
        /\ \A i, j \in 1..Len(s) : i <= j => l(s[i]) <= l(s[j])
        /\ \A i, j \in 1..Len(s) : s[i].name = s[j].name /\ l(s[i]) = l(s[j]) => i = j
    BY DEF Ordered, Recs
  <1>2. p \in 0..Len(s) /\ \A i \in 1..Len(s) : i <= p <=> l(s[i]) < n
    <2>1. CASE S = {}
      BY <1>1, <2>1 DEF LastOf
    <2>2. CASE S # {}
      <3>1. S \in SUBSET (1..Len(s))
        OBVIOUS
      <3>2. \E i \in S : \A j \in S : j <= i
        BY <1>1, <2>2, <3>1, Greatest
      <3>3. p \in S /\ \A j \in S : j <= p
        BY <2>2, <3>2 DEF LastOf
      <3> HIDE DEF p, l
      <3>4. p \in 1..Len(s) /\ l(s[p]) < n
        BY <3>3 DEF l
      <3>5. ASSUME NEW i \in 1..Len(s) PROVE i <= p <=> l(s[i]) < n
        <4>1. l(s[i]) < n => i <= p
          BY <3>3 DEF l
        <4>2. i <= p => l(s[i]) <= l(s[p])
          BY <1>1, <3>4
        <4>3. l(s[i]) \in Nat /\ l(s[p]) \in Nat
          BY <1>1, <3>4
        <4> QED BY <3>4, <4>1, <4>2, <4>3
      <3> QED BY <1>1, <3>4, <3>5
    <2> QED BY <2>1, <2>2
  <1> HIDE DEF p
  <1>3. /\ u \in Seq(Recs(u)) /\ Len(u) = p /\ \A i \in 1..p : u[i] = s[i]
        /\ Recs(u) = {s[i] : i \in 1..p}
    BY <1>1, <1>2, PrefixRecs
  <1> HIDE DEF u, l
  <1>4. \A i \in 1..Len(u) : i \in 1..Len(s) /\ u[i] = s[i]
    BY <1>1, <1>2, <1>3
  <1>5. Ordered(u)
    <2>1. \A i \in 1..Len(u) : l(u[i]) \in Nat
      BY <1>1, <1>4
    <2>2. \A i, j \in 1..Len(u) : i <= j => l(u[i]) <= l(u[j])
      BY <1>1, <1>4
    <2>3. \A i, j \in 1..Len(u) : u[i].name = u[j].name /\ l(u[i]) = l(u[j]) => i = j
      BY <1>1, <1>4
    <2> QED BY <1>3, <2>1, <2>2, <2>3 DEF Ordered, l
  <1>6. Recs(u) = {d \in Recs(s) : l(d) < n}
    <2>1. ASSUME NEW d \in Recs(u) PROVE d \in Recs(s) /\ l(d) < n
      <3>1. PICK i \in 1..p : d = s[i]
        BY <1>3
      <3>2. i \in 1..Len(s) /\ i <= p
        BY <1>1, <1>2
      <3> QED BY <1>1, <1>2, <3>1, <3>2
    <2>2. ASSUME NEW d \in Recs(s), l(d) < n PROVE d \in Recs(u)
      <3>1. PICK i \in 1..Len(s) : d = s[i]
        BY DEF Recs
      <3>2. i \in 1..p
        BY <1>2, <2>2, <3>1
      <3> QED BY <1>3, <3>1, <3>2
    <2> QED BY <2>1, <2>2
  <1> QED BY <1>5, <1>6 DEF p, u, l

-------------------------------------------------------------------------------
(* The inductive invariant.                                                *)

Declared == Recs(decls)

\* A declaration in scope was made in one of the routines being walked, and
\* does not have the name of that routine.
Proper(d) ==
    /\ \E x \in Id : d.name = <<x>>
    /\ Len(d.data.of) \in 0..Len(scope)
    /\ d.data.of = SubSeq(scope, 1, Len(d.data.of))
    /\ Len(d.data.of) > 0 => d.name # <<scope[Len(d.data.of)]>>
    /\ d.data.sort \in {"const", "var", "param", "proc", "func"}

\* Those of the innermost routine, by the part of it the walk is in.
Timely(d) ==
    Len(d.data.of) = Len(scope) =>
        /\ Here.phase \notin InProg => d.data.sort = "param"
        /\ Here.phase \in {"const", "var"} => d.data.sort \notin {"proc", "func"}

\* Routine k of those being walked, and the one not yet in its table.
IsRoutine(d, k) ==
    /\ d.name = <<scope[k]>>
    /\ d.data = [of |-> SubSeq(scope, 1, k - 1), sort |-> part[k + 1].sort,
                 params |-> part[k + 1].params]
Pending(d) == Here.phase = "params" /\ IsRoutine(d, Len(scope))

History ==
    /\ Ordered(decls)
    /\ \A d \in Declared : Proper(d) /\ Timely(d)
    /\ \A k \in 1..Len(scope) : \E d \in Declared : IsRoutine(d, k)

\* The records of constants and variables are their declarations, those of
\* routines stand for them under a qualified name.
Stands(r, d) == r.data = d.data /\ Len(r.name) > 1 /\ LastPart[r.name] = d.name
Recorded(t, sort) ==
    /\ \A d \in Declared : d.data.sort = sort /\ ~Pending(d) => \E r \in Recs(t) : Stands(r, d)
    /\ \A r \in Recs(t) : \E d \in Declared : d.data.sort = sort /\ ~Pending(d) /\ Stands(r, d)
Tabled ==
    /\ Recs(valtb) = {d \in Declared : d.data.sort = "const"}
    /\ Recs(vartb) = {d \in Declared : d.data.sort \in Variables}
    /\ Recorded(proctb, "proc") /\ Recorded(functb, "func")

\* The places: of variables, of the displays of the routines, and of the results
\* of functions.
LastOfPath(of) == <<IF of = <<>> THEN "main" ELSE of[Len(of)]>>
IsDisplay(r) ==
    /\ r.data.sort = "display"
    /\ Len(r.name) > 1 /\ r.name[1] = "$fn" /\ LastPart[r.name] = LastOfPath(r.data.of)
IsResult(r) ==
    /\ r.data.sort = "func" /\ r.data.of # <<>>
    /\ r.name = <<Qualifier>> \o r.data.of /\ LastPart[r.name] = LastOfPath(r.data.of)
IsVariable(r) ==
    /\ r.data.sort \in Variables /\ \E x \in Id : r.name = <<x>>
    /\ r \in Declared \/ (Here.phase = "end" /\ Len(r.data.of) = Len(scope))
IsPlace(r) ==
    /\ Len(r.data.of) \in 0..Len(scope)
    /\ r.data.of = SubSeq(scope, 1, Len(r.data.of))
    /\ IsVariable(r) \/ IsDisplay(r) \/ IsResult(r)
    /\ Here.phase = "params" /\ Len(r.data.of) = Len(scope) => r.data.sort = "param"

\* The place of the display of main comes first, and in one frame those of the
\* parameters.
IsMain(r) == r.data.sort = "display" /\ r.data.of = <<>>
FramesInOrder(t) ==
    /\ \A i \in 1..Len(t) : IsMain(t[i]) => i = 1
    /\ \A i, j \in 1..Len(t) :
         /\ Len(t[i].data.of) = Len(t[j].data.of)
         /\ t[i].data.sort = "param" /\ t[j].data.sort # "param"
         => i < j

HasResult(k) == \E r \in Recs(loctb) : IsResult(r) /\ r.data.of = SubSeq(scope, 1, k - 1)
Opened(k) == k < Len(part) \/ Here.phase \notin {"params", "header"}
Placed ==
    /\ \A d \in Declared : d.data.sort \in Variables => d \in Recs(loctb)
    /\ \A r \in Recs(loctb) : IsPlace(r)
    /\ \A k \in 2..Len(part) : part[k].sort = "func" /\ Opened(k) => HasResult(k)
    /\ FramesInOrder(loctb)

AllFiled ==
    /\ Filed(valtb, valtags, "names") /\ Filed(vartb, vartags, "names")
    /\ Filed(proctb, proctags, "names") /\ Filed(functb, functags, "names")
    /\ Filed(loctb, loctags, "places")

Bounded ==
    /\ Len(scope) <= MaxNest
    /\ Here.phase \in {"params", "header", "prog"} => scope # <<>>

Meant == Bounded /\ AllFiled /\ History /\ Tabled /\ Placed
MeaningInv == StepInv /\ (status = "ok" => Meant)

-------------------------------------------------------------------------------
(* Names.                                                                  *)

LEMMA LastOfName ==
  ASSUME NEW n \in Name
  PROVE  LastPart[n] = <<n[Len(n)]>>
  BY DEF LastPart

LEMMA PlainNames ==
  ASSUME NEW x \in Id
  PROVE  LastPart[<<x>>] = <<x>> /\ Len(<<x>>) = 1
  <1> DEFINE n == <<x>>
  <1>1. n \in Name
    BY DEF Name
  <1>2. LastPart[n] = <<n[Len(n)]>>
    BY <1>1, LastOfName
  <1>3. Len(n) = 1 /\ n[1] = x
    OBVIOUS
  <1> HIDE DEF n
  <1>4. LastPart[n] = <<x>>
    BY <1>2, <1>3
  <1> QED BY <1>3, <1>4 DEF n

LEMMA PathNames ==
  ASSUME NEW q \in {Qualifier, "$fn"}, NEW p \in Paths, Len(p) \in Nat, Len(p) > 0,
         NEW S, p \in Seq(S), q \in S
  PROVE  /\ LastPart[<<q>> \o p] = <<p[Len(p)]>>
         /\ Len(<<q>> \o p) > 1 /\ (<<q>> \o p)[1] = q
  <1> DEFINE h == <<q>>
             n == h \o p
  <1>1. n \in Name
    BY DEF Name
  <1>2. h \in Seq(S) /\ Len(h) = 1 /\ h[1] = q
    OBVIOUS
  <1> HIDE DEF h
  <1>3. /\ Len(n) = 1 + Len(p)
        /\ \A i \in 1..(1 + Len(p)) : n[i] = IF i <= 1 THEN h[i] ELSE p[i - 1]
    <2>1. /\ Len(n) = Len(h) + Len(p)
          /\ \A i \in 1..(Len(h) + Len(p)) : n[i] = IF i <= Len(h) THEN h[i] ELSE p[i - Len(h)]
      BY <1>2, ConcatProperties
    <2> HIDE DEF n
    <2> QED BY <1>2, <2>1
  <1> HIDE DEF n
  <1>4. LastPart[n] = <<n[Len(n)]>>
    BY <1>1, LastOfName
  <1>5. n[Len(n)] = p[Len(p)] /\ n[1] = q /\ Len(n) > 1
    <2>1. 1 + Len(p) \in 1..(1 + Len(p)) /\ ~(1 + Len(p) <= 1) /\ 1 + Len(p) - 1 = Len(p)
      OBVIOUS
    <2>2. n[1 + Len(p)] = p[Len(p)]
      BY <1>3, <2>1
    <2>3. 1 \in 1..(1 + Len(p)) /\ 1 <= 1
      OBVIOUS
    <2>4. n[1] = q
      BY <1>2, <1>3, <2>3
    <2> QED BY <1>3, <2>2, <2>4
  <1>6. LastPart[n] = <<p[Len(p)]>>
    BY <1>4, <1>5
  <1> QED BY <1>5, <1>6 DEF n, h

LEMMA RoutineNames ==
  ASSUME NEW q \in {Qualifier, "$fn"}, NEW p \in Seq(Id), Len(p) \in 1..MaxNest
  PROVE  /\ LastPart[<<q>> \o p] = <<p[Len(p)]>>
         /\ Len(<<q>> \o p) > 1 /\ (<<q>> \o p)[1] = q
  <1>1. p \in [1..Len(p) -> Id] /\ Len(p) \in Nat /\ Len(p) > 0
    BY LenProperties
  <1>2. p \in Paths
    BY <1>1 DEF Paths
  <1> DEFINE S == Id \cup {q}
  <1>3. q \in S /\ p \in Seq(S)
    <2>1. Id \subseteq S
      OBVIOUS
    <2>2. q \in S
      OBVIOUS
    <2> HIDE DEF S
    <2>3. p \in Seq(S)
      BY <2>1
    <2> QED BY <2>2, <2>3
  <1> HIDE DEF S
  <1> QED BY <1>1, <1>2, <1>3, PathNames

LEMMA MainName ==
  /\ LastPart[<<"$fn", "main">>] = <<"main">>
  /\ Len(<<"$fn", "main">>) > 1 /\ <<"$fn", "main">>[1] = "$fn"
  <1> DEFINE p == <<"main">>
             S == {"$fn", "main"}
             n == <<"$fn", "main">>
  <1>1. p \in Paths
    BY DEF Paths
  <1>2. Len(p) = 1 /\ p[1] = "main" /\ p \in Seq(S) /\ "$fn" \in S
    OBVIOUS
  <1>3. <<"$fn">> \o p = n
    <2> DEFINE h == <<"$fn">>
    <2>1. h \in Seq(S) /\ Len(h) = 1 /\ h[1] = "$fn"
      OBVIOUS
    <2>2. n \in Seq(S) /\ Len(n) = 2 /\ n[1] = "$fn" /\ n[2] = "main"
      OBVIOUS
    <2> HIDE DEF h, p, n, S
    <2>3. /\ h \o p \in Seq(S) /\ Len(h \o p) = 2
          /\ \A i \in 1..2 : (h \o p)[i] = IF i <= 1 THEN h[i] ELSE p[i - 1]
      BY <1>2, <2>1, ConcatProperties
    <2>4. (h \o p)[1] = n[1] /\ (h \o p)[2] = n[2]
      <3>1. 1 \in 1..2 /\ 2 \in 1..2 /\ 1 <= 1 /\ ~(2 <= 1) /\ 2 - 1 = 1
        OBVIOUS
      <3> QED BY <1>2, <2>1, <2>2, <2>3, <3>1
    <2>5. \A i \in 1..Len(n) : (h \o p)[i] = n[i]
      <3>1. \A i \in 1..2 : i = 1 \/ i = 2
        OBVIOUS
      <3> QED BY <2>2, <2>4, <3>1
    <2>6. h \o p = n
      BY <2>2, <2>3, <2>5, SeqEqual
    <2> QED BY <2>6 DEF h
  <1>4. "$fn" \in {Qualifier, "$fn"}
    OBVIOUS
  <1> HIDE DEF p, S, n
  <1>5. LastPart[<<"$fn">> \o p] = <<p[Len(p)]>> /\ Len(<<"$fn">> \o p) > 1
        /\ (<<"$fn">> \o p)[1] = "$fn"
    BY <1>1, <1>2, <1>4, PathNames
  <1>6. LastPart[n] = <<"main">> /\ Len(n) > 1 /\ n[1] = "$fn"
    BY <1>2, <1>3, <1>5
  <1> QED BY <1>6 DEF n

\* Paths of the routines being walked.
LEMMA Around ==
  ASSUME NEW s \in Seq(Id), NEW n \in 0..Len(s)
  PROVE  /\ SubSeq(s, 1, n) \in Seq(Id) /\ Len(SubSeq(s, 1, n)) = n
         /\ \A i \in 1..n : SubSeq(s, 1, n)[i] = s[i]
  <1>1. SubSeq(s, 1, n) \in Seq(Id)
    OBVIOUS
  <1>2. Len(SubSeq(s, 1, n)) = n
    OBVIOUS
  <1>3. \A i \in 1..n : SubSeq(s, 1, n)[i] = s[i]
    OBVIOUS
  <1> QED BY <1>1, <1>2, <1>3

LEMMA AroundEntered ==
  ASSUME NEW s \in Seq(Id), NEW x \in Id
  PROVE  /\ Append(s, x) \in Seq(Id) /\ Len(Append(s, x)) = Len(s) + 1
         /\ Append(s, x)[Len(s) + 1] = x
         /\ \A i \in 1..Len(s) : Append(s, x)[i] = s[i]
         /\ \A n \in 0..Len(s) : SubSeq(Append(s, x), 1, n) = SubSeq(s, 1, n)
         /\ s = SubSeq(s, 1, Len(s))
  <1> DEFINE t == Append(s, x)
  <1>1. t \in Seq(Id) /\ Len(t) = Len(s) + 1
    BY AppendProperties
  <1>2. t[Len(s) + 1] = x /\ \A i \in 1..Len(s) : t[i] = s[i]
    BY AppendProperties
  <1> HIDE DEF t
  <1>3. ASSUME NEW n \in 0..Len(s) PROVE SubSeq(t, 1, n) = SubSeq(s, 1, n)
    <2>1. n \in 0..Len(t) /\ n \in Nat
      BY <1>1
    <2>2. /\ SubSeq(t, 1, n) \in Seq(Id) /\ Len(SubSeq(t, 1, n)) = n
          /\ \A i \in 1..n : SubSeq(t, 1, n)[i] = t[i]
      BY <1>1, <2>1, Around
    <2>3. /\ SubSeq(s, 1, n) \in Seq(Id) /\ Len(SubSeq(s, 1, n)) = n
          /\ \A i \in 1..n : SubSeq(s, 1, n)[i] = s[i]
      BY Around
    <2>4. \A i \in 1..n : SubSeq(t, 1, n)[i] = SubSeq(s, 1, n)[i]
      BY <1>2, <2>2, <2>3
    <2> QED BY <2>2, <2>3, <2>4, SeqEqual
  <1>4. s = SubSeq(s, 1, Len(s))
    OBVIOUS
  <1> QED BY <1>1, <1>2, <1>3, <1>4 DEF t

LEMMA AroundLeft ==
  ASSUME NEW s \in Seq(Id), Len(s) > 0
  PROVE  /\ Outer(s) \in Seq(Id) /\ Len(Outer(s)) = Len(s) - 1
         /\ \A i \in 1..(Len(s) - 1) : Outer(s)[i] = s[i]
         /\ \A n \in 0..(Len(s) - 1) : SubSeq(Outer(s), 1, n) = SubSeq(s, 1, n)
  <1> DEFINE t == Outer(s)
  <1>1. t \in Seq(Id) /\ Len(t) = Len(s) - 1 /\ \A i \in 1..(Len(s) - 1) : t[i] = s[i]
    BY Left
  <1> HIDE DEF t
  <1>2. ASSUME NEW n \in 0..(Len(s) - 1) PROVE SubSeq(t, 1, n) = SubSeq(s, 1, n)
    <2>1. n \in 0..Len(t) /\ n \in 0..Len(s) /\ n \in Nat
      BY <1>1
    <2>2. /\ SubSeq(t, 1, n) \in Seq(Id) /\ Len(SubSeq(t, 1, n)) = n
          /\ \A i \in 1..n : SubSeq(t, 1, n)[i] = t[i]
      BY <1>1, <2>1, Around
    <2>3. /\ SubSeq(s, 1, n) \in Seq(Id) /\ Len(SubSeq(s, 1, n)) = n
          /\ \A i \in 1..n : SubSeq(s, 1, n)[i] = s[i]
      BY <2>1, Around
    <2>4. \A i \in 1..n : SubSeq(t, 1, n)[i] = SubSeq(s, 1, n)[i]
      BY <1>1, <2>1, <2>2, <2>3
    <2> QED BY <2>2, <2>3, <2>4, SeqEqual
  <1> QED BY <1>1, <1>2 DEF t

-------------------------------------------------------------------------------
(* The level of a declaration tells its routine and whether it is a        *)
(* parameter.                                                              *)

LEMMA Levels ==
  ASSUME NEW d, Len(d.data.of) \in Nat
  PROVE  /\ Level("names", d) \in Nat /\ Level("names", d) >= 1
         /\ d.data.sort = "param" => Level("names", d) = 2 * Len(d.data.of) + 1
         /\ d.data.sort # "param" => Level("names", d) = 2 * Len(d.data.of) + 2
         /\ Level("places", d) = Len(d.data.of) + 2
  <1> DEFINE n == Len(d.data.of)
  <1>1. n \in Nat /\ Level("places", d) = n + 2
    BY DEF Level
  <1>2. CASE d.data.sort = "param"
    <2>1. Level("names", d) = 2 * n + 1
      BY <1>2 DEF Level
    <2> HIDE DEF n
    <2> QED BY <1>1, <1>2, <2>1 DEF n
  <1>3. CASE d.data.sort # "param"
    <2>1. Level("names", d) = 2 * n + 2
      BY <1>3 DEF Level
    <2> HIDE DEF n
    <2> QED BY <1>1, <1>3, <2>1 DEF n
  <1> QED BY <1>2, <1>3

-------------------------------------------------------------------------------
(* The walk goes on in the same routine.                                   *)

\* The routines being walked stay the same, whatever part of them is walked.
SameRoutines ==
    /\ scope' = scope /\ Len(part') = Len(part)
    /\ \A k \in 1..Len(part) : part'[k].sort = part[k].sort /\ part'[k].params = part[k].params

LEMMA MovedOn ==
  ASSUME Nested, NEW g \in Walk, part' = [part EXCEPT ![Len(part)] = g], UNCHANGED scope,
         g.sort = Here.sort, g.params = Here.params
  PROVE  SameRoutines /\ (Here.phase)' = g.phase
  <1>1. part \in Seq(Walk) /\ Len(part) > 0 /\ Len(part) \in Nat
    BY HereIn DEF Nested
  <1>2. /\ part' \in Seq(Walk) /\ Len(part') = Len(part) /\ part'[Len(part')] = g
        /\ \A k \in 1..(Len(part) - 1) : part'[k] = part[k]
    BY <1>1, Replaced
  <1>3. ASSUME NEW k \in 1..Len(part)
        PROVE  part'[k].sort = part[k].sort /\ part'[k].params = part[k].params
    <2>1. CASE k \in 1..(Len(part) - 1)
      BY <1>2, <2>1
    <2>2. CASE k = Len(part)
      BY <1>2, <2>2 DEF Here
    <2> QED BY <1>1, <2>1, <2>2
  <1>4. (Here.phase)' = g.phase
    BY <1>2 DEF Here
  <1> QED BY <1>2, <1>3, <1>4 DEF SameRoutines

LEMMA SameAfterMove ==
  ASSUME Nested, NEW phase \in Phases, Move(phase), UNCHANGED scope
  PROVE  SameRoutines /\ (Here.phase)' = phase
  <1> DEFINE g == [Here EXCEPT !.phase = phase]
  <1>1. Here \in Walk
    BY HereIn
  <1>2. g \in Walk /\ g.phase = phase /\ g.sort = Here.sort /\ g.params = Here.params
    BY <1>1 DEF Walk
  <1>3. part' = [part EXCEPT ![Len(part)] = g]
    BY DEF Move, Here
  <1> HIDE DEF g
  <1> QED BY <1>2, <1>3, MovedOn

LEMMA SameAsBefore ==
  ASSUME UNCHANGED <<scope, part>>
  PROVE  SameRoutines /\ (Here.phase)' = Here.phase
  BY DEF SameRoutines, Here

LEMMA RoutinesStay ==
  ASSUME Nested, SameRoutines, NEW d
  PROVE  /\ \A k \in 1..Len(scope) : IsRoutine(d, k)' <=> IsRoutine(d, k)
         /\ Proper(d)' <=> Proper(d)
         /\ Len(scope') = Len(scope)
  <1>1. \A k \in 1..Len(scope) : k + 1 \in 1..Len(part)
    BY DEF Nested
  <1>2. scope' = scope
    BY DEF SameRoutines
  <1>3. \A k \in 1..Len(scope) : IsRoutine(d, k)' <=> IsRoutine(d, k)
    BY <1>1, <1>2 DEF SameRoutines, IsRoutine
  <1>4. Proper(d)' <=> Proper(d)
    BY <1>2 DEF Proper
  <1> QED BY <1>2, <1>3, <1>4

LEMMA HistoryGrows ==
  ASSUME Nested, History, SameRoutines, NEW r, decls' = Append(decls, r),
         Proper(r), Timely(r)', \A d \in Declared : Timely(d)',
         \A d \in Declared : Level("names", d) <= Level("names", r),
         \A d \in Declared : ~(d.name = r.name /\ Level("names", d) = Level("names", r))
  PROVE  History' /\ Declared' = Declared \cup {r}
  <1>1. /\ Ordered(decls) /\ \A d \in Declared : Proper(d) /\ Timely(d)
        /\ \A k \in 1..Len(scope) : \E d \in Declared : IsRoutine(d, k)
    BY DEF History
  <1>2. Level("names", r) \in Nat
    <2>1. Len(r.data.of) \in Nat
      BY DEF Proper
    <2> QED BY <2>1, Levels
  <1>3. Ordered(decls') /\ Declared' = Declared \cup {r}
    BY <1>1, <1>2, OrderedAppend DEF Declared
  <1>4. \A d \in Declared' : Proper(d)' /\ Timely(d)'
    BY <1>1, <1>3, RoutinesStay
  <1>5. ASSUME NEW k \in 1..Len(scope') PROVE \E d \in Declared' : IsRoutine(d, k)'
    <2>1. k \in 1..Len(scope)
      BY DEF SameRoutines
    <2>2. PICK d \in Declared : IsRoutine(d, k)
      BY <1>1, <2>1
    <2>3. IsRoutine(d, k)'
      BY <2>1, <2>2, RoutinesStay
    <2> QED BY <1>3, <2>2, <2>3
  <1>6. History'
    BY <1>3, <1>4, <1>5 DEF History
  <1> QED BY <1>3, <1>6

LEMMA HistoryStays ==
  ASSUME Nested, History, SameRoutines, UNCHANGED decls, \A d \in Declared : Timely(d)'
  PROVE  History' /\ Declared' = Declared
  <1>1. /\ Ordered(decls) /\ \A d \in Declared : Proper(d) /\ Timely(d)
        /\ \A k \in 1..Len(scope) : \E d \in Declared : IsRoutine(d, k)
    BY DEF History
  <1>2. Ordered(decls') /\ Declared' = Declared
    BY <1>1 DEF Declared
  <1>3. \A d \in Declared' : Proper(d)' /\ Timely(d)'
    BY <1>1, <1>2, RoutinesStay
  <1>4. ASSUME NEW k \in 1..Len(scope') PROVE \E d \in Declared' : IsRoutine(d, k)'
    <2>1. k \in 1..Len(scope)
      BY DEF SameRoutines
    <2>2. PICK d \in Declared : IsRoutine(d, k)
      BY <1>1, <2>1
    <2>3. IsRoutine(d, k)'
      BY <2>1, <2>2, RoutinesStay
    <2> QED BY <1>2, <2>2, <2>3
  <1>5. History'
    BY <1>2, <1>3, <1>4 DEF History
  <1> QED BY <1>2, <1>5

\* Where a declaration may be: no further in than the routine being walked.
LEMMA Reach ==
  ASSUME Nested, History, NEW d \in Declared
  PROVE  /\ Len(scope) \in Nat /\ Len(d.data.of) \in 0..Len(scope)
         /\ Level("names", d) \in Nat /\ Level("names", d) <= 2 * Len(scope) + 2
         /\ Len(d.data.of) # Len(scope) => Level("names", d) <= 2 * Len(scope)
         /\ Len(d.data.of) = Len(scope) => Level("names", d) >= 2 * Len(scope) + 1
         /\ Here.phase \notin InProg => Level("names", d) <= 2 * Len(scope) + 1
  <1>1. Proper(d) /\ Timely(d)
    BY DEF History
  <1>2. Len(scope) \in Nat
    BY HereIn
  <1>3. Len(d.data.of) \in 0..Len(scope) /\ Len(d.data.of) \in Nat
    BY <1>1, <1>2 DEF Proper
  <1>4. /\ Level("names", d) \in Nat
        /\ d.data.sort = "param" => Level("names", d) = 2 * Len(d.data.of) + 1
        /\ d.data.sort # "param" => Level("names", d) = 2 * Len(d.data.of) + 2
    BY <1>3, Levels
  <1>5. Here.phase \notin InProg /\ Len(d.data.of) = Len(scope) => d.data.sort = "param"
    BY <1>1 DEF Timely
  <1> DEFINE n == Len(d.data.of)
             m == Len(scope)
             l == Level("names", d)
  <1>6. n \in 0..m /\ m \in Nat /\ l \in Nat /\ (l = 2 * n + 1 \/ l = 2 * n + 2)
        /\ (Here.phase \notin InProg /\ n = m => l = 2 * n + 1)
    BY <1>2, <1>3, <1>4, <1>5
  <1> HIDE DEF n, m, l
  <1>7. /\ l <= 2 * m + 2 /\ (n # m => l <= 2 * m) /\ (n = m => l >= 2 * m + 1)
        /\ (Here.phase \notin InProg => l <= 2 * m + 1)
    BY <1>6
  <1> QED BY <1>6, <1>7 DEF n, m, l

-------------------------------------------------------------------------------
(* The tables of routines hold those whose header has been walked.         *)

Kinds == {"proc", "func"}

LEMMA RecordsStay ==
  ASSUME Recorded(proctb, "proc"), Recorded(functb, "func"), UNCHANGED <<proctb, functb>>,
         \A d \in Declared : d \in Declared' /\ (Pending(d)' <=> Pending(d)),
         \A d \in Declared' : d \in Declared \/ d.data.sort \notin Kinds \/ Pending(d)'
  PROVE  Recorded(proctb, "proc")' /\ Recorded(functb, "func")'
  <1>1. /\ \A d \in Declared : d.data.sort = "proc" /\ ~Pending(d) =>
             \E r \in Recs(proctb) : Stands(r, d)
        /\ \A r \in Recs(proctb) :
             \E d \in Declared : d.data.sort = "proc" /\ ~Pending(d) /\ Stands(r, d)
    BY DEF Recorded
  <1>2. /\ \A d \in Declared : d.data.sort = "func" /\ ~Pending(d) =>
             \E r \in Recs(functb) : Stands(r, d)
        /\ \A r \in Recs(functb) :
             \E d \in Declared : d.data.sort = "func" /\ ~Pending(d) /\ Stands(r, d)
    BY DEF Recorded
  <1>3. /\ \A d \in Declared' : d.data.sort = "proc" /\ ~Pending(d)' =>
             \E r \in Recs(proctb) : Stands(r, d)
        /\ \A d \in Declared' : d.data.sort = "func" /\ ~Pending(d)' =>
             \E r \in Recs(functb) : Stands(r, d)
    BY <1>1, <1>2 DEF Kinds
  <1>4. /\ \A r \in Recs(proctb) :
             \E d \in Declared' : d.data.sort = "proc" /\ ~Pending(d)' /\ Stands(r, d)
        /\ \A r \in Recs(functb) :
             \E d \in Declared' : d.data.sort = "func" /\ ~Pending(d)' /\ Stands(r, d)
    BY <1>1, <1>2
  <1>5. Recs(proctb)' = Recs(proctb) /\ Recs(functb)' = Recs(functb)
    BY DEF Recs
  <1>6. \A r, d : Stands(r, d)' <=> Stands(r, d)
    BY DEF Stands
  <1> QED BY <1>3, <1>4, <1>5, <1>6 DEF Recorded

\* A scope leaves with its declarations.
LEMMA RecordsCut ==
  ASSUME Recorded(proctb, "proc"), Recorded(functb, "func"), NEW n,
         Recs(proctb') = {r \in Recs(proctb) : Level("names", r) < n},
         Recs(functb') = {r \in Recs(functb) : Level("names", r) < n},
         Declared' = {d \in Declared : Level("names", d) < n},
         \A d : ~Pending(d) /\ ~Pending(d)'
  PROVE  Recorded(proctb, "proc")' /\ Recorded(functb, "func")'
  <1>1. /\ \A d \in Declared : d.data.sort = "proc" => \E r \in Recs(proctb) : Stands(r, d)
        /\ \A r \in Recs(proctb) : \E d \in Declared : d.data.sort = "proc" /\ Stands(r, d)
        /\ \A d \in Declared : d.data.sort = "func" => \E r \in Recs(functb) : Stands(r, d)
        /\ \A r \in Recs(functb) : \E d \in Declared : d.data.sort = "func" /\ Stands(r, d)
    BY DEF Recorded
  <1>2. \A r, d : Stands(r, d) => Level("names", r) = Level("names", d)
    BY DEF Stands, Level
  <1>3. /\ \A d \in Declared' : d.data.sort = "proc" => \E r \in Recs(proctb') : Stands(r, d)
        /\ \A r \in Recs(proctb') : \E d \in Declared' : d.data.sort = "proc" /\ Stands(r, d)
        /\ \A d \in Declared' : d.data.sort = "func" => \E r \in Recs(functb') : Stands(r, d)
        /\ \A r \in Recs(functb') : \E d \in Declared' : d.data.sort = "func" /\ Stands(r, d)
    BY <1>1, <1>2
  <1>4. Recs(proctb)' = Recs(proctb') /\ Recs(functb)' = Recs(functb')
    BY DEF Recs
  <1>5. \A r, d : Stands(r, d)' <=> Stands(r, d)
    BY DEF Stands
  <1> QED BY <1>3, <1>4, <1>5 DEF Recorded

-------------------------------------------------------------------------------
(* What a validation that passes says: the innermost scope of the table    *)
(* asked declares no x.                                                    *)

LEMMA FreshConst ==
  ASSUME AllFiled, Tabled, NEW x, ~val!Found(<<x>>, FALSE)
  PROVE  \A d \in Declared : d.data.sort = "const" /\ d.name = <<x>> =>
           Level("names", d) # Len(valtags)
  <1>1. Innermost(valtb, valtags, <<x>>) = {}
    BY ValLooks
  <1>2. \A r \in Recs(valtb) : ~(Hit(r, <<x>>) /\ Level("names", r) = Len(valtags))
    BY <1>1, FoundHere DEF AllFiled
  <1>3. Recs(valtb) = {d \in Declared : d.data.sort = "const"}
    BY DEF Tabled
  <1> QED BY <1>2, <1>3 DEF Hit

LEMMA FreshVar ==
  ASSUME AllFiled, Tabled, NEW x, ~var!Found(<<x>>, FALSE)
  PROVE  \A d \in Declared : d.data.sort \in Variables /\ d.name = <<x>> =>
           Level("names", d) # Len(vartags)
  <1>1. Innermost(vartb, vartags, <<x>>) = {}
    BY VarLooks
  <1>2. \A r \in Recs(vartb) : ~(Hit(r, <<x>>) /\ Level("names", r) = Len(vartags))
    BY <1>1, FoundHere DEF AllFiled
  <1>3. Recs(vartb) = {d \in Declared : d.data.sort \in Variables}
    BY DEF Tabled
  <1> QED BY <1>2, <1>3 DEF Hit

LEMMA FreshProc ==
  ASSUME AllFiled, Tabled, NEW x, ~proc!Found(<<x>>, FALSE)
  PROVE  \A d \in Declared : d.data.sort = "proc" /\ ~Pending(d) /\ d.name = <<x>> =>
           Level("names", d) # Len(proctags)
  <1>1. Innermost(proctb, proctags, <<x>>) = {}
    BY ProcLooks
  <1>2. \A r \in Recs(proctb) : ~(Hit(r, <<x>>) /\ Level("names", r) = Len(proctags))
    BY <1>1, FoundHere DEF AllFiled
  <1>3. \A d \in Declared : d.data.sort = "proc" /\ ~Pending(d) =>
          \E r \in Recs(proctb) : Stands(r, d)
    BY DEF Tabled, Recorded
  <1>4. \A r, d : Stands(r, d) => Level("names", r) = Level("names", d)
    BY DEF Stands, Level
  <1>5. \A r, d : Stands(r, d) /\ d.name = <<x>> => Hit(r, <<x>>)
    BY DEF Stands, Hit
  <1> QED BY <1>2, <1>3, <1>4, <1>5

LEMMA FreshFunc ==
  ASSUME AllFiled, Tabled, NEW x, ~func!Found(<<x>>, FALSE)
  PROVE  \A d \in Declared : d.data.sort = "func" /\ ~Pending(d) /\ d.name = <<x>> =>
           Level("names", d) # Len(functags)
  <1>1. Innermost(functb, functags, <<x>>) = {}
    BY FuncLooks
  <1>2. \A r \in Recs(functb) : ~(Hit(r, <<x>>) /\ Level("names", r) = Len(functags))
    BY <1>1, FoundHere DEF AllFiled
  <1>3. \A d \in Declared : d.data.sort = "func" /\ ~Pending(d) =>
          \E r \in Recs(functb) : Stands(r, d)
    BY DEF Tabled, Recorded
  <1>4. \A r, d : Stands(r, d) => Level("names", r) = Level("names", d)
    BY DEF Stands, Level
  <1>5. \A r, d : Stands(r, d) /\ d.name = <<x>> => Hit(r, <<x>>)
    BY DEF Stands, Hit
  <1> QED BY <1>2, <1>3, <1>4, <1>5

-------------------------------------------------------------------------------
(* The places.                                                             *)

LEMMA FramesInOrderAppend ==
  ASSUME NEW t, t \in Seq(Recs(t)), FramesInOrder(t), NEW r, ~IsMain(r),
         \A q \in Recs(t) : r.data.sort = "param" /\ Len(q.data.of) = Len(r.data.of)
                            => q.data.sort = "param"
  PROVE  FramesInOrder(Append(t, r))
  <1> DEFINE u == Append(t, r)
  <1>1. /\ Len(t) \in Nat /\ Len(u) = Len(t) + 1 /\ u[Len(t) + 1] = r
        /\ \A i \in 1..Len(t) : u[i] = t[i] /\ t[i] \in Recs(t)
    BY AppendRecs DEF Recs
  <1> HIDE DEF u
  <1>7. ASSUME NEW i \in 1..Len(u), IsMain(u[i]) PROVE i = 1
    <2>1. i \in 1..Len(t) \/ u[i] = r
      BY <1>1
    <2> QED BY <1>1, <1>7, <2>1 DEF FramesInOrder
  <1>2. SUFFICES ASSUME NEW i \in 1..Len(u), NEW j \in 1..Len(u),
                        Len(u[i].data.of) = Len(u[j].data.of),
                        u[i].data.sort = "param", u[j].data.sort # "param"
                 PROVE  i < j
    BY <1>7 DEF FramesInOrder, u
  <1>3. CASE i \in 1..Len(t) /\ j \in 1..Len(t)
    <2>1. u[i] = t[i] /\ u[j] = t[j]
      BY <1>1, <1>3
    <2> QED BY <1>2, <1>3, <2>1 DEF FramesInOrder, IsMain
  <1>4. CASE i \in 1..Len(t) /\ j = Len(t) + 1
    BY <1>1, <1>4
  <1>5. CASE i = Len(t) + 1 /\ j \in 1..Len(t)
    <2>1. u[i] = r /\ u[j] \in Recs(t)
      BY <1>1, <1>5
    <2> QED BY <1>2, <2>1
  <1>6. CASE i = Len(t) + 1 /\ j = Len(t) + 1
    BY <1>2, <1>6
  <1> QED BY <1>1, <1>3, <1>4, <1>5, <1>6

LEMMA FramesInOrderPrefix ==
  ASSUME NEW t, t \in Seq(Recs(t)), FramesInOrder(t), NEW n \in 0..Len(t)
  PROVE  FramesInOrder(SubSeq(t, 1, n))
  <1> DEFINE u == SubSeq(t, 1, n)
  <1>1. Len(t) \in Nat /\ n \in Nat /\ Len(u) = n /\ \A i \in 1..n : u[i] = t[i] /\ i \in 1..Len(t)
    BY PrefixRecs
  <1> HIDE DEF u
  <1>2. FramesInOrder(u)
    BY <1>1 DEF FramesInOrder, IsMain
  <1> QED BY <1>2 DEF u

\* A place stays one while the walk goes on in the same routine.
LEMMA PlaceStays ==
  ASSUME UNCHANGED scope, NEW r, IsPlace(r),
         \A d \in Declared : d \in Declared' \/ (Here.phase = "body" /\ (Here.phase)' = "end"
                                                 /\ Len(d.data.of) = Len(scope)),
         (Here.phase)' = "params" => Here.phase = "params",
         Here.phase = "end" => (Here.phase)' = "end"
  PROVE  IsPlace(r)'
  <1>1. IsVariable(r) => IsVariable(r)'
    BY DEF IsVariable
  <1>2. (IsDisplay(r) <=> IsDisplay(r)') /\ (IsResult(r) <=> IsResult(r)')
    BY DEF IsDisplay, IsResult, LastOfPath
  <1> QED BY <1>1, <1>2 DEF IsPlace

LEMMA PlacesStay ==
  ASSUME Nested, Placed, SameRoutines,
         \A r \in Recs(loctb) : r \in Recs(loctb') /\ IsPlace(r)',
         \A r \in Recs(loctb') : r \in Recs(loctb) \/ IsPlace(r)',
         \A d \in Declared' : d \in Declared \/ d.data.sort \notin Variables \/ d \in Recs(loctb'),
         Here.phase \in {"params", "header"} =>
             \/ (Here.phase)' \in {"params", "header"}
             \/ (part[Len(part)].sort = "func" => HasResult(Len(part))'),
         FramesInOrder(loctb')
  PROVE  Placed'
  <1>1. /\ \A d \in Declared : d.data.sort \in Variables => d \in Recs(loctb)
        /\ \A k \in 2..Len(part) : part[k].sort = "func" /\ Opened(k) => HasResult(k)
    BY DEF Placed
  <1>2. Recs(loctb)' = Recs(loctb')
    BY DEF Recs
  <1>3. \A d \in Declared' : d.data.sort \in Variables' => d \in Recs(loctb)'
    BY <1>1, <1>2 DEF Variables
  <1>4. \A r \in Recs(loctb)' : IsPlace(r)'
    BY <1>2
  <1>5. ASSUME NEW k \in 2..Len(part'), part'[k].sort = "func", Opened(k)'
        PROVE  HasResult(k)'
    <2>1. k \in 2..Len(part) /\ part[k].sort = "func" /\ Len(part) \in Nat
      BY <1>5, HereIn DEF SameRoutines, Nested
    <2>2. CASE Opened(k)
      <3>1. PICK r \in Recs(loctb) : IsResult(r) /\ r.data.of = SubSeq(scope, 1, k - 1)
        BY <1>1, <2>1, <2>2 DEF HasResult
      <3>2. IsResult(r)' /\ r.data.of = SubSeq(scope', 1, k - 1)
        BY <3>1 DEF IsResult, LastOfPath, SameRoutines
      <3> QED BY <1>2, <3>1, <3>2 DEF HasResult
    <2>3. CASE ~Opened(k)
      <3>1. k = Len(part) /\ Here.phase \in {"params", "header"}
        BY <2>1, <2>3 DEF Opened
      <3>2. (Here.phase)' \notin {"params", "header"}
        BY <1>5, <3>1 DEF Opened, SameRoutines
      <3>3. HasResult(Len(part))'
        BY <2>1, <3>1, <3>2
      <3> QED BY <3>1, <3>3 DEF HasResult, SameRoutines
    <2> QED BY <2>2, <2>3
  <1>6. FramesInOrder(loctb)'
    BY DEF FramesInOrder, IsMain
  <1> QED BY <1>3, <1>4, <1>5, <1>6 DEF Placed

-------------------------------------------------------------------------------
(* The steps.  A step after which no error is reported follows a state in  *)
(* which none was.                                                         *)

LEMMA FiledNext ==
  ASSUME Filed(valtb', valtags', "names"), Filed(vartb', vartags', "names"),
         Filed(proctb', proctags', "names"), Filed(functb', functags', "names"),
         Filed(loctb', loctags', "places")
  PROVE  AllFiled'
  BY DEF AllFiled

LEMMA TabledNext ==
  ASSUME Recs(valtb') = {d \in Declared' : d.data.sort = "const"},
         Recs(vartb') = {d \in Declared' : d.data.sort \in Variables},
         Recorded(proctb, "proc")', Recorded(functb, "func")'
  PROVE  Tabled'
  BY DEF Tabled, Variables, Recs

\* The lengths of the tags, for each part of a routine.
LEMMA TagsNow ==
  ASSUME StepInv
  PROVE  /\ Len(scope) \in Nat /\ Len(loctags) = Len(scope) + 2
         /\ Here.phase \in InProg =>
              /\ Len(valtags) = 2 * Len(scope) + 2 /\ Len(vartags) = 2 * Len(scope) + 2
              /\ Len(proctags) = 2 * Len(scope) + 2 /\ Len(functags) = 2 * Len(scope) + 2
         /\ Here.phase \notin InProg =>
              /\ Len(valtags) = 2 * Len(scope) + 1 /\ Len(vartags) = 2 * Len(scope) + 1
         /\ Here.phase \in {"params", "header"} =>
              /\ Len(proctags) = 2 * Len(scope) /\ Len(functags) = 2 * Len(scope)
         /\ Here.phase \in {"prog", "end"} =>
              /\ Len(proctags) = 2 * Len(scope) + 1 /\ Len(functags) = 2 * Len(scope) + 1
  <1>1. Len(scope) \in Nat /\ InStep
    BY HereIn DEF StepInv
  <1> QED BY <1>1 DEF InStep, InProg

\* A new declaration of the routine being walked, not a parameter.
LEMMA NewHere ==
  ASSUME StepInv, History, NEW x \in Id, ~Own(x), NEW r, r.name = <<x>>,
         r.data.of = scope, r.data.sort \in {"const", "var", "proc", "func"}
  PROVE  /\ Proper(r) /\ Level("names", r) = 2 * Len(scope) + 2
         /\ Level("places", r) = Len(scope) + 2
         /\ \A d \in Declared : Level("names", d) <= Level("names", r)
  <1>1. scope \in Seq(Id) /\ Len(scope) \in Nat /\ Nested
    BY HereIn DEF StepInv, Nested
  <1>2. scope = SubSeq(scope, 1, Len(scope))
    BY <1>1
  <1>3. Len(scope) > 0 => <<x>> # <<scope[Len(scope)]>>
    <2>1. Len(scope) > 0 => x # scope[Len(scope)]
      BY DEF Own
    <2> QED BY <2>1
  <1>4. Len(scope) \in 0..Len(scope)
    BY <1>1
  <1>5. Proper(r)
    BY <1>2, <1>3, <1>4 DEF Proper
  <1>6. Level("names", r) = 2 * Len(scope) + 2 /\ Level("places", r) = Len(scope) + 2
    BY <1>1, Levels
  <1> QED BY <1>1, <1>5, <1>6, Reach

\* No declaration of the routine being walked, parameters apart, has the name
\* of the new one.
LEMMA NoClash ==
  ASSUME StepInv, History, Here.phase \in InProg, NEW r, Level("names", r) = 2 * Len(scope) + 2,
         \A d \in Declared : d.name = r.name /\ d.data.sort # "param" =>
           Level("names", d) # 2 * Len(scope) + 2
  PROVE  \A d \in Declared : ~(d.name = r.name /\ Level("names", d) = Level("names", r))
  <1> SUFFICES ASSUME NEW d \in Declared, d.name = r.name, Level("names", d) = 2 * Len(scope) + 2,
                      d.data.sort = "param"
               PROVE  FALSE
    OBVIOUS
  <1>1. Nested
    BY DEF StepInv
  <1>2. Len(d.data.of) \in 0..Len(scope) /\ Len(scope) \in Nat
    BY <1>1, Reach
  <1>3. Level("names", d) = 2 * Len(d.data.of) + 1 /\ Len(d.data.of) \in Nat
    BY <1>2, Levels
  <1> QED BY <1>2, <1>3

LEMMA ConstMeant ==
  ASSUME StepInv, Meant, NEW x \in Id, ConstStmt(x), status' = "ok"
  PROVE  Meant'
  <1>0. PICK r : r = Record(<<x>>, "const", 0)
    OBVIOUS
  <1>1. /\ Here.phase = "const" /\ ~Own(x)
        /\ ~val!Found(<<x>>, FALSE) /\ ~var!Found(<<x>>, FALSE)
        /\ valtb' = Append(valtb, r) /\ decls' = Append(decls, r)
        /\ UNCHANGED <<valtags, vartb, vartags, proctb, proctags, functb, functags, loctb,
                       loctags, scope, part>>
    BY <1>0 DEF ConstStmt, Report, val!Push, Declare
  <1>2. r.name = <<x>> /\ r.data.of = scope /\ r.data.sort = "const"
    BY <1>0 DEF Record, Described
  <1>3. Bounded /\ AllFiled /\ History /\ Tabled /\ Placed /\ Nested
    BY DEF Meant, StepInv
  <1>4. SameRoutines /\ (Here.phase)' = Here.phase
    BY <1>1, SameAsBefore
  <1>5. /\ Proper(r) /\ Level("names", r) = 2 * Len(scope) + 2
        /\ \A d \in Declared : Level("names", d) <= Level("names", r)
    BY <1>1, <1>2, <1>3, NewHere
  <1>6. Here.phase \in InProg /\ Len(valtags) = 2 * Len(scope) + 2 /\ Len(vartags) = 2 * Len(scope) + 2
    BY <1>1, TagsNow DEF InProg
  <1>7. \A d \in Declared : ~(d.name = r.name /\ Level("names", d) = Level("names", r))
    <2>1. ASSUME NEW d \in Declared, d.name = <<x>>, d.data.sort # "param",
                 Level("names", d) = 2 * Len(scope) + 2
          PROVE  FALSE
      <3>1. Proper(d) /\ Timely(d)
        BY <1>3 DEF History
      <3>2. d.data.sort # "const" /\ d.data.sort \notin Variables
        BY <1>1, <1>3, <1>6, <2>1, FreshConst, FreshVar
      <3>3. Len(d.data.of) \in Nat /\ Len(scope) \in Nat /\ Level("names", d) = 2 * Len(d.data.of) + 2
        BY <1>3, <2>1, Reach, Levels
      <3>4. Len(d.data.of) = Len(scope)
        BY <2>1, <3>3
      <3> QED BY <1>1, <3>1, <3>2, <3>4 DEF Proper, Timely, Variables
    <2> QED BY <1>2, <1>3, <1>5, <1>6, <2>1, NoClash
  <1>8. History' /\ Declared' = Declared \cup {r}
    <2>1. \A d \in Declared : Timely(d)'
      BY <1>1, <1>3, <1>4 DEF History, Timely
    <2>2. Timely(r)'
      BY <1>1, <1>2, <1>4 DEF Timely, InProg
    <2> QED BY <1>1, <1>3, <1>4, <1>5, <1>7, <2>1, <2>2, HistoryGrows
  <1>9. AllFiled'
    <2>1. Filed(valtb, valtags, "names") /\ Level("names", r) = Len(valtags)
      BY <1>3, <1>5, <1>6 DEF AllFiled
    <2>2. valtb' = Append(valtb, r) /\ valtags' = valtags
      BY <1>1
    <2>3. Filed(valtb', valtags', "names")
      BY <2>1, <2>2, FiledPush
    <2> QED BY <1>1, <1>3, <2>3, FiledNext DEF AllFiled
  <1>10. Recs(valtb') = Recs(valtb) \cup {r}
    <2>1. Filed(valtb, valtags, "names") /\ Level("names", r) = Len(valtags)
      BY <1>3, <1>5, <1>6 DEF AllFiled
    <2>2. valtb' = Append(valtb, r) /\ valtags' = valtags
      BY <1>1
    <2> QED BY <2>1, <2>2, FiledPush
  <1>11. Tabled'
    <2>1. \A d : ~Pending(d) /\ ~Pending(d)'
      BY <1>1, <1>4 DEF Pending
    <2>2. Recorded(proctb, "proc")' /\ Recorded(functb, "func")'
      BY <1>1, <1>2, <1>3, <1>8, <2>1, RecordsStay DEF Tabled, Kinds
    <2> QED BY <1>1, <1>2, <1>3, <1>8, <1>10, <2>2, TabledNext DEF Tabled, Variables
  <1>12. Placed'
    <2>1. \A q \in Recs(loctb) : IsPlace(q)'
      BY <1>1, <1>3, <1>4, <1>8, PlaceStays DEF Placed
    <2> QED BY <1>1, <1>2, <1>3, <1>4, <1>8, <2>1, PlacesStay DEF Placed, Variables
  <1>13. Bounded'
    BY <1>1, <1>3, <1>4 DEF Bounded
  <1> QED BY <1>8, <1>9, <1>11, <1>12, <1>13 DEF Meant

\* A variable is pushed to its table and given a place.
LEMMA VarMeant ==
  ASSUME StepInv, Meant, NEW x \in Id, VarStmt(x), status' = "ok"
  PROVE  Meant'
  <1>0. PICK r : r = Record(<<x>>, "var", 0)
    OBVIOUS
  <1>1. /\ Here.phase \in {"const", "var"} /\ Move("var") /\ ~Own(x)
        /\ ~val!Found(<<x>>, FALSE) /\ ~var!Found(<<x>>, FALSE)
        /\ vartb' = Append(vartb, r) /\ loctb' = Append(loctb, r) /\ decls' = Append(decls, r)
        /\ UNCHANGED <<valtb, valtags, vartags, proctb, proctags, functb, functags, loctags, scope>>
    BY <1>0 DEF VarStmt, Report, var!Push, loc!Push, Declare
  <1>2. r.name = <<x>> /\ r.data.of = scope /\ r.data.sort = "var"
    BY <1>0 DEF Record, Described
  <1>3. Bounded /\ AllFiled /\ History /\ Tabled /\ Placed /\ Nested
    BY DEF Meant, StepInv
  <1>4. SameRoutines /\ (Here.phase)' = "var"
    BY <1>1, <1>3, SameAfterMove DEF Phases, InProg
  <1>5. /\ Proper(r) /\ Level("names", r) = 2 * Len(scope) + 2
        /\ Level("places", r) = Len(scope) + 2
        /\ \A d \in Declared : Level("names", d) <= Level("names", r)
    BY <1>1, <1>2, <1>3, NewHere
  <1>6. /\ Here.phase \in InProg /\ Len(valtags) = 2 * Len(scope) + 2
        /\ Len(vartags) = 2 * Len(scope) + 2 /\ Len(loctags) = Len(scope) + 2
        /\ Len(scope) \in Nat
    BY <1>1, TagsNow DEF InProg
  <1>7. \A d \in Declared : ~(d.name = r.name /\ Level("names", d) = Level("names", r))
    <2>1. ASSUME NEW d \in Declared, d.name = <<x>>, d.data.sort # "param",
                 Level("names", d) = 2 * Len(scope) + 2
          PROVE  FALSE
      <3>1. Proper(d) /\ Timely(d)
        BY <1>3 DEF History
      <3>2. d.data.sort # "const" /\ d.data.sort \notin Variables
        BY <1>1, <1>3, <1>6, <2>1, FreshConst, FreshVar
      <3>3. Len(d.data.of) \in Nat /\ Len(scope) \in Nat /\ Level("names", d) = 2 * Len(d.data.of) + 2
        BY <1>3, <2>1, Reach, Levels
      <3>4. Len(d.data.of) = Len(scope)
        BY <2>1, <3>3
      <3> QED BY <1>1, <3>1, <3>2, <3>4 DEF Proper, Timely, Variables
    <2> QED BY <1>2, <1>3, <1>5, <1>6, <2>1, NoClash
  <1>8. History' /\ Declared' = Declared \cup {r}
    <2>1. \A d \in Declared : Timely(d)'
      BY <1>1, <1>3, <1>4, <1>6 DEF History, Timely, InProg
    <2>2. Timely(r)'
      BY <1>2, <1>4 DEF Timely, InProg
    <2> QED BY <1>1, <1>3, <1>4, <1>5, <1>7, <2>1, <2>2, HistoryGrows
  <1>9. Filed(vartb', vartags', "names") /\ Recs(vartb') = Recs(vartb) \cup {r}
    <2>1. Filed(vartb, vartags, "names") /\ Level("names", r) = Len(vartags)
      BY <1>3, <1>5, <1>6 DEF AllFiled
    <2>2. vartb' = Append(vartb, r) /\ vartags' = vartags
      BY <1>1
    <2> QED BY <2>1, <2>2, FiledPush
  <1>10. Filed(loctb', loctags', "places") /\ Recs(loctb') = Recs(loctb) \cup {r}
    <2>1. Filed(loctb, loctags, "places") /\ Level("places", r) = Len(loctags)
      BY <1>3, <1>5, <1>6 DEF AllFiled
    <2>2. loctb' = Append(loctb, r) /\ loctags' = loctags
      BY <1>1
    <2> QED BY <2>1, <2>2, FiledPush
  <1>11. AllFiled'
    BY <1>1, <1>3, <1>9, <1>10, FiledNext DEF AllFiled
  <1>12. Tabled'
    <2>1. \A d : ~Pending(d) /\ ~Pending(d)'
      BY <1>1, <1>4 DEF Pending
    <2>2. Recorded(proctb, "proc")' /\ Recorded(functb, "func")'
      BY <1>1, <1>2, <1>3, <1>8, <2>1, RecordsStay DEF Tabled, Kinds
    <2> QED BY <1>1, <1>2, <1>3, <1>8, <1>9, <2>2, TabledNext DEF Tabled, Variables
  <1>13. Placed'
    <2>1. \A q \in Recs(loctb) : IsPlace(q)'
      BY <1>1, <1>3, <1>4, <1>8, PlaceStays DEF Placed
    <2>2. IsPlace(r)'
      <3>1. IsVariable(r)'
        BY <1>2, <1>8 DEF IsVariable, Variables
      <3>2. Len(r.data.of) \in 0..Len(scope) /\ r.data.of = SubSeq(scope, 1, Len(r.data.of))
        BY <1>5 DEF Proper
      <3> QED BY <1>1, <1>4, <3>1, <3>2 DEF IsPlace
    <2>3. FramesInOrder(loctb')
      <3>1. loctb \in Seq(Recs(loctb))
        BY <1>3 DEF AllFiled, Filed
      <3> QED BY <1>1, <1>2, <1>3, <3>1, FramesInOrderAppend DEF Placed, IsMain
    <2> QED BY <1>1, <1>2, <1>3, <1>4, <1>8, <1>10, <2>1, <2>2, <2>3, PlacesStay DEF Variables
  <1>14. Bounded'
    BY <1>1, <1>3, <1>4 DEF Bounded
  <1> QED BY <1>8, <1>11, <1>12, <1>13, <1>14 DEF Meant

\* A parameter is pushed likewise, one level above the declarations of the
\* routine; no error means that it was none of the parameters before it.
LEMMA ParamMeant ==
  ASSUME StepInv, Meant, NEW x \in Id, Param(x), status' = "ok"
  PROVE  Meant'
  <1>0. PICK r : r = Record(<<x>>, "param", 0)
    OBVIOUS
  <1>1. /\ Here.phase = "params" /\ ~Own(x) /\ ~var!Found(<<x>>, FALSE)
        /\ vartb' = Append(vartb, r) /\ loctb' = Append(loctb, r) /\ decls' = Append(decls, r)
        /\ UNCHANGED <<valtb, valtags, vartags, proctb, proctags, functb, functags, loctags, scope>>
        /\ part' = [part EXCEPT ![Len(part)].left = @ - 1] /\ Here.left > 0
    BY <1>0 DEF Param, var!Push, loc!Push, Declare
  <1>2. r.name = <<x>> /\ r.data.of = scope /\ r.data.sort = "param"
    BY <1>0 DEF Record, Described
  <1>3. Bounded /\ AllFiled /\ History /\ Tabled /\ Placed /\ Nested
    BY DEF Meant, StepInv
  <1>4. SameRoutines /\ (Here.phase)' = "params"
    <2> DEFINE g == [Here EXCEPT !.left = @ - 1]
    <2>1. Here \in Walk /\ Here.left > 0 /\ Here.phase = "params"
      BY <1>1, <1>3, HereIn
    <2>2. g \in Walk /\ g.phase = "params" /\ g.sort = Here.sort /\ g.params = Here.params
      BY <2>1 DEF Walk
    <2>3. part' = [part EXCEPT ![Len(part)] = g]
      BY <1>1 DEF Here
    <2> HIDE DEF g
    <2> QED BY <1>1, <1>3, <2>2, <2>3, MovedOn
  <1>5. /\ Len(scope) \in Nat /\ Here.phase \notin InProg
        /\ Len(vartags) = 2 * Len(scope) + 1 /\ Len(loctags) = Len(scope) + 2
    BY <1>1, TagsNow DEF InProg
  <1>6. Proper(r)
    <2>1. scope \in Seq(Id)
      BY <1>3 DEF Nested
    <2>2. scope = SubSeq(scope, 1, Len(scope)) /\ Len(scope) \in 0..Len(scope)
      BY <1>5, <2>1
    <2>3. Len(scope) > 0 => x # scope[Len(scope)]
      BY <1>1, <2>1 DEF Own
    <2>4. Len(scope) > 0 => <<x>> # <<scope[Len(scope)]>>
      BY <2>3
    <2> QED BY <1>2, <2>2, <2>4 DEF Proper
  <1>7. Level("names", r) = 2 * Len(scope) + 1 /\ Level("places", r) = Len(scope) + 2
    BY <1>2, <1>5, Levels
  <1>8. \A d \in Declared : Level("names", d) <= Level("names", r)
    BY <1>3, <1>5, <1>7, Reach
  <1>9. \A d \in Declared : ~(d.name = r.name /\ Level("names", d) = Level("names", r))
    <2>1. ASSUME NEW d \in Declared, d.name = <<x>>, Level("names", d) = 2 * Len(scope) + 1
          PROVE  FALSE
      <3>1. Timely(d)
        BY <1>3 DEF History
      <3>2. d.data.sort \notin Variables
        BY <1>1, <1>3, <1>5, <2>1, FreshVar
      <3>3. Len(d.data.of) # Len(scope) => 2 * Len(scope) + 1 <= 2 * Len(scope)
        BY <1>3, <2>1, Reach
      <3>4. Len(d.data.of) = Len(scope)
        BY <1>5, <3>3
      <3> QED BY <1>5, <3>1, <3>2, <3>4 DEF Timely, Variables
    <2> QED BY <1>2, <1>7, <2>1
  <1>10. History' /\ Declared' = Declared \cup {r}
    <2>1. \A d \in Declared : Timely(d)'
      BY <1>1, <1>3, <1>4 DEF History, Timely
    <2>2. Timely(r)'
      BY <1>2, <1>4 DEF Timely
    <2> QED BY <1>1, <1>3, <1>4, <1>6, <1>8, <1>9, <2>1, <2>2, HistoryGrows
  <1>11. Filed(vartb', vartags', "names") /\ Recs(vartb') = Recs(vartb) \cup {r}
    <2>1. Filed(vartb, vartags, "names") /\ Level("names", r) = Len(vartags)
      BY <1>3, <1>5, <1>7 DEF AllFiled
    <2>2. vartb' = Append(vartb, r) /\ vartags' = vartags
      BY <1>1
    <2> QED BY <2>1, <2>2, FiledPush
  <1>12. Filed(loctb', loctags', "places") /\ Recs(loctb') = Recs(loctb) \cup {r}
    <2>1. Filed(loctb, loctags, "places") /\ Level("places", r) = Len(loctags)
      BY <1>3, <1>5, <1>7 DEF AllFiled
    <2>2. loctb' = Append(loctb, r) /\ loctags' = loctags
      BY <1>1
    <2> QED BY <2>1, <2>2, FiledPush
  <1>13. AllFiled'
    BY <1>1, <1>3, <1>11, <1>12, FiledNext DEF AllFiled
  <1>14. Tabled'
    <2>1. scope # <<>> /\ Len(scope) \in 1..Len(scope)
      <3>1. scope # <<>> /\ scope \in Seq(Id)
        BY <1>1, <1>3 DEF Bounded, Nested
      <3> QED BY <3>1, <1>5
    <2>2. \A d : Pending(d)' <=> Pending(d)
      BY <1>1, <1>3, <1>4, <2>1, RoutinesStay DEF Pending, SameRoutines
    <2>3. Recorded(proctb, "proc")' /\ Recorded(functb, "func")'
      BY <1>1, <1>2, <1>3, <1>10, <2>2, RecordsStay DEF Tabled, Kinds
    <2> QED BY <1>1, <1>2, <1>3, <1>10, <1>11, <2>3, TabledNext DEF Tabled, Variables
  <1>15. Placed'
    <2>1. \A q \in Recs(loctb) : IsPlace(q)'
      BY <1>1, <1>3, <1>4, <1>10, PlaceStays DEF Placed
    <2>2. IsPlace(r)'
      <3>1. IsVariable(r)'
        BY <1>2, <1>10 DEF IsVariable, Variables
      <3>2. Len(r.data.of) \in 0..Len(scope) /\ r.data.of = SubSeq(scope, 1, Len(r.data.of))
        BY <1>6 DEF Proper
      <3> QED BY <1>1, <1>2, <3>1, <3>2 DEF IsPlace
    <2>3. FramesInOrder(loctb')
      <3>1. loctb \in Seq(Recs(loctb))
        BY <1>3 DEF AllFiled, Filed
      <3>2. \A q \in Recs(loctb) : Len(q.data.of) = Len(r.data.of) => q.data.sort = "param"
        BY <1>1, <1>2, <1>3 DEF Placed, IsPlace
      <3> QED BY <1>1, <1>2, <1>3, <3>1, <3>2, FramesInOrderAppend DEF Placed, IsMain
    <2> QED BY <1>1, <1>2, <1>3, <1>4, <1>10, <1>12, <2>1, <2>2, <2>3, PlacesStay DEF Variables
  <1>16. Bounded'
    BY <1>1, <1>3, <1>4 DEF Bounded
  <1> QED BY <1>10, <1>13, <1>14, <1>15, <1>16 DEF Meant

-------------------------------------------------------------------------------
(* A routine is entered.                                                   *)

\* The walk enters the routine x of the given kind and number of parameters.
Enters(x, sort, n) ==
    /\ scope' = Append(scope, x)
    /\ part' = Append([part EXCEPT ![Len(part)].phase = "exec"], Frame("params", sort, n))

LEMMA EnteredRoutine ==
  ASSUME Nested, NEW x \in Id, NEW sort \in {"proc", "func"}, NEW n \in 0..MaxParams,
         Enters(x, sort, n)
  PROVE  /\ Len(part') = Len(part) + 1 /\ (Here.phase)' = "params"
         /\ \A k \in 1..Len(part) : part'[k].sort = part[k].sort /\ part'[k].params = part[k].params
         /\ part'[Len(part) + 1].sort = sort /\ part'[Len(part) + 1].params = n
  <1> DEFINE g == [Here EXCEPT !.phase = "exec"]
             h == Frame("params", sort, n)
  <1>1. Here \in Walk /\ Len(part) > 0 /\ Len(part) \in Nat /\ part \in Seq(Walk)
    BY HereIn DEF Nested
  <1>2. g \in Walk /\ g.sort = Here.sort /\ g.params = Here.params
    BY <1>1 DEF Walk, Phases, InProg
  <1>3. h \in Walk /\ h.phase = "params" /\ h.sort = sort /\ h.params = n
    BY TablesAssumption DEF Frame, Walk, Phases
  <1>4. part' = Append([part EXCEPT ![Len(part)] = g], h)
    BY DEF Enters, Here
  <1> HIDE DEF g, h
  <1>5. /\ part' \in Seq(Walk) /\ Len(part') = Len(part) + 1 /\ part'[Len(part')] = h
        /\ part'[Len(part)] = g
        /\ \A k \in 1..(Len(part) - 1) : part'[k] = part[k]
    BY <1>1, <1>2, <1>3, <1>4, Entered
  <1>6. (Here.phase)' = "params"
    BY <1>3, <1>5 DEF Here
  <1>7. ASSUME NEW k \in 1..Len(part)
        PROVE  part'[k].sort = part[k].sort /\ part'[k].params = part[k].params
    <2>1. CASE k \in 1..(Len(part) - 1)
      BY <1>5, <2>1
    <2>2. CASE k = Len(part)
      BY <1>2, <1>5, <2>2 DEF Here
    <2> QED BY <1>1, <2>1, <2>2
  <1> QED BY <1>3, <1>5, <1>6, <1>7

LEMMA OuterStay ==
  ASSUME Nested, NEW x \in Id, NEW sort \in {"proc", "func"}, NEW n \in 0..MaxParams,
         Enters(x, sort, n), NEW d
  PROVE  /\ \A k \in 1..Len(scope) : IsRoutine(d, k) => IsRoutine(d, k)'
         /\ Proper(d) => Proper(d)'
  <1>1. scope \in Seq(Id) /\ Len(scope) \in Nat /\ Len(part) = Len(scope) + 1
    BY HereIn DEF Nested
  <1>2. /\ scope' \in Seq(Id) /\ Len(scope') = Len(scope) + 1
        /\ \A i \in 1..Len(scope) : scope'[i] = scope[i]
        /\ \A i \in 0..Len(scope) : SubSeq(scope', 1, i) = SubSeq(scope, 1, i)
    BY <1>1, AroundEntered DEF Enters
  <1>3. \A k \in 1..Len(part) : part'[k].sort = part[k].sort /\ part'[k].params = part[k].params
    BY EnteredRoutine
  <1>4. ASSUME NEW k \in 1..Len(scope), IsRoutine(d, k) PROVE IsRoutine(d, k)'
    <2>1. /\ d.name = <<scope[k]>>
          /\ d.data = [of |-> SubSeq(scope, 1, k - 1), sort |-> part[k + 1].sort,
                       params |-> part[k + 1].params]
      BY <1>4 DEF IsRoutine
    <2>2. k - 1 \in 0..Len(scope) /\ k + 1 \in 1..Len(part)
      BY <1>1
    <2>3. /\ scope'[k] = scope[k] /\ SubSeq(scope', 1, k - 1) = SubSeq(scope, 1, k - 1)
          /\ part'[k + 1].sort = part[k + 1].sort /\ part'[k + 1].params = part[k + 1].params
      BY <1>2, <1>3, <2>2
    <2> QED BY <2>1, <2>3 DEF IsRoutine
  <1>5. ASSUME Proper(d) PROVE Proper(d)'
    <2> DEFINE m == Len(d.data.of)
    <2>1. /\ \E y \in Id : d.name = <<y>>
          /\ m \in 0..Len(scope)
          /\ d.data.of = SubSeq(scope, 1, m)
          /\ m > 0 => d.name # <<scope[m]>>
          /\ d.data.sort \in {"const", "var", "param", "proc", "func"}
      BY <1>5 DEF Proper
    <2>2. m > 0 => m \in 1..Len(scope)
      BY <1>1, <2>1
    <2>3. m \in 0..Len(scope')
      BY <1>1, <1>2, <2>1
    <2>4. d.data.of = SubSeq(scope', 1, m) /\ (m > 0 => d.name # <<scope'[m]>>)
      BY <1>2, <2>1, <2>2
    <2> QED BY <2>1, <2>3, <2>4 DEF Proper
  <1> QED BY <1>4, <1>5

LEMMA PlacesOuterStay ==
  ASSUME Nested, Placed, NEW x \in Id, NEW sort \in {"proc", "func"}, NEW n \in 0..MaxParams,
         Enters(x, sort, n), Here.phase \in {"const", "var", "exec"}, UNCHANGED loctb,
         \A d \in Declared : d \in Declared',
         \A d \in Declared' : d \in Declared \/ d.data.sort \notin Variables
  PROVE  Placed'
  <1>1. scope \in Seq(Id) /\ Len(scope) \in Nat /\ Len(part) = Len(scope) + 1 /\ Len(part) \in Nat
    BY HereIn DEF Nested
  <1>2. /\ scope' \in Seq(Id) /\ Len(scope') = Len(scope) + 1
        /\ \A i \in 0..Len(scope) : SubSeq(scope', 1, i) = SubSeq(scope, 1, i)
    BY <1>1, AroundEntered DEF Enters
  <1>3. /\ Len(part') = Len(part) + 1 /\ (Here.phase)' = "params"
        /\ \A k \in 1..Len(part) : part'[k].sort = part[k].sort /\ part'[k].params = part[k].params
    BY EnteredRoutine
  <1>4. Recs(loctb)' = Recs(loctb) /\ (FramesInOrder(loctb)' <=> FramesInOrder(loctb))
    BY DEF Recs, FramesInOrder, IsMain
  <1>5. /\ \A d \in Declared : d.data.sort \in Variables => d \in Recs(loctb)
        /\ \A r \in Recs(loctb) : IsPlace(r)
        /\ \A k \in 2..Len(part) : part[k].sort = "func" /\ Opened(k) => HasResult(k)
        /\ FramesInOrder(loctb)
    BY DEF Placed
  <1>6. ASSUME NEW r \in Recs(loctb) PROVE IsPlace(r)'
    <2> DEFINE m == Len(r.data.of)
    <2>1. m \in 0..Len(scope) /\ r.data.of = SubSeq(scope, 1, m)
          /\ (IsVariable(r) \/ IsDisplay(r) \/ IsResult(r))
      BY <1>5 DEF IsPlace
    <2>2. IsVariable(r) => IsVariable(r)'
      BY DEF IsVariable
    <2>3. (IsDisplay(r) <=> IsDisplay(r)') /\ (IsResult(r) <=> IsResult(r)')
      BY DEF IsDisplay, IsResult, LastOfPath
    <2>4. m \in 0..Len(scope') /\ r.data.of = SubSeq(scope', 1, m) /\ m # Len(scope')
      BY <1>1, <1>2, <2>1
    <2> QED BY <2>1, <2>2, <2>3, <2>4 DEF IsPlace
  <1>7. ASSUME NEW k \in 2..Len(part'), part'[k].sort = "func", Opened(k)' PROVE HasResult(k)'
    <2>1. k # Len(part')
      BY <1>3, <1>7 DEF Opened
    <2>2. k \in 2..Len(part) /\ part[k].sort = "func"
      BY <1>1, <1>3, <1>7, <2>1
    <2>3. Opened(k)
      BY DEF Opened
    <2>4. PICK r \in Recs(loctb) : IsResult(r) /\ r.data.of = SubSeq(scope, 1, k - 1)
      BY <1>5, <2>2, <2>3 DEF HasResult
    <2>5. k - 1 \in 0..Len(scope)
      BY <1>1, <2>2
    <2>6. IsResult(r)' /\ r.data.of = SubSeq(scope', 1, k - 1)
      BY <1>2, <2>4, <2>5 DEF IsResult, LastOfPath
    <2> QED BY <1>4, <2>4, <2>6 DEF HasResult
  <1> QED BY <1>4, <1>5, <1>6, <1>7 DEF Placed, Variables

\* The declaration of a routine is the last of the routine around it, and its
\* record waits for the header.
LEMMA RoutineMeant ==
  ASSUME StepInv, Meant, NEW x \in Id, NEW sort \in {"proc", "func"}, NEW n \in 0..MaxParams,
         Routine(sort, x, n), status' = "ok"
  PROVE  Meant'
  <1>0. PICK r : r = Record(<<x>>, sort, n)
    OBVIOUS
  <1>1. /\ Here.phase \in {"const", "var", "exec"} /\ Len(scope) < MaxNest
        /\ ~Overloaded(x) /\ Enters(x, sort, n)
        /\ decls' = Append(decls, r)
        /\ val!Tag /\ var!Tag /\ loc!Tag
        /\ UNCHANGED <<proctb, proctags, functb, functags>>
    BY <1>0 DEF Routine, Report, Declare, Enters
  <1>2. r.name = <<x>> /\ r.data = [of |-> scope, sort |-> sort, params |-> n]
    BY <1>0 DEF Record, Described
  <1>3. Bounded /\ AllFiled /\ History /\ Tabled /\ Placed /\ Nested
    BY DEF Meant, StepInv
  <1>4. ~Own(x) /\ ~val!Found(<<x>>, FALSE) /\ ~var!Found(<<x>>, FALSE)
        /\ ~proc!Found(<<x>>, FALSE) /\ ~func!Found(<<x>>, FALSE)
    BY <1>1 DEF Overloaded
  <1>5. /\ Proper(r) /\ Level("names", r) = 2 * Len(scope) + 2
        /\ \A d \in Declared : Level("names", d) <= Level("names", r)
    BY <1>2, <1>3, <1>4, NewHere
  <1>6. /\ Here.phase \in InProg /\ Len(valtags) = 2 * Len(scope) + 2
        /\ Len(vartags) = 2 * Len(scope) + 2 /\ Len(proctags) = 2 * Len(scope) + 2
        /\ Len(functags) = 2 * Len(scope) + 2 /\ Len(scope) \in Nat
    BY <1>1, TagsNow DEF InProg
  <1>7. \A d : ~Pending(d)
    BY <1>1 DEF Pending
  <1>8. \A d \in Declared : ~(d.name = r.name /\ Level("names", d) = Level("names", r))
    <2>1. ASSUME NEW d \in Declared, d.name = <<x>>, d.data.sort # "param",
                 Level("names", d) = 2 * Len(scope) + 2
          PROVE  FALSE
      <3>1. d.data.sort # "const" /\ d.data.sort \notin Variables
        BY <1>3, <1>4, <1>6, <2>1, FreshConst, FreshVar
      <3>2. d.data.sort # "proc" /\ d.data.sort # "func"
        BY <1>3, <1>4, <1>6, <1>7, <2>1, FreshProc, FreshFunc
      <3>3. Proper(d)
        BY <1>3 DEF History
      <3> QED BY <2>1, <3>1, <3>2, <3>3 DEF Proper, Variables
    <2> QED BY <1>2, <1>3, <1>5, <1>6, <2>1, NoClash
  <1>9. /\ scope \in Seq(Id) /\ scope' \in Seq(Id) /\ Len(scope') = Len(scope) + 1
        /\ scope'[Len(scope) + 1] = x
        /\ SubSeq(scope', 1, Len(scope)) = scope
        /\ Len(part) = Len(scope) + 1
    <2>1. scope \in Seq(Id) /\ scope' = Append(scope, x) /\ Len(part) = Len(scope) + 1
      BY <1>1, <1>3 DEF Enters, Nested
    <2>2. Len(scope) \in 0..Len(scope)
      BY <1>6
    <2>3. /\ scope' \in Seq(Id) /\ Len(scope') = Len(scope) + 1
          /\ scope'[Len(scope) + 1] = x
          /\ SubSeq(scope', 1, Len(scope)) = SubSeq(scope, 1, Len(scope))
          /\ scope = SubSeq(scope, 1, Len(scope))
      BY <2>1, <2>2, AroundEntered
    <2> QED BY <2>1, <2>3
  <1>10. /\ (Here.phase)' = "params" /\ part'[Len(part) + 1].sort = sort
         /\ part'[Len(part) + 1].params = n
    BY <1>1, <1>3, EnteredRoutine
  <1> PICK m : m = Len(scope) + 1
    OBVIOUS
  <1>11. IsRoutine(r, m)' /\ m = Len(scope')
    <2>1. m = Len(scope') /\ m = Len(part) /\ m - 1 = Len(scope)
      BY <1>6, <1>9
    <2>2. r.name = <<scope'[m]>>
      BY <1>2, <1>9
    <2>3. r.data = [of |-> SubSeq(scope', 1, m - 1), sort |-> part'[m + 1].sort,
                    params |-> part'[m + 1].params]
      BY <1>2, <1>9, <1>10, <2>1
    <2> QED BY <2>1, <2>2, <2>3 DEF IsRoutine
  <1>12. Ordered(decls') /\ Declared' = Declared \cup {r}
    BY <1>1, <1>3, <1>5, <1>6, <1>8, OrderedAppend DEF Declared, History
  <1>13. History'
    <2>1. \A d \in Declared' : Proper(d) /\ Proper(d)'
      BY <1>1, <1>3, <1>5, <1>12, OuterStay DEF History
    <2>2. \A d \in Declared' : Timely(d)'
      <3>1. \A d \in Declared' : Len(d.data.of) \in 0..Len(scope)
        BY <2>1 DEF Proper
      <3> QED BY <1>6, <1>9, <3>1 DEF Timely
    <2>3. ASSUME NEW k \in 1..Len(scope') PROVE \E d \in Declared' : IsRoutine(d, k)'
      <3>1. CASE k \in 1..Len(scope)
        <4>1. PICK d \in Declared : IsRoutine(d, k)
          BY <1>3, <3>1 DEF History
        <4>2. IsRoutine(d, k)'
          BY <1>1, <1>3, <3>1, <4>1, OuterStay
        <4> QED BY <1>12, <4>1, <4>2
      <3>2. CASE k = m
        BY <1>11, <1>12, <3>2
      <3> QED BY <1>6, <1>9, <3>1, <3>2
    <2> QED BY <1>12, <2>1, <2>2, <2>3 DEF History
  <1>14. AllFiled'
    <2>1. Filed(valtb', valtags', "names")
      BY <1>1, <1>3, FiledTag DEF AllFiled, val!Tag
    <2>2. Filed(vartb', vartags', "names")
      BY <1>1, <1>3, FiledTag DEF AllFiled, var!Tag
    <2>3. Filed(loctb', loctags', "places")
      BY <1>1, <1>3, FiledTag DEF AllFiled, loc!Tag
    <2> QED BY <1>1, <1>3, <2>1, <2>2, <2>3, FiledNext DEF AllFiled
  <1>15. UNCHANGED <<valtb, vartb, loctb>>
    BY <1>1 DEF val!Tag, var!Tag, loc!Tag
  <1>16. Tabled'
    <2>1. Pending(r)'
      BY <1>10, <1>11 DEF Pending, IsRoutine
    <2>2. ASSUME NEW d \in Declared PROVE ~Pending(d)'
      <3>1. SUFFICES ASSUME Pending(d)' PROVE FALSE
        OBVIOUS
      <3>2. d.name = r.name /\ d.data = r.data
        BY <1>11, <3>1 DEF IsRoutine, Pending
      <3>3. Level("names", d) = Level("names", r)
        BY <3>2 DEF Level
      <3> QED BY <1>8, <3>2, <3>3
    <2>3. Recorded(proctb, "proc")' /\ Recorded(functb, "func")'
      BY <1>1, <1>3, <1>7, <1>12, <2>1, <2>2, RecordsStay DEF Tabled
    <2> QED BY <1>2, <1>3, <1>12, <1>15, <2>3, TabledNext DEF Tabled, Variables
  <1>17. Placed'
    BY <1>1, <1>2, <1>3, <1>12, <1>15, PlacesOuterStay DEF Variables
  <1>18. Bounded'
    <2>1. Len(scope') <= MaxNest
      BY <1>1, <1>6, <1>9, TablesAssumption
    <2>2. scope' # <<>>
      BY <1>6, <1>9
    <2> QED BY <2>1, <2>2 DEF Bounded
  <1> QED BY <1>13, <1>14, <1>16, <1>17, <1>18 DEF Meant

-------------------------------------------------------------------------------
(* The header and what follows it, up to the declarations of the routine.  *)

\* Outside the parameters a routine declares none yet.
LEMMA TimelyAfter ==
  ASSUME Nested, History, SameRoutines, Here.phase \notin InProg
  PROVE  \A d \in Declared : Timely(d)'
  <1>1. \A d \in Declared : Len(d.data.of) = Len(scope) => d.data.sort = "param"
    BY DEF History, Timely
  <1>2. Len(scope') = Len(scope)
    BY DEF SameRoutines
  <1> QED BY <1>1, <1>2 DEF Timely

\* The declaration that waits is that of the routine being walked.
LEMMA Waiting ==
  ASSUME Nested, History, Here.phase = "params", scope # <<>>, Len(scope) <= MaxNest,
         NEW r, r.name = scope_name,
         r.data = [of |-> Outer(scope), sort |-> Here.sort, params |-> Here.params]
  PROVE  /\ \A d : Pending(d) => Stands(r, d) /\ d.data.sort = Here.sort
         /\ \E d \in Declared : Pending(d)
         /\ Level("names", r) = 2 * Len(scope)
  <1>1. scope \in Seq(Id) /\ Len(scope) \in Nat /\ Len(scope) > 0 /\ Len(part) = Len(scope) + 1
    BY HereIn DEF Nested
  <1>2. LastPart[scope_name] = <<scope[Len(scope)]>> /\ Len(scope_name) > 1
    <2>1. Qualifier \in {Qualifier, "$fn"} /\ Len(scope) \in 1..MaxNest
      BY <1>1, TablesAssumption
    <2> QED BY <1>1, <2>1, RoutineNames DEF scope_name
  <1>3. ASSUME NEW d, Pending(d) PROVE Stands(r, d) /\ d.data.sort = Here.sort
    <2>1. d.name = <<scope[Len(scope)]>>
      BY <1>3 DEF Pending, IsRoutine
    <2>2. d.data = r.data
      <3>1. d.data = [of |-> SubSeq(scope, 1, Len(scope) - 1), sort |-> part[Len(scope) + 1].sort,
                      params |-> part[Len(scope) + 1].params]
        BY <1>3 DEF Pending, IsRoutine
      <3> QED BY <1>1, <3>1 DEF Outer, Here
    <2> QED BY <1>2, <2>1, <2>2 DEF Stands
  <1>4. \E d \in Declared : Pending(d)
    <2>1. Len(scope) \in 1..Len(scope)
      BY <1>1
    <2> QED BY <2>1 DEF History, Pending
  <1>5. Level("names", r) = 2 * Len(scope)
    <2>1. Len(r.data.of) = Len(scope) - 1
      BY <1>1, Left
    <2>2. Len(r.data.of) \in Nat /\ r.data.sort # "param"
      <3>1. Here.sort # "param"
        BY HereIn DEF Walk
      <3> QED BY <1>1, <2>1, <3>1
    <2>3. Level("names", r) = 2 * Len(r.data.of) + 2
      BY <2>2, Levels
    <2> QED BY <1>1, <2>1, <2>3
  <1> QED BY <1>3, <1>4, <1>5

LEMMA RecordsHeaded ==
  ASSUME Recorded(proctb, "proc"), Recorded(functb, "func"), Declared' = Declared, NEW r,
         Recs(proctb') = Recs(proctb) \cup (IF Here.sort = "proc" THEN {r} ELSE {}),
         Recs(functb') = Recs(functb) \cup (IF Here.sort = "func" THEN {r} ELSE {}),
         \A d : Pending(d) => Stands(r, d) /\ d.data.sort = Here.sort,
         \E d \in Declared : Pending(d), \A d : ~Pending(d)'
  PROVE  Recorded(proctb, "proc")' /\ Recorded(functb, "func")'
  <1>1. /\ \A d \in Declared : d.data.sort = "proc" /\ ~Pending(d) =>
             \E q \in Recs(proctb) : Stands(q, d)
        /\ \A q \in Recs(proctb) : \E d \in Declared : d.data.sort = "proc" /\ Stands(q, d)
        /\ \A d \in Declared : d.data.sort = "func" /\ ~Pending(d) =>
             \E q \in Recs(functb) : Stands(q, d)
        /\ \A q \in Recs(functb) : \E d \in Declared : d.data.sort = "func" /\ Stands(q, d)
    BY DEF Recorded
  <1>2. \A d \in Declared : d.data.sort = "proc" => \E q \in Recs(proctb') : Stands(q, d)
    BY <1>1
  <1>3. \A d \in Declared : d.data.sort = "func" => \E q \in Recs(functb') : Stands(q, d)
    BY <1>1
  <1>4. \A q \in Recs(proctb') : \E d \in Declared : d.data.sort = "proc" /\ Stands(q, d)
    BY <1>1
  <1>5. \A q \in Recs(functb') : \E d \in Declared : d.data.sort = "func" /\ Stands(q, d)
    BY <1>1
  <1>6. Recs(proctb)' = Recs(proctb') /\ Recs(functb)' = Recs(functb')
    BY DEF Recs
  <1>7. \A q, d : Stands(q, d)' <=> Stands(q, d)
    BY DEF Stands
  <1> QED BY <1>2, <1>3, <1>4, <1>5, <1>6, <1>7 DEF Recorded

LEMMA HeaderMeant ==
  ASSUME StepInv, Meant, Header
  PROVE  Meant'
  <1>0. PICK r, q : /\ r = [name |-> scope_name, data |-> [of |-> Outer(scope),
                            sort |-> Here.sort, params |-> Here.params]]
                    /\ q = [name |-> fn_name, data |-> Described("display", 0)]
    OBVIOUS
  <1>1. /\ Here.phase = "params" /\ Move("header") /\ loctb' = Append(loctb, q)
        /\ IF Here.sort = "proc" THEN proctb' = Append(proctb, r) /\ functb' = functb
                                 ELSE functb' = Append(functb, r) /\ proctb' = proctb
        /\ UNCHANGED <<valtb, valtags, vartb, vartags, proctags, functags, loctags, scope, decls>>
    BY <1>0 DEF Header, proc!Push, func!Push, loc!Push
  <1>2. /\ r.name = scope_name
        /\ r.data = [of |-> Outer(scope), sort |-> Here.sort, params |-> Here.params]
        /\ q.name = fn_name /\ q.data.of = scope /\ q.data.sort = "display"
    BY <1>0 DEF Described
  <1>3. Bounded /\ AllFiled /\ History /\ Tabled /\ Placed /\ Nested
    BY DEF Meant, StepInv
  <1>4. SameRoutines /\ (Here.phase)' = "header"
    BY <1>1, <1>3, SameAfterMove DEF Phases
  <1>5. /\ Here.phase \notin InProg /\ Len(scope) \in Nat /\ Len(proctags) = 2 * Len(scope)
        /\ Len(functags) = 2 * Len(scope) /\ Len(loctags) = Len(scope) + 2
    BY <1>1, TagsNow DEF InProg
  <1>6. scope # <<>> /\ Len(scope) <= MaxNest /\ scope \in Seq(Id)
    BY <1>1, <1>3 DEF Bounded, Nested
  <1>7. /\ \A d : Pending(d) => Stands(r, d) /\ d.data.sort = Here.sort
        /\ \E d \in Declared : Pending(d)
        /\ Level("names", r) = 2 * Len(scope)
    BY <1>1, <1>2, <1>3, <1>6, Waiting
  <1>8. Here.sort \in {"proc", "func"}
    BY <1>3, HereIn DEF Walk
  <1>9. History' /\ Declared' = Declared
    BY <1>1, <1>3, <1>4, <1>5, TimelyAfter, HistoryStays
  <1>10. /\ Filed(proctb', proctags', "names")
         /\ Recs(proctb') = Recs(proctb) \cup (IF Here.sort = "proc" THEN {r} ELSE {})
    <2>1. Filed(proctb, proctags, "names") /\ Level("names", r) = Len(proctags)
      BY <1>3, <1>5, <1>7 DEF AllFiled
    <2>2. proctags' = proctags /\ proctb' = IF Here.sort = "proc" THEN Append(proctb, r) ELSE proctb
      BY <1>1
    <2>3. Filed(Append(proctb, r), proctags, "names")
          /\ Recs(Append(proctb, r)) = Recs(proctb) \cup {r}
      BY <2>1, FiledPush
    <2> QED BY <2>1, <2>2, <2>3
  <1>11. /\ Filed(functb', functags', "names")
         /\ Recs(functb') = Recs(functb) \cup (IF Here.sort = "func" THEN {r} ELSE {})
    <2>1. Filed(functb, functags, "names") /\ Level("names", r) = Len(functags)
      BY <1>3, <1>5, <1>7 DEF AllFiled
    <2>2. functags' = functags /\ functb' = IF Here.sort = "func" THEN Append(functb, r) ELSE functb
      BY <1>1, <1>8
    <2>3. Filed(Append(functb, r), functags, "names")
          /\ Recs(Append(functb, r)) = Recs(functb) \cup {r}
      BY <2>1, FiledPush
    <2> QED BY <2>1, <2>2, <2>3
  <1>12. Filed(loctb', loctags', "places") /\ Recs(loctb') = Recs(loctb) \cup {q}
    <2>1. Filed(loctb, loctags, "places")
      BY <1>3 DEF AllFiled
    <2>2. Level("places", q) = Len(loctags)
      BY <1>2, <1>5 DEF Level
    <2>3. loctb' = Append(loctb, q) /\ loctags' = loctags
      BY <1>1
    <2> QED BY <2>1, <2>2, <2>3, FiledPush
  <1>13. AllFiled'
    BY <1>1, <1>3, <1>10, <1>11, <1>12, FiledNext DEF AllFiled
  <1>14. Tabled'
    <2>1. \A d : ~Pending(d)'
      BY <1>4 DEF Pending
    <2>2. Recorded(proctb, "proc")' /\ Recorded(functb, "func")'
      BY <1>3, <1>7, <1>9, <1>10, <1>11, <2>1, RecordsHeaded DEF Tabled
    <2> QED BY <1>1, <1>3, <1>9, <2>2, TabledNext DEF Tabled
  <1>15. Placed'
    <2>1. \A p \in Recs(loctb) : IsPlace(p)'
      BY <1>1, <1>3, <1>4, <1>9, PlaceStays DEF Placed
    <2>2. IsPlace(q)'
      <3>1. q.name = <<"$fn">> \o scope
        BY <1>2, <1>6 DEF fn_name
      <3>2. "$fn" \in {Qualifier, "$fn"} /\ Len(scope) \in 1..MaxNest
        BY <1>5, <1>6, TablesAssumption
      <3>3. LastPart[q.name] = <<scope[Len(scope)]>> /\ Len(q.name) > 1 /\ q.name[1] = "$fn"
        BY <1>6, <3>1, <3>2, RoutineNames
      <3>4. IsDisplay(q)'
        BY <1>2, <1>6, <3>3 DEF IsDisplay, LastOfPath
      <3>5. Len(scope) \in 0..Len(scope) /\ scope = SubSeq(scope, 1, Len(scope))
        BY <1>5, <1>6
      <3> QED BY <1>1, <1>2, <1>4, <3>4, <3>5 DEF IsPlace
    <2>3. FramesInOrder(loctb')
      <3>1. loctb \in Seq(Recs(loctb))
        BY <1>3 DEF AllFiled, Filed
      <3>2. ~IsMain(q) /\ FramesInOrder(loctb)
        BY <1>2, <1>3, <1>6 DEF IsMain, Placed
      <3>3. FramesInOrder(Append(loctb, q))
        BY <1>2, <3>1, <3>2, FramesInOrderAppend
      <3> QED BY <1>1, <3>3
    <2> QED BY <1>3, <1>4, <1>9, <1>12, <2>1, <2>2, <2>3, PlacesStay
  <1>16. Bounded'
    BY <1>1, <1>3, <1>4, <1>6 DEF Bounded
  <1> QED BY <1>9, <1>13, <1>14, <1>15, <1>16 DEF Meant

\* The table of places holds the result of a function from here on.
LEMMA OpenMeant ==
  ASSUME StepInv, Meant, Open
  PROVE  Meant'
  <1>0. PICK r : r = Record(scope_name, "func", Here.params)
    OBVIOUS
  <1>1. /\ Here.phase = "header" /\ Move("prog") /\ proc!Tag /\ func!Tag
        /\ IF Here.sort = "func" THEN loctb' = Append(loctb, r) ELSE loctb' = loctb
        /\ UNCHANGED <<valtb, valtags, vartb, vartags, loctags, scope, decls>>
    BY <1>0 DEF Open, loc!Push
  <1>2. r.name = scope_name /\ r.data.of = scope /\ r.data.sort = "func"
    BY <1>0 DEF Record, Described
  <1>3. Bounded /\ AllFiled /\ History /\ Tabled /\ Placed /\ Nested
    BY DEF Meant, StepInv
  <1>4. SameRoutines /\ (Here.phase)' = "prog"
    BY <1>1, <1>3, SameAfterMove DEF Phases
  <1>5. Here.phase \notin InProg /\ Len(scope) \in Nat /\ Len(loctags) = Len(scope) + 2
    BY <1>1, TagsNow DEF InProg
  <1>6. scope # <<>> /\ Len(scope) <= MaxNest /\ scope \in Seq(Id) /\ Len(part) = Len(scope) + 1
    BY <1>1, <1>3 DEF Bounded, Nested
  <1>7. History' /\ Declared' = Declared
    BY <1>1, <1>3, <1>4, <1>5, TimelyAfter, HistoryStays
  <1>8. /\ Filed(loctb', loctags', "places")
        /\ Recs(loctb') = Recs(loctb) \cup (IF Here.sort = "func" THEN {r} ELSE {})
    <2>1. Filed(loctb, loctags, "places")
      BY <1>3 DEF AllFiled
    <2>2. Level("places", r) = Len(loctags)
      BY <1>2, <1>5 DEF Level
    <2>3. Filed(Append(loctb, r), loctags, "places")
          /\ Recs(Append(loctb, r)) = Recs(loctb) \cup {r}
      BY <2>1, <2>2, FiledPush
    <2>4. loctags' = loctags /\ loctb' = IF Here.sort = "func" THEN Append(loctb, r) ELSE loctb
      BY <1>1
    <2> QED BY <2>1, <2>3, <2>4
  <1>9. AllFiled'
    <2>1. Filed(proctb', proctags', "names")
      BY <1>1, <1>3, FiledTag DEF AllFiled, proc!Tag
    <2>2. Filed(functb', functags', "names")
      BY <1>1, <1>3, FiledTag DEF AllFiled, func!Tag
    <2> QED BY <1>1, <1>3, <1>8, <2>1, <2>2, FiledNext DEF AllFiled
  <1>10. UNCHANGED <<proctb, functb>>
    BY <1>1 DEF proc!Tag, func!Tag
  <1>11. Tabled'
    <2>1. \A d : ~Pending(d) /\ ~Pending(d)'
      BY <1>1, <1>4 DEF Pending
    <2>2. Recorded(proctb, "proc")' /\ Recorded(functb, "func")'
      BY <1>3, <1>7, <1>10, <2>1, RecordsStay DEF Tabled
    <2> QED BY <1>1, <1>3, <1>7, <2>2, TabledNext DEF Tabled
  <1>12. Placed'
    <2>1. \A p \in Recs(loctb) : IsPlace(p)'
      BY <1>1, <1>3, <1>4, <1>7, PlaceStays DEF Placed
    <2>2. Len(scope) \in 0..Len(scope) /\ scope = SubSeq(scope, 1, Len(scope))
      BY <1>5, <1>6
    <2>3. IsResult(r)'
      <3>1. Qualifier \in {Qualifier, "$fn"} /\ Len(scope) \in 1..MaxNest
        BY <1>5, <1>6, TablesAssumption
      <3>2. r.name = <<Qualifier>> \o scope
        BY <1>2 DEF scope_name
      <3>3. LastPart[r.name] = <<scope[Len(scope)]>>
        BY <1>6, <3>1, <3>2, RoutineNames
      <3> QED BY <1>2, <1>6, <3>2, <3>3 DEF IsResult, LastOfPath
    <2>4. IsPlace(r)'
      BY <1>1, <1>2, <1>4, <2>2, <2>3 DEF IsPlace
    <2>5. FramesInOrder(loctb')
      <3>1. loctb \in Seq(Recs(loctb)) /\ FramesInOrder(loctb)
        BY <1>3 DEF AllFiled, Filed, Placed
      <3>2. FramesInOrder(Append(loctb, r))
        BY <1>2, <3>1, FramesInOrderAppend DEF IsMain
      <3> QED BY <1>1, <3>1, <3>2
    <2>6. part[Len(part)].sort = "func" => HasResult(Len(part))'
      <3>1. SUFFICES ASSUME Here.sort = "func" PROVE HasResult(Len(part))'
        BY DEF Here
      <3>2. r \in Recs(loctb)'
        BY <1>8, <3>1 DEF Recs
      <3>3. Len(part') - 1 = Len(scope) /\ scope' = scope
        BY <1>4, <1>5, <1>6 DEF SameRoutines
      <3>4. r.data.of = SubSeq(scope', 1, Len(part') - 1)
        BY <1>2, <2>2, <3>3
      <3> QED BY <2>3, <3>2, <3>4 DEF HasResult
    <2>7. \A d \in Declared' : d \in Declared
      BY <1>7
    <2>8. \A p \in Recs(loctb) : p \in Recs(loctb')
      BY <1>8
    <2>9. \A p \in Recs(loctb') : p \in Recs(loctb) \/ IsPlace(p)'
      BY <1>8, <2>4
    <2> QED BY <1>3, <1>4, <2>1, <2>5, <2>6, <2>7, <2>8, <2>9, PlacesStay
  <1>13. Bounded'
    BY <1>1, <1>3, <1>4, <1>6 DEF Bounded
  <1> QED BY <1>7, <1>9, <1>11, <1>12, <1>13 DEF Meant

\* The scope of the declarations is opened in the four tables.
LEMMA ProgMeant ==
  ASSUME StepInv, Meant, Prog
  PROVE  Meant'
  <1>1. /\ Here.phase = "prog" /\ Move("const") /\ val!Tag /\ var!Tag /\ proc!Tag /\ func!Tag
        /\ UNCHANGED <<loctb, loctags, scope, decls>>
    BY DEF Prog
  <1>2. UNCHANGED <<valtb, vartb, proctb, functb>>
    BY <1>1 DEF val!Tag, var!Tag, proc!Tag, func!Tag
  <1>3. Bounded /\ AllFiled /\ History /\ Tabled /\ Placed /\ Nested
    BY DEF Meant, StepInv
  <1>4. SameRoutines /\ (Here.phase)' = "const" /\ Here.phase \notin InProg
    BY <1>1, <1>3, SameAfterMove DEF Phases, InProg
  <1>5. History' /\ Declared' = Declared
    BY <1>1, <1>3, <1>4, TimelyAfter, HistoryStays
  <1>6. AllFiled'
    <2>1. Filed(valtb', valtags', "names")
      BY <1>1, <1>3, FiledTag DEF AllFiled, val!Tag
    <2>2. Filed(vartb', vartags', "names")
      BY <1>1, <1>3, FiledTag DEF AllFiled, var!Tag
    <2>3. Filed(proctb', proctags', "names")
      BY <1>1, <1>3, FiledTag DEF AllFiled, proc!Tag
    <2>4. Filed(functb', functags', "names")
      BY <1>1, <1>3, FiledTag DEF AllFiled, func!Tag
    <2> QED BY <1>1, <1>3, <2>1, <2>2, <2>3, <2>4, FiledNext DEF AllFiled
  <1>7. Tabled'
    <2>1. \A d : ~Pending(d) /\ ~Pending(d)'
      BY <1>1, <1>4 DEF Pending
    <2>2. Recorded(proctb, "proc")' /\ Recorded(functb, "func")'
      BY <1>2, <1>3, <1>5, <2>1, RecordsStay DEF Tabled
    <2> QED BY <1>2, <1>3, <1>5, <2>2, TabledNext DEF Tabled
  <1>8. Placed'
    <2>1. \A p \in Recs(loctb) : IsPlace(p)'
      BY <1>1, <1>3, <1>4, <1>5, PlaceStays DEF Placed
    <2> QED BY <1>1, <1>3, <1>4, <1>5, <2>1, PlacesStay DEF Placed
  <1>9. Bounded'
    BY <1>1, <1>3, <1>4 DEF Bounded
  <1> QED BY <1>5, <1>6, <1>7, <1>8, <1>9 DEF Meant

LEMMA CompoundMeant ==
  ASSUME StepInv, Meant, Compound
  PROVE  Meant'
  <1>1. /\ Here.phase \in {"const", "var", "exec"} /\ Move("body")
        /\ UNCHANGED <<valtb, valtags, vartb, vartags, proctb, proctags, functb, functags,
                       loctb, loctags, scope, decls>>
    BY DEF Compound, tables
  <1>2. Bounded /\ AllFiled /\ History /\ Tabled /\ Placed /\ Nested
    BY DEF Meant, StepInv
  <1>3. SameRoutines /\ (Here.phase)' = "body"
    BY <1>1, <1>2, SameAfterMove DEF Phases, InProg
  <1>4. \A d \in Declared : Timely(d)'
    BY <1>3 DEF Timely, InProg
  <1>5. History' /\ Declared' = Declared
    BY <1>1, <1>2, <1>3, <1>4, HistoryStays
  <1>6. AllFiled'
    BY <1>1, <1>2, FiledNext DEF AllFiled
  <1>7. Tabled'
    <2>1. \A d : ~Pending(d) /\ ~Pending(d)'
      BY <1>1, <1>3 DEF Pending
    <2>2. Recorded(proctb, "proc")' /\ Recorded(functb, "func")'
      BY <1>1, <1>2, <1>5, <2>1, RecordsStay DEF Tabled
    <2> QED BY <1>1, <1>2, <1>5, <2>2, TabledNext DEF Tabled
  <1>8. Placed'
    <2>1. \A p \in Recs(loctb) : IsPlace(p)'
      BY <1>1, <1>2, <1>3, <1>5, PlaceStays DEF Placed
    <2> QED BY <1>1, <1>2, <1>3, <1>5, <2>1, PlacesStay DEF Placed
  <1>9. Bounded'
    BY <1>1, <1>2, <1>3 DEF Bounded
  <1> QED BY <1>5, <1>6, <1>7, <1>8, <1>9 DEF Meant

\* Statements and stuttering.
LEMMA StillMeant ==
  ASSUME StepInv, Meant, UNCHANGED <<tables, scope, part, decls>>
  PROVE  Meant'
  <1>1. UNCHANGED <<valtb, valtags, vartb, vartags, proctb, proctags, functb, functags,
                    loctb, loctags, scope, part, decls>>
    BY DEF tables
  <1>2. Bounded /\ AllFiled /\ History /\ Tabled /\ Placed /\ Nested
    BY DEF Meant, StepInv
  <1>3. SameRoutines /\ (Here.phase)' = Here.phase
    BY <1>1, SameAsBefore
  <1>4. \A d \in Declared : Timely(d)'
    BY <1>1, <1>2, <1>3 DEF History, Timely
  <1>5. History' /\ Declared' = Declared
    BY <1>1, <1>2, <1>3, <1>4, HistoryStays
  <1>6. AllFiled'
    BY <1>1, <1>2, FiledNext DEF AllFiled
  <1>7. Tabled'
    <2>1. \A d : Pending(d)' <=> Pending(d)
      BY <1>1, <1>3 DEF Pending, IsRoutine
    <2>2. Recorded(proctb, "proc")' /\ Recorded(functb, "func")'
      BY <1>1, <1>2, <1>5, <2>1, RecordsStay DEF Tabled
    <2> QED BY <1>1, <1>2, <1>5, <2>2, TabledNext DEF Tabled
  <1>8. Placed'
    <2>1. \A p \in Recs(loctb) : IsPlace(p)'
      BY <1>1, <1>2, <1>3, <1>5, PlaceStays DEF Placed
    <2> QED BY <1>1, <1>2, <1>3, <1>5, <2>1, PlacesStay DEF Placed
  <1>9. Bounded'
    BY <1>1, <1>2, <1>3 DEF Bounded
  <1> QED BY <1>5, <1>6, <1>7, <1>8, <1>9 DEF Meant

-------------------------------------------------------------------------------
(* The ends of scopes.                                                     *)

LEMMA NamesDetagged ==
  ASSUME AllFiled, val!Detag, var!Detag, proc!Detag, func!Detag, NEW n,
         Len(valtags) = n, Len(vartags) = n, Len(proctags) = n, Len(functags) = n
  PROVE  /\ Filed(valtb', valtags', "names") /\ Filed(vartb', vartags', "names")
         /\ Filed(proctb', proctags', "names") /\ Filed(functb', functags', "names")
         /\ Recs(valtb') = {r \in Recs(valtb) : Level("names", r) < n}
         /\ Recs(vartb') = {r \in Recs(vartb) : Level("names", r) < n}
         /\ Recs(proctb') = {r \in Recs(proctb) : Level("names", r) < n}
         /\ Recs(functb') = {r \in Recs(functb) : Level("names", r) < n}
  <1>1. /\ Filed(valtb', valtags', "names")
        /\ Recs(valtb') = {r \in Recs(valtb) : Level("names", r) < n}
    BY FiledDetag DEF AllFiled, val!Detag, val!Top
  <1>2. /\ Filed(vartb', vartags', "names")
        /\ Recs(vartb') = {r \in Recs(vartb) : Level("names", r) < n}
    BY FiledDetag DEF AllFiled, var!Detag, var!Top
  <1>3. /\ Filed(proctb', proctags', "names")
        /\ Recs(proctb') = {r \in Recs(proctb) : Level("names", r) < n}
    BY FiledDetag DEF AllFiled, proc!Detag, proc!Top
  <1>4. /\ Filed(functb', functags', "names")
        /\ Recs(functb') = {r \in Recs(functb) : Level("names", r) < n}
    BY FiledDetag DEF AllFiled, func!Detag, func!Top
  <1> QED BY <1>1, <1>2, <1>3, <1>4

\* The history is cut where the tables are.
LEMMA HistoryCut ==
  ASSUME Nested, History, NEW n \in Nat, NEW S, decls' = UpTo(S),
         S = {i \in 1..Len(decls) : Level("names", decls[i]) < n}
  PROVE  Ordered(decls') /\ Declared' = {d \in Declared : Level("names", d) < n}
  <1>1. Ordered(decls) /\ decls' = SubSeq(decls, 1, LastOf(S))
    BY DEF History, UpTo
  <1>2. /\ Ordered(SubSeq(decls, 1, LastOf(S)))
        /\ Recs(SubSeq(decls, 1, LastOf(S))) = {d \in Recs(decls) : Level("names", d) < n}
    BY <1>1, OrderedCut
  <1>3. Recs(decls)' = Recs(decls')
    BY DEF Recs
  <1> QED BY <1>1, <1>2, <1>3 DEF Declared

LEMMA EndProgMeant ==
  ASSUME StepInv, Meant, EndProg
  PROVE  Meant'
  <1>0. PICK n, S : /\ n = 2 * Len(scope) + 2
                    /\ S = {i \in 1..Len(decls) : Level("names", decls[i]) < n}
    OBVIOUS
  <1>1. /\ Here.phase = "body" /\ Move("end")
        /\ val!Detag /\ var!Detag /\ proc!Detag /\ func!Detag
        /\ decls' = UpTo({i \in 1..Len(decls) : ~Inside(decls[i]) \/ decls[i].data.sort = "param"})
        /\ UNCHANGED <<loctb, loctags, scope>>
    BY DEF EndProg
  <1>2. Bounded /\ AllFiled /\ History /\ Tabled /\ Placed /\ Nested
    BY DEF Meant, StepInv
  <1>3. SameRoutines /\ (Here.phase)' = "end"
    BY <1>1, <1>2, SameAfterMove DEF Phases, InProg
  <1>4. /\ Len(scope) \in Nat /\ n \in Nat /\ Len(valtags) = n /\ Len(vartags) = n
        /\ Len(proctags) = n /\ Len(functags) = n
    BY <1>0, <1>1, TagsNow DEF InProg
  <1>5. ASSUME NEW d \in Declared
        PROVE  /\ Level("names", d) < n <=> ~Inside(d) \/ d.data.sort = "param"
               /\ ~(Level("names", d) < n) => Len(d.data.of) = Len(scope)
    <2>1. Len(d.data.of) \in 0..Len(scope) /\ Len(d.data.of) \in Nat
      BY <1>2, <1>4, Reach
    <2>2. /\ d.data.sort = "param" => Level("names", d) = 2 * Len(d.data.of) + 1
          /\ d.data.sort # "param" => Level("names", d) = 2 * Len(d.data.of) + 2
      BY <2>1, Levels
    <2>3. Inside(d) <=> Len(d.data.of) = Len(scope)
      BY <1>4, <2>1 DEF Inside
    <2>4. CASE d.data.sort = "param"
      BY <1>0, <1>4, <2>1, <2>2, <2>4
    <2>5. CASE d.data.sort # "param"
      BY <1>0, <1>4, <2>1, <2>2, <2>3, <2>5
    <2> QED BY <2>4, <2>5
  <1>6. decls' = UpTo(S)
    <2>1. \A i \in 1..Len(decls) : decls[i] \in Declared
      BY DEF Declared, Recs
    <2>2. S = {i \in 1..Len(decls) : ~Inside(decls[i]) \/ decls[i].data.sort = "param"}
      BY <1>0, <1>5, <2>1
    <2> QED BY <1>1, <2>2
  <1>7. Ordered(decls') /\ Declared' = {d \in Declared : Level("names", d) < n}
    BY <1>0, <1>2, <1>4, <1>6, HistoryCut
  <1>8. History'
    <2>1. \A d \in Declared' : Proper(d)'
      BY <1>2, <1>3, <1>7, RoutinesStay DEF History
    <2>2. ASSUME NEW d \in Declared' PROVE Timely(d)'
      <3>1. ~Inside(d) \/ d.data.sort = "param"
        BY <1>5, <1>7
      <3>2. Len(d.data.of) = Len(scope) => d.data.sort = "param"
        BY <1>4, <3>1 DEF Inside
      <3> QED BY <1>1, <1>3, <3>2 DEF Timely
    <2>3. ASSUME NEW k \in 1..Len(scope') PROVE \E d \in Declared' : IsRoutine(d, k)'
      <3>1. k \in 1..Len(scope) /\ scope \in Seq(Id)
        BY <1>1, <1>2 DEF Nested
      <3>2. PICK d \in Declared : IsRoutine(d, k)
        BY <1>2, <3>1 DEF History
      <3>3. k - 1 \in 0..Len(scope) /\ k - 1 < Len(scope)
        BY <1>4, <3>1
      <3>4. Len(d.data.of) = k - 1
        BY <3>1, <3>2, <3>3, Around DEF IsRoutine
      <3>5. d \in Declared'
        BY <1>5, <1>7, <3>2, <3>3, <3>4
      <3>6. IsRoutine(d, k)'
        BY <1>2, <1>3, <3>1, <3>2, RoutinesStay
      <3> QED BY <3>5, <3>6
    <2> QED BY <1>7, <2>1, <2>2, <2>3 DEF History
  <1>9. /\ Filed(valtb', valtags', "names") /\ Filed(vartb', vartags', "names")
        /\ Filed(proctb', proctags', "names") /\ Filed(functb', functags', "names")
        /\ Recs(valtb') = {r \in Recs(valtb) : Level("names", r) < n}
        /\ Recs(vartb') = {r \in Recs(vartb) : Level("names", r) < n}
        /\ Recs(proctb') = {r \in Recs(proctb) : Level("names", r) < n}
        /\ Recs(functb') = {r \in Recs(functb) : Level("names", r) < n}
    BY <1>1, <1>2, <1>4, NamesDetagged
  <1>10. AllFiled'
    BY <1>1, <1>2, <1>9, FiledNext DEF AllFiled
  <1>11. Tabled'
    <2>1. \A d : ~Pending(d) /\ ~Pending(d)'
      BY <1>1, <1>3 DEF Pending
    <2>2. Recorded(proctb, "proc")' /\ Recorded(functb, "func")'
      BY <1>2, <1>7, <1>9, <2>1, RecordsCut DEF Tabled
    <2>3. /\ Recs(valtb') = {d \in Declared' : d.data.sort = "const"}
          /\ Recs(vartb') = {d \in Declared' : d.data.sort \in Variables}
      BY <1>2, <1>7, <1>9 DEF Tabled
    <2> QED BY <2>2, <2>3, TabledNext
  <1>12. Placed'
    <2>1. \A d \in Declared : d \in Declared' \/ (Here.phase = "body" /\ (Here.phase)' = "end"
                                                  /\ Len(d.data.of) = Len(scope))
      BY <1>1, <1>3, <1>5, <1>7
    <2>2. \A p \in Recs(loctb) : IsPlace(p)'
      BY <1>1, <1>2, <1>3, <2>1, PlaceStays DEF Placed
    <2>3. \A d \in Declared' : d \in Declared
      BY <1>7
    <2> QED BY <1>1, <1>2, <1>3, <2>2, <2>3, PlacesStay DEF Placed
  <1>13. Bounded'
    BY <1>1, <1>2, <1>3 DEF Bounded
  <1> QED BY <1>8, <1>10, <1>11, <1>12, <1>13 DEF Meant

\* Back in the routine around.
LEMMA LeftRoutine ==
  ASSUME Nested, scope # <<>>, scope' = Outer(scope), part' = Outer(part)
  PROVE  /\ scope \in Seq(Id) /\ Len(scope) \in Nat /\ Len(scope) > 0
         /\ Len(part) = Len(scope) + 1 /\ Len(part') = Len(scope)
         /\ Len(scope') = Len(scope) - 1
         /\ \A i \in 1..(Len(scope) - 1) : scope'[i] = scope[i]
         /\ \A i \in 0..(Len(scope) - 1) : SubSeq(scope', 1, i) = SubSeq(scope, 1, i)
         /\ \A k \in 1..Len(scope) : part'[k] = part[k]
         /\ (Here.phase)' = "exec"
  <1>1. /\ scope \in Seq(Id) /\ Len(scope) \in Nat /\ Len(part) = Len(scope) + 1
        /\ part \in Seq(Walk) /\ \A k \in 1..Len(scope) : part[k].phase = "exec"
    BY HereIn DEF Nested
  <1>2. Len(scope) > 0 /\ Len(part) > 0
    BY <1>1
  <1>3. /\ Len(scope') = Len(scope) - 1
        /\ \A i \in 1..(Len(scope) - 1) : scope'[i] = scope[i]
        /\ \A i \in 0..(Len(scope) - 1) : SubSeq(scope', 1, i) = SubSeq(scope, 1, i)
    BY <1>1, <1>2, AroundLeft
  <1>4. Len(part') = Len(scope) /\ \A k \in 1..Len(scope) : part'[k] = part[k]
    <2>1. /\ Len(part') = Len(part) - 1 /\ \A k \in 1..(Len(part) - 1) : part'[k] = part[k]
      BY <1>1, <1>2, Left
    <2>2. Len(part) - 1 = Len(scope)
      BY <1>1
    <2> QED BY <2>1, <2>2
  <1>5. (Here.phase)' = "exec"
    <2>1. Len(scope) \in 1..Len(scope)
      BY <1>1, <1>2
    <2>2. part'[Len(part')].phase = "exec"
      BY <1>1, <1>4, <2>1
    <2> QED BY <2>2 DEF Here
  <1> QED BY <1>1, <1>2, <1>3, <1>4, <1>5

LEMMA EndRoutineMeant ==
  ASSUME StepInv, Meant, EndRoutine
  PROVE  Meant'
  <1>0. PICK n, S, m : /\ n = 2 * Len(scope) + 1 /\ m = Len(scope)
                       /\ S = {i \in 1..Len(decls) : Level("names", decls[i]) < n}
    OBVIOUS
  <1>1. /\ Here.phase = "end" /\ scope # <<>> /\ scope' = Outer(scope) /\ part' = Outer(part)
        /\ val!Detag /\ var!Detag /\ proc!Detag /\ func!Detag /\ loc!Detag
        /\ decls' = UpTo({i \in 1..Len(decls) : ~Inside(decls[i])})
    BY DEF EndRoutine
  <1>2. Bounded /\ AllFiled /\ History /\ Tabled /\ Placed /\ Nested
    BY DEF Meant, StepInv
  <1>3. /\ scope \in Seq(Id) /\ m \in Nat /\ m > 0 /\ Len(part) = m + 1 /\ Len(part') = m
        /\ Len(scope') = m - 1
        /\ \A i \in 1..(m - 1) : scope'[i] = scope[i]
        /\ \A i \in 0..(m - 1) : SubSeq(scope', 1, i) = SubSeq(scope, 1, i)
        /\ \A k \in 1..m : part'[k] = part[k]
        /\ (Here.phase)' = "exec"
    BY <1>0, <1>1, <1>2, LeftRoutine
  <1>4. /\ n \in Nat /\ Len(valtags) = n /\ Len(vartags) = n /\ Len(proctags) = n
        /\ Len(functags) = n /\ Len(loctags) = m + 2
    BY <1>0, <1>1, TagsNow DEF InProg
  <1>5. ASSUME NEW d \in Declared
        PROVE  /\ Len(d.data.of) \in 0..m
               /\ Level("names", d) < n <=> ~Inside(d)
               /\ Level("names", d) < n <=> Len(d.data.of) \in 0..(m - 1)
    <2>1. Len(d.data.of) \in 0..m /\ Len(d.data.of) \in Nat
      BY <1>0, <1>2, Reach
    <2>2. \/ Level("names", d) = 2 * Len(d.data.of) + 1
          \/ Level("names", d) = 2 * Len(d.data.of) + 2
      BY <2>1, Levels
    <2>3. Inside(d) <=> Len(d.data.of) >= m
      BY <1>0 DEF Inside
    <2> QED BY <1>0, <1>3, <2>1, <2>2, <2>3
  <1>6. decls' = UpTo(S)
    <2>1. \A i \in 1..Len(decls) : decls[i] \in Declared
      BY DEF Declared, Recs
    <2>2. S = {i \in 1..Len(decls) : ~Inside(decls[i])}
      BY <1>0, <1>5, <2>1
    <2> QED BY <1>1, <2>2
  <1>7. Ordered(decls') /\ Declared' = {d \in Declared : Level("names", d) < n}
    BY <1>0, <1>2, <1>4, <1>6, HistoryCut
  <1>8. History'
    <2>1. ASSUME NEW d \in Declared' PROVE Proper(d)' /\ Timely(d)'
      <3>1. d \in Declared /\ Len(d.data.of) \in 0..(m - 1) /\ Proper(d)
        BY <1>2, <1>5, <1>7 DEF History
      <3>2. d.data.of = SubSeq(scope', 1, Len(d.data.of))
        BY <1>3, <3>1 DEF Proper
      <3>3. Len(d.data.of) > 0 => d.name # <<scope'[Len(d.data.of)]>>
        <4>1. Len(d.data.of) > 0 => Len(d.data.of) \in 1..(m - 1)
          BY <1>3, <3>1
        <4> QED BY <1>3, <3>1, <4>1 DEF Proper
      <3>4. Proper(d)'
        BY <1>3, <3>1, <3>2, <3>3 DEF Proper
      <3>5. Timely(d)'
        BY <1>3 DEF Timely, InProg
      <3> QED BY <3>4, <3>5
    <2>2. ASSUME NEW k \in 1..Len(scope') PROVE \E d \in Declared' : IsRoutine(d, k)'
      <3>1. k \in 1..m /\ k \in 1..(m - 1) /\ k - 1 \in 0..(m - 1) /\ k + 1 \in 1..m /\ k - 1 \in 0..m
        BY <1>3
      <3>2. PICK d \in Declared : IsRoutine(d, k)
        BY <1>0, <1>2, <3>1 DEF History
      <3>3. Len(d.data.of) = k - 1
        BY <1>0, <1>3, <3>1, <3>2, Around DEF IsRoutine
      <3>4. d \in Declared'
        BY <1>5, <1>7, <3>1, <3>2, <3>3
      <3>5. IsRoutine(d, k)'
        BY <1>3, <3>1, <3>2 DEF IsRoutine
      <3> QED BY <3>4, <3>5
    <2> QED BY <1>7, <2>1, <2>2 DEF History
  <1>9. /\ Filed(valtb', valtags', "names") /\ Filed(vartb', vartags', "names")
        /\ Filed(proctb', proctags', "names") /\ Filed(functb', functags', "names")
        /\ Recs(valtb') = {r \in Recs(valtb) : Level("names", r) < n}
        /\ Recs(vartb') = {r \in Recs(vartb) : Level("names", r) < n}
        /\ Recs(proctb') = {r \in Recs(proctb) : Level("names", r) < n}
        /\ Recs(functb') = {r \in Recs(functb) : Level("names", r) < n}
    BY <1>1, <1>2, <1>4, NamesDetagged
  <1>10. /\ Filed(loctb', loctags', "places")
         /\ Recs(loctb') = {r \in Recs(loctb) : Level("places", r) < m + 2}
    <2>1. Filed(loctb, loctags, "places") /\ Len(loctags) > 1
      BY <1>2, <1>3, <1>4 DEF AllFiled
    <2>2. loctb' = SubSeq(loctb, 1, loctags[Len(loctags)])
          /\ loctags' = SubSeq(loctags, 1, Len(loctags) - 1)
      BY <1>1 DEF loc!Detag, loc!Top
    <2>3. /\ Filed(loctb', loctags', "places")
          /\ Recs(loctb') = {r \in Recs(loctb) : Level("places", r) < Len(loctags)}
      BY <2>1, <2>2, FiledDetag
    <2> QED BY <1>4, <2>3
  <1>11. AllFiled'
    BY <1>9, <1>10, FiledNext
  <1>12. Tabled'
    <2>1. \A d : ~Pending(d) /\ ~Pending(d)'
      BY <1>1, <1>3 DEF Pending
    <2>2. Recorded(proctb, "proc")' /\ Recorded(functb, "func")'
      BY <1>2, <1>7, <1>9, <2>1, RecordsCut DEF Tabled
    <2>3. /\ Recs(valtb') = {d \in Declared' : d.data.sort = "const"}
          /\ Recs(vartb') = {d \in Declared' : d.data.sort \in Variables}
      BY <1>2, <1>7, <1>9 DEF Tabled
    <2> QED BY <2>2, <2>3, TabledNext
  <1>13. ASSUME NEW r \in Recs(loctb)
         PROVE  r \in Recs(loctb') <=> Len(r.data.of) \in 0..(m - 1)
    <2>1. Len(r.data.of) \in 0..m
      BY <1>0, <1>2 DEF Placed, IsPlace
    <2>2. Level("places", r) = Len(r.data.of) + 2
      BY DEF Level
    <2> QED BY <1>3, <1>10, <2>1, <2>2
  <1>14. Placed'
    <2>1. Recs(loctb)' = Recs(loctb')
      BY DEF Recs
    <2>2. ASSUME NEW d \in Declared', d.data.sort \in Variables PROVE d \in Recs(loctb')
      <3>1. d \in Declared /\ Len(d.data.of) \in 0..(m - 1)
        BY <1>5, <1>7
      <3>2. d \in Recs(loctb)
        BY <1>2, <2>2, <3>1 DEF Placed
      <3> QED BY <1>13, <3>1, <3>2
    <2>3. ASSUME NEW r \in Recs(loctb') PROVE IsPlace(r)'
      <3>1. r \in Recs(loctb) /\ Len(r.data.of) \in 0..(m - 1)
        BY <1>10, <1>13
      <3>2. IsPlace(r)
        BY <1>2, <3>1 DEF Placed
      <3>3. r.data.of = SubSeq(scope', 1, Len(r.data.of)) /\ Len(r.data.of) # m
        BY <1>3, <3>1, <3>2 DEF IsPlace
      <3>4. IsVariable(r) => IsVariable(r)'
        <4>1. SUFFICES ASSUME IsVariable(r) PROVE IsVariable(r)'
          OBVIOUS
        <4>2. r \in Declared
          BY <1>0, <3>3, <4>1 DEF IsVariable
        <4>3. r \in Declared'
          BY <1>5, <1>7, <3>1, <4>2
        <4> QED BY <4>1, <4>3 DEF IsVariable, Variables
      <3>5. (IsDisplay(r) <=> IsDisplay(r)') /\ (IsResult(r) <=> IsResult(r)')
        BY DEF IsDisplay, IsResult, LastOfPath
      <3> QED BY <1>3, <3>1, <3>2, <3>3, <3>4, <3>5 DEF IsPlace
    <2>4. ASSUME NEW k \in 2..Len(part'), part'[k].sort = "func" PROVE HasResult(k)'
      <3>1. k \in 2..Len(part) /\ k \in 1..m /\ k - 1 \in 0..(m - 1) /\ k < Len(part) /\ k - 1 \in 0..m
        BY <1>3
      <3>2. part[k].sort = "func"
        BY <1>3, <2>4, <3>1
      <3>3. Opened(k)
        BY <3>1 DEF Opened
      <3>4. PICK r \in Recs(loctb) : IsResult(r) /\ r.data.of = SubSeq(scope, 1, k - 1)
        BY <1>2, <3>1, <3>2, <3>3 DEF Placed, HasResult
      <3>5. Len(r.data.of) = k - 1
        BY <1>0, <1>3, <3>1, <3>4, Around
      <3>6. r \in Recs(loctb)'
        BY <1>13, <2>1, <3>1, <3>5
      <3>7. IsResult(r)' /\ r.data.of = SubSeq(scope', 1, k - 1)
        BY <1>3, <3>1, <3>4 DEF IsResult, LastOfPath
      <3> QED BY <3>6, <3>7 DEF HasResult
    <2>5. FramesInOrder(loctb')
      <3>1. Filed(loctb, loctags, "places") /\ FramesInOrder(loctb) /\ loctb \in Seq(Recs(loctb))
        BY <1>2 DEF AllFiled, Placed, Filed
      <3>2. loctags[Len(loctags)] \in 0..Len(loctb)
        BY <1>3, <1>4, <3>1 DEF Filed
      <3>3. loctb' = SubSeq(loctb, 1, loctags[Len(loctags)])
        BY <1>1 DEF loc!Detag, loc!Top
      <3> QED BY <3>1, <3>2, <3>3, FramesInOrderPrefix
    <2>6. FramesInOrder(loctb)'
      BY <2>5 DEF FramesInOrder, IsMain
    <2> QED BY <2>1, <2>2, <2>3, <2>4, <2>6 DEF Placed, Variables
  <1>15. Bounded'
    <2>1. Len(scope') <= MaxNest
      BY <1>0, <1>2, <1>3, TablesAssumption DEF Bounded
    <2> QED BY <1>3, <2>1 DEF Bounded
  <1> QED BY <1>8, <1>11, <1>12, <1>14, <1>15 DEF Meant

-------------------------------------------------------------------------------
(* The invariant.                                                          *)

LEMMA NoRecords ==
  Recs(<<>>) = {} /\ Filed(<<>>, <<0, 0>>, "names") /\ Ordered(<<>>)
  <1>1. Len(<<>>) = 0 /\ Recs(<<>>) = {}
    BY DEF Recs
  <1>2. /\ <<>> \in Seq(Recs(<<>>)) /\ <<0, 0>> \in Seq(Nat) /\ Len(<<0, 0>>) = 2
        /\ \A j \in 1..2 : <<0, 0>>[j] = 0
    OBVIOUS
  <1>3. Filed(<<>>, <<0, 0>>, "names")
    BY <1>1, <1>2 DEF Filed
  <1>4. Ordered(<<>>)
    BY <1>1, <1>2 DEF Ordered
  <1> QED BY <1>1, <1>3, <1>4

\* The place of the display of main.
LEMMA MainPlace ==
  ASSUME NEW r, r.name = <<"$fn", "main">>, r.data.of = <<>>, r.data.sort = "display"
  PROVE  /\ Recs(<<r>>) = {r} /\ Filed(<<r>>, <<0, 0>>, "places") /\ FramesInOrder(<<r>>)
         /\ IsDisplay(r)
  <1> DEFINE t == <<r>>
             g == <<0, 0>>
  <1>1. t \in Seq({r}) /\ Len(t) = 1 /\ t[1] = r /\ \A i \in 1..1 : i = 1
    OBVIOUS
  <1>2. g \in Seq(Nat) /\ Len(g) = 2 /\ \A j \in 1..2 : g[j] = 0
    OBVIOUS
  <1> HIDE DEF t, g
  <1>3. Recs(t) = {r}
    BY <1>1 DEF Recs
  <1>4. Level("places", r) = 2
    BY DEF Level
  <1>5. Filed(t, g, "places")
    <2>1. \A i \in 1..Len(t) : i = 1 /\ t[i] = r
      BY <1>1
    <2> QED BY <1>1, <1>2, <1>3, <1>4, <2>1 DEF Filed
  <1>6. FramesInOrder(t)
    BY <1>1 DEF FramesInOrder, IsMain
  <1>7. IsDisplay(r)
    BY MainName DEF IsDisplay, LastOfPath
  <1> QED BY <1>3, <1>5, <1>6, <1>7 DEF t, g

LEMMA MeaningInit == Init => MeaningInv
  <1> SUFFICES ASSUME Init PROVE MeaningInv
    OBVIOUS
  <1>1. StepInv
    BY StepInvInit
  <1>2. PICK r : r = [name |-> <<"$fn", "main">>,
                      data |-> [of |-> <<>>, sort |-> "display", params |-> 0]]
    OBVIOUS
  <1>3. /\ valtb = <<>> /\ vartb = <<>> /\ proctb = <<>> /\ functb = <<>>
        /\ valtags = <<0, 0>> /\ vartags = <<0, 0>> /\ proctags = <<0, 0>> /\ functags = <<0, 0>>
        /\ loctags = <<0, 0>> /\ loctb = <<r>> /\ scope = <<>> /\ decls = <<>>
        /\ part = << Frame("const", "proc", 0) >>
    BY <1>2 DEF Init
  <1>4. r.name = <<"$fn", "main">> /\ r.data.of = <<>> /\ r.data.sort = "display"
    BY <1>2
  <1>5. /\ Recs(loctb) = {r} /\ Filed(loctb, loctags, "places") /\ FramesInOrder(loctb)
        /\ IsDisplay(r)
    BY <1>3, <1>4, MainPlace
  <1>6. AllFiled
    BY <1>3, <1>5, NoRecords DEF AllFiled
  <1>7. Declared = {} /\ Recs(valtb) = {} /\ Recs(vartb) = {} /\ Recs(proctb) = {}
        /\ Recs(functb) = {} /\ Ordered(decls)
    BY <1>3, NoRecords DEF Declared
  <1>8. Len(scope) = 0 /\ Here.phase = "const" /\ Len(part) = 1
    BY <1>3 DEF Here, Frame
  <1>9. History
    BY <1>7, <1>8 DEF History
  <1>10. Tabled
    BY <1>7 DEF Tabled, Recorded
  <1>11. Placed
    <2>1. IsPlace(r)
      <3>1. Len(r.data.of) = 0 /\ SubSeq(scope, 1, 0) = <<>>
        BY <1>3, <1>4
      <3> QED BY <1>4, <1>5, <1>8, <3>1 DEF IsPlace
    <2> QED BY <1>5, <1>7, <1>8, <2>1 DEF Placed
  <1>12. Bounded
    BY <1>8, TablesAssumption DEF Bounded
  <1> QED BY <1>1, <1>6, <1>9, <1>10, <1>11, <1>12 DEF MeaningInv, Meant

LEMMA MeaningNext == MeaningInv /\ [Next]_vars => MeaningInv'
  <1> SUFFICES ASSUME MeaningInv, [Next]_vars PROVE MeaningInv'
    OBVIOUS
  <1>1. StepInv /\ StepInv'
    BY StepInvNext DEF MeaningInv
  <1> SUFFICES ASSUME status' = "ok" PROVE Meant'
    BY <1>1 DEF MeaningInv
  <1>2. ASSUME status = "ok" PROVE Meant
    BY <1>2 DEF MeaningInv
  <1>3. ASSUME NEW x \in Id, ConstStmt(x) PROVE Meant'
    <2>1. status = "ok"
      BY <1>3 DEF ConstStmt, Report
    <2> QED BY <1>1, <1>2, <1>3, <2>1, ConstMeant
  <1>4. ASSUME NEW x \in Id, VarStmt(x) PROVE Meant'
    <2>1. status = "ok"
      BY <1>4 DEF VarStmt, Report
    <2> QED BY <1>1, <1>2, <1>4, <2>1, VarMeant
  <1>5. ASSUME NEW x \in Id, Param(x) PROVE Meant'
    <2>1. status = "ok"
      BY <1>5 DEF Param
    <2> QED BY <1>1, <1>2, <1>5, <2>1, ParamMeant
  <1>6. ASSUME NEW fails, NEW crashes, Statement(fails, crashes) PROVE Meant'
    <2>1. status = "ok" /\ UNCHANGED <<tables, scope, part, decls>>
      BY <1>6 DEF Statement
    <2> QED BY <1>1, <1>2, <2>1, StillMeant
  <1>7. ASSUME NEW x \in Id, Assign(x) \/ Identifier(x) \/ UseVariable(x) PROVE Meant'
    BY <1>6, <1>7 DEF Assign, Identifier, UseVariable
  <1>8. ASSUME NEW x \in Id, NEW sort \in {"proc", "func"}, NEW n \in 0..MaxParams,
               Routine(sort, x, n)
        PROVE  Meant'
    <2>1. status = "ok"
      BY <1>8 DEF Routine, Report
    <2> QED BY <1>1, <1>2, <1>8, <2>1, RoutineMeant
  <1>9. ASSUME NEW x \in Id, NEW n \in 0..MaxParams, CallProc(x, n) \/ CallFunc(x, n)
        PROVE  Meant'
    BY <1>6, <1>9 DEF CallProc, CallFunc, Call
  <1>10. ASSUME Header PROVE Meant'
    <2>1. status = "ok"
      BY <1>10 DEF Header
    <2> QED BY <1>1, <1>2, <1>10, <2>1, HeaderMeant
  <1>11. ASSUME Open PROVE Meant'
    <2>1. status = "ok"
      BY <1>11 DEF Open
    <2> QED BY <1>1, <1>2, <1>11, <2>1, OpenMeant
  <1>12. ASSUME Prog PROVE Meant'
    <2>1. status = "ok"
      BY <1>12 DEF Prog
    <2> QED BY <1>1, <1>2, <1>12, <2>1, ProgMeant
  <1>13. ASSUME Compound PROVE Meant'
    <2>1. status = "ok"
      BY <1>13 DEF Compound
    <2> QED BY <1>1, <1>2, <1>13, <2>1, CompoundMeant
  <1>14. ASSUME EndProg PROVE Meant'
    <2>1. status = "ok"
      BY <1>14 DEF EndProg
    <2> QED BY <1>1, <1>2, <1>14, <2>1, EndProgMeant
  <1>15. ASSUME EndRoutine PROVE Meant'
    <2>1. status = "ok"
      BY <1>15 DEF EndRoutine
    <2> QED BY <1>1, <1>2, <1>15, <2>1, EndRoutineMeant
  <1>16. ASSUME Stopped \/ UNCHANGED vars PROVE Meant'
    <2>1. status = "ok" /\ UNCHANGED <<tables, scope, part, decls>>
      BY <1>16 DEF Stopped, vars
    <2> QED BY <1>1, <1>2, <2>1, StillMeant
  <1> QED BY <1>3, <1>4, <1>5, <1>7, <1>8, <1>9, <1>10, <1>11, <1>12, <1>13, <1>14, <1>15,
             <1>16 DEF Next

\* Whatever the program, while no error is reported: each table files every
\* record into the scope that declares it, the tables of names hold the
\* declarations in scope and no others, and the table of places those of the
\* variables, of the displays and of the results of functions, where the
\* parameters of a routine come first.
THEOREM MeaningInvariant == Spec => []MeaningInv
  <1> QED BY MeaningInit, MeaningNext, PTL DEF Spec

-------------------------------------------------------------------------------
(* What a name means.                                                      *)

Named(x) == {d \in Declared : d.name = <<x>>}

\* The meaning of a name is the innermost of its declarations.
LEMMA LastDeclared ==
  ASSUME Nested, History, NEW x
  PROVE  /\ Named(x) = {} => Meaning(x) = Undeclared
         /\ Named(x) # {} =>
              /\ Meaning(x) \in Named(x)
              /\ \A d \in Named(x) : Level("names", d) <= Level("names", Meaning(x))
              /\ \A d \in Named(x) : Level("names", d) = Level("names", Meaning(x))
                                     => d = Meaning(x)
  <1> DEFINE S == {i \in 1..Len(decls) : decls[i].name = <<x>>}
  <1>1. /\ decls \in Seq(Declared) /\ Len(decls) \in Nat
        /\ \A i, j \in 1..Len(decls) : i <= j => Level("names", decls[i]) <= Level("names", decls[j])
        /\ \A i, j \in 1..Len(decls) :
             decls[i].name = decls[j].name /\ Level("names", decls[i]) = Level("names", decls[j])
             => i = j
    BY DEF History, Ordered, Declared
  <1>2. Meaning(x) = IF S = {} THEN Undeclared ELSE decls[LastOf(S)]
    BY DEF Meaning
  <1>3. Named(x) = {decls[i] : i \in S}
    BY DEF Named, Declared, Recs
  <1>4. CASE S = {}
    BY <1>2, <1>3, <1>4
  <1>5. CASE S # {}
    <2>1. S \in SUBSET (1..Len(decls)) /\ \A i \in S : i \in 1..Len(decls) /\ decls[i].name = <<x>>
      OBVIOUS
    <2> HIDE DEF S
    <2>2. \E i \in S : \A j \in S : j <= i
      BY <1>1, <1>5, <2>1, Greatest
    <2> DEFINE p == LastOf(S)
    <2>3. p \in S /\ \A j \in S : j <= p
      BY <1>5, <2>2 DEF LastOf
    <2>4. Meaning(x) = decls[p]
      BY <1>2, <1>5
    <2> HIDE DEF p
    <2>5. Meaning(x) \in Named(x)
      BY <1>3, <2>3, <2>4
    <2>6. ASSUME NEW d \in Named(x)
          PROVE  /\ Level("names", d) <= Level("names", decls[p])
                 /\ Level("names", d) = Level("names", decls[p]) => d = decls[p]
      <3>1. PICK i \in S : d = decls[i]
        BY <1>3
      <3>2. i \in 1..Len(decls) /\ p \in 1..Len(decls) /\ i <= p /\ decls[i].name = decls[p].name
        BY <2>1, <2>3
      <3> QED BY <1>1, <3>1, <3>2
    <2> QED BY <2>4, <2>5, <2>6
  <1> QED BY <1>4, <1>5

\* A table of the declarations of the given sorts.
Keeps(t, sorts, x) ==
    /\ \A r \in Recs(t) : Hit(r, <<x>>) => \E d \in Named(x) : d.data = r.data /\ d.data.sort \in sorts
    /\ \A d \in Named(x) : d.data.sort \in sorts => \E r \in Recs(t) : Hit(r, <<x>>) /\ r.data = d.data

\* A name found that deep in the table t, and the record found.
Answers(t, g, x, depth) ==
    DepthIn(t, g, <<x>>) = depth /\ Get(t, At(t, <<x>>)).data = Meaning(x).data

\* The table that keeps the meaning of a name answers it, the others find the
\* name further out.
LEMMA TableAnswers ==
  ASSUME Nested, History, NEW x, NEW t, NEW g, Filed(t, g, "names"),
         NEW sorts, Keeps(t, sorts, x)
  PROVE  /\ Named(x) = {} => DepthIn(t, g, <<x>>) = -1 /\ At(t, <<x>>) = 0
         /\ Named(x) # {} /\ Meaning(x).data.sort \in sorts =>
              Answers(t, g, x, Level("names", Meaning(x)) - 1)
         /\ Named(x) # {} /\ Meaning(x).data.sort \notin sorts =>
              DepthIn(t, g, <<x>>) < Level("names", Meaning(x)) - 1
         /\ DepthIn(t, g, <<x>>) \in Int
  <1> DEFINE D == Meaning(x)
             l(d) == Level("names", d)
  <1>1. /\ \A r \in Recs(t) : Hit(r, <<x>>) => \E d \in Named(x) : d.data = r.data /\ d.data.sort \in sorts
        /\ \A d \in Named(x) : d.data.sort \in sorts => \E r \in Recs(t) : Hit(r, <<x>>) /\ r.data = d.data
    BY DEF Keeps
  <1>2. Named(x) # {} => /\ D \in Named(x) /\ \A d \in Named(x) : l(d) <= l(D)
                         /\ \A d \in Named(x) : l(d) = l(D) => d = D
    BY LastDeclared
  <1>3. \A d \in Named(x) : l(d) \in Nat /\ l(d) >= 1
    <2>1. ASSUME NEW d \in Named(x) PROVE l(d) \in Nat /\ l(d) >= 1
      <3>1. d \in Declared
        BY DEF Named
      <3>2. Len(d.data.of) \in Nat
        BY <3>1, Reach
      <3> QED BY <3>2, Levels
    <2> QED BY <2>1
  <1>4. \A r, d : r.data = d.data => l(r) = l(d)
    BY DEF Level
  <1>5. CASE \E r \in Recs(t) : Hit(r, <<x>>)
    <2>1. PICK i \in 1..Len(t) : StopsAt(t, g, "names", <<x>>, i, t[i])
      BY <1>5, LastFound
    <2> DEFINE r == t[i]
    <2>2. /\ r \in Recs(t) /\ Hit(r, <<x>>) /\ At(t, <<x>>) = i /\ i # 0
          /\ DepthIn(t, g, <<x>>) = l(r) - 1
          /\ \A q \in Recs(t) : Hit(q, <<x>>) => l(q) <= l(r)
      BY <2>1 DEF StopsAt
    <2> HIDE DEF l, D
    <2>3. PICK d \in Named(x) : d.data = r.data /\ d.data.sort \in sorts
      BY <1>1, <2>2
    <2>4. l(r) = l(d) /\ l(d) \in Nat /\ D \in Named(x) /\ l(d) <= l(D) /\ l(D) \in Nat
      BY <1>2, <1>3, <1>4, <2>3
    <2>5. CASE D.data.sort \in sorts
      <3>1. PICK q \in Recs(t) : Hit(q, <<x>>) /\ q.data = D.data
        BY <1>1, <2>4, <2>5
      <3>2. l(q) = l(D) /\ l(q) <= l(r)
        BY <1>4, <2>2, <3>1
      <3>3. l(d) = l(D)
        BY <2>4, <3>2
      <3>4. d = D
        BY <1>2, <2>3, <2>4, <3>3
      <3>5. Get(t, At(t, <<x>>)) = r
        BY <2>2 DEF Get
      <3>6. r.data = D.data /\ DepthIn(t, g, <<x>>) = l(D) - 1
        BY <2>2, <2>3, <2>4, <3>3, <3>4
      <3> QED BY <2>4, <2>5, <3>5, <3>6 DEF Answers, l, D
    <2>6. CASE D.data.sort \notin sorts
      <3>1. l(d) # l(D)
        BY <1>2, <2>3, <2>4, <2>6
      <3> QED BY <2>2, <2>4, <2>6, <3>1 DEF l, D
    <2> QED BY <2>5, <2>6 DEF D
  <1>6. CASE \A r \in Recs(t) : ~Hit(r, <<x>>)
    <2>1. DepthIn(t, g, <<x>>) = -1 /\ At(t, <<x>>) = 0
      BY <1>6, NothingFound
    <2>2. Named(x) # {} => D.data.sort \notin sorts /\ l(D) >= 1 /\ l(D) \in Nat
      BY <1>1, <1>2, <1>3, <1>6
    <2> QED BY <2>1, <2>2
  <1> QED BY <1>5, <1>6

LEMMA PlainHit ==
  ASSUME NEW r, \E y \in Id : r.name = <<y>>, NEW x, Hit(r, <<x>>)
  PROVE  r.name = <<x>>
  BY PlainNames DEF Hit

LEMMA KeptTables ==
  ASSUME History, Tabled, Here.phase # "params", NEW x
  PROVE  /\ Keeps(valtb, {"const"}, x) /\ Keeps(vartb, Variables, x)
         /\ Keeps(proctb, {"proc"}, x) /\ Keeps(functb, {"func"}, x)
  <1>1. \A d \in Declared : \E y \in Id : d.name = <<y>>
    BY DEF History, Proper
  <1>2. \A d \in Named(x) : d \in Declared /\ d.name = <<x>> /\ Hit(d, <<x>>)
    BY DEF Named, Hit
  <1>3. Keeps(valtb, {"const"}, x)
    <2>1. Recs(valtb) = {d \in Declared : d.data.sort = "const"}
      BY DEF Tabled
    <2>2. ASSUME NEW r \in Recs(valtb), Hit(r, <<x>>) PROVE r \in Named(x) /\ r.data.sort = "const"
      BY <1>1, <2>1, <2>2, PlainHit DEF Named
    <2> QED BY <1>2, <2>1, <2>2 DEF Keeps
  <1>4. Keeps(vartb, Variables, x)
    <2>1. Recs(vartb) = {d \in Declared : d.data.sort \in Variables}
      BY DEF Tabled
    <2>2. ASSUME NEW r \in Recs(vartb), Hit(r, <<x>>)
          PROVE  r \in Named(x) /\ r.data.sort \in Variables
      BY <1>1, <2>1, <2>2, PlainHit DEF Named
    <2> QED BY <1>2, <2>1, <2>2 DEF Keeps
  <1>5. ASSUME NEW r, NEW d \in Declared, Stands(r, d)
        PROVE  Hit(r, <<x>>) <=> d \in Named(x)
    <2>1. Len(<<x>>) = 1 /\ Len(r.name) > 1 /\ LastPart[r.name] = d.name
      BY <1>5 DEF Stands
    <2>2. ASSUME r.name = <<x>> PROVE FALSE
      <3>1. Len(r.name) = 1
        BY <2>1, <2>2
      <3> QED BY <2>1, <3>1
    <2> QED BY <2>1, <2>2 DEF Hit, Named
  <1>6. \A d : ~Pending(d)
    BY DEF Pending
  <1>7. Keeps(proctb, {"proc"}, x)
    <2>1. /\ \A d \in Declared : d.data.sort = "proc" => \E r \in Recs(proctb) : Stands(r, d)
          /\ \A r \in Recs(proctb) : \E d \in Declared : d.data.sort = "proc" /\ Stands(r, d)
      BY <1>6 DEF Tabled, Recorded
    <2>2. \A r, d : Stands(r, d) => r.data = d.data
      BY DEF Stands
    <2> QED BY <1>2, <1>5, <2>1, <2>2 DEF Keeps
  <1>8. Keeps(functb, {"func"}, x)
    <2>1. /\ \A d \in Declared : d.data.sort = "func" => \E r \in Recs(functb) : Stands(r, d)
          /\ \A r \in Recs(functb) : \E d \in Declared : d.data.sort = "func" /\ Stands(r, d)
      BY <1>6 DEF Tabled, Recorded
    <2>2. \A r, d : Stands(r, d) => r.data = d.data
      BY DEF Stands
    <2> QED BY <1>2, <1>5, <2>1, <2>2 DEF Keeps
  <1> QED BY <1>3, <1>4, <1>7, <1>8

\* What the four tables answer about x.
LEMMA AllAnswers ==
  ASSUME MeaningInv, InBody, NEW x
  PROVE  LET D == Meaning(x)
             l == Level("names", D) - 1
             d1 == DepthIn(valtb, valtags, <<x>>)
             d2 == DepthIn(vartb, vartags, <<x>>)
             d3 == DepthIn(functb, functags, <<x>>)
             d4 == DepthIn(proctb, proctags, <<x>>)
         IN /\ d1 \in Int /\ d2 \in Int /\ d3 \in Int /\ d4 \in Int /\ l \in Int
            /\ D = Undeclared => d1 = -1 /\ d2 = -1 /\ d3 = -1 /\ d4 = -1
                                 /\ At(functb, <<x>>) = 0 /\ At(vartb, <<x>>) = 0
            /\ D.data.sort = "const" => Answers(valtb, valtags, x, l) /\ d2 < l /\ d3 < l
            /\ D.data.sort \in Variables => Answers(vartb, vartags, x, l) /\ d1 < l /\ d3 < l
            /\ D.data.sort = "func" => Answers(functb, functags, x, l) /\ d1 < l /\ d2 < l
            /\ D.data.sort = "proc" => Answers(proctb, proctags, x, l)
            /\ D.data.sort \in {"const", "var", "param", "proc", "func", "none"}
            /\ D.data.sort = "none" => D = Undeclared
  <1> DEFINE D == Meaning(x)
             l == Level("names", D) - 1
             d1 == DepthIn(valtb, valtags, <<x>>)
             d2 == DepthIn(vartb, vartags, <<x>>)
             d3 == DepthIn(functb, functags, <<x>>)
             d4 == DepthIn(proctb, proctags, <<x>>)
             no == Named(x) = {}
  <1>1. Nested /\ History /\ Tabled /\ AllFiled /\ Here.phase # "params"
    BY DEF MeaningInv, InBody, Meant, StepInv
  <1>2. /\ Filed(valtb, valtags, "names") /\ Filed(vartb, vartags, "names")
        /\ Filed(proctb, proctags, "names") /\ Filed(functb, functags, "names")
    BY <1>1 DEF AllFiled
  <1>3. /\ Keeps(valtb, {"const"}, x) /\ Keeps(vartb, Variables, x)
        /\ Keeps(proctb, {"proc"}, x) /\ Keeps(functb, {"func"}, x)
    BY <1>1, KeptTables
  <1>4. /\ no => d1 = -1
        /\ ~no /\ D.data.sort \in {"const"} => Answers(valtb, valtags, x, l)
        /\ ~no /\ D.data.sort \notin {"const"} => d1 < l
        /\ d1 \in Int
    BY <1>1, <1>2, <1>3, TableAnswers
  <1>5. /\ no => d2 = -1 /\ At(vartb, <<x>>) = 0
        /\ ~no /\ D.data.sort \in Variables => Answers(vartb, vartags, x, l)
        /\ ~no /\ D.data.sort \notin Variables => d2 < l
        /\ d2 \in Int
    BY <1>1, <1>2, <1>3, TableAnswers
  <1>6. /\ no => d3 = -1 /\ At(functb, <<x>>) = 0
        /\ ~no /\ D.data.sort \in {"func"} => Answers(functb, functags, x, l)
        /\ ~no /\ D.data.sort \notin {"func"} => d3 < l
        /\ d3 \in Int
    BY <1>1, <1>2, <1>3, TableAnswers
  <1>7. /\ no => d4 = -1
        /\ ~no /\ D.data.sort \in {"proc"} => Answers(proctb, proctags, x, l)
        /\ d4 \in Int
    BY <1>1, <1>2, <1>3, TableAnswers
  <1>8. CASE no
    <2>1. D = Undeclared
      BY <1>1, <1>8, LastDeclared
    <2>2. D.data.sort = "none" /\ Level("names", D) \in Int
      <3>1. Undeclared.data.sort = "none" /\ Undeclared.data.of = <<>>
        BY DEF Undeclared
      <3>2. Len(Undeclared.data.of) \in Nat
        BY <3>1
      <3> QED BY <2>1, <3>1, <3>2, Levels
    <2> HIDE DEF D, d1, d2, d3, d4
    <2>3. l \in Int
      BY <2>2
    <2> HIDE DEF l
    <2>4. D.data.sort # "const" /\ D.data.sort \notin Variables /\ D.data.sort # "func"
          /\ D.data.sort # "proc"
      BY <2>2 DEF Variables
    <2> QED BY <1>4, <1>5, <1>6, <1>7, <1>8, <2>1, <2>2, <2>3, <2>4 DEF D, d1, d2, d3, d4, l
  <1>9. CASE ~no
    <2>1. D \in Declared
      BY <1>1, <1>9, LastDeclared DEF Named
    <2>2. D.data.sort \in {"const", "var", "param", "proc", "func"} /\ Level("names", D) \in Nat
      BY <1>1, <2>1, Reach DEF History, Proper
    <2>3. D # Undeclared
      BY <2>2 DEF Undeclared
    <2> HIDE DEF D, d1, d2, d3, d4, no
    <2>4. l \in Int
      BY <2>2
    <2> HIDE DEF l
    <2>5. /\ D.data.sort = "const" => Answers(valtb, valtags, x, l) /\ d2 < l /\ d3 < l
          /\ D.data.sort \in Variables => Answers(vartb, vartags, x, l) /\ d1 < l /\ d3 < l
          /\ D.data.sort = "func" => Answers(functb, functags, x, l) /\ d1 < l /\ d2 < l
          /\ D.data.sort = "proc" => Answers(proctb, proctags, x, l)
      BY <1>4, <1>5, <1>6, <1>7, <1>9 DEF Variables
    <2> QED BY <1>4, <1>5, <1>6, <1>7, <2>2, <2>3, <2>4, <2>5 DEF D, d1, d2, d3, d4, l
  <1> QED BY <1>8, <1>9

-------------------------------------------------------------------------------
(* The properties of the tables.                                           *)

LEMMA Reads == MeaningInv => ReadsLastDeclared
  <1> SUFFICES ASSUME MeaningInv, InBody, NEW x \in Id, ~Means(x, {"proc"})
               PROVE  Factor(x).data = Meaning(x).data
    BY DEF ReadsLastDeclared
  <1> DEFINE D == Meaning(x)
             l == Level("names", D) - 1
             d1 == DepthIn(valtb, valtags, <<x>>)
             d2 == DepthIn(vartb, vartags, <<x>>)
             d3 == DepthIn(functb, functags, <<x>>)
  <1>1. Factor(x) = IF d1 > d2 /\ d1 > d3 THEN Get(valtb, At(valtb, <<x>>))
                    ELSE IF d2 > d3 THEN Get(vartb, At(vartb, <<x>>))
                    ELSE Get(functb, At(functb, <<x>>))
    BY ValLooks, VarLooks, FuncLooks DEF Factor
  <1>2. /\ d1 \in Int /\ d2 \in Int /\ d3 \in Int /\ l \in Int
        /\ D = Undeclared => d1 = -1 /\ d2 = -1 /\ d3 = -1 /\ At(functb, <<x>>) = 0
        /\ D.data.sort = "const" => Answers(valtb, valtags, x, l) /\ d2 < l /\ d3 < l
        /\ D.data.sort \in Variables => Answers(vartb, vartags, x, l) /\ d1 < l /\ d3 < l
        /\ D.data.sort = "func" => Answers(functb, functags, x, l) /\ d1 < l /\ d2 < l
        /\ D.data.sort \in {"const", "var", "param", "proc", "func", "none"}
        /\ D.data.sort = "none" => D = Undeclared
    BY AllAnswers
  <1>3. /\ Answers(valtb, valtags, x, l) => d1 = l /\ Get(valtb, At(valtb, <<x>>)).data = D.data
        /\ Answers(vartb, vartags, x, l) => d2 = l /\ Get(vartb, At(vartb, <<x>>)).data = D.data
        /\ Answers(functb, functags, x, l) => d3 = l /\ Get(functb, At(functb, <<x>>)).data = D.data
    BY DEF Answers
  <1>4. D.data.sort # "proc"
    BY DEF Means
  <1> HIDE DEF D, d1, d2, d3, l
  <1>5. CASE D.data.sort = "const"
    <2>1. d1 > d2 /\ d1 > d3
      BY <1>2, <1>3, <1>5
    <2> QED BY <1>1, <1>2, <1>3, <1>5, <2>1 DEF D
  <1>6. CASE D.data.sort \in Variables
    <2>1. ~(d1 > d2) /\ d2 > d3
      BY <1>2, <1>3, <1>6
    <2> QED BY <1>1, <1>2, <1>3, <1>6, <2>1 DEF D
  <1>7. CASE D.data.sort = "func"
    <2>1. ~(d1 > d3) /\ ~(d2 > d3)
      BY <1>2, <1>3, <1>7
    <2> QED BY <1>1, <1>2, <1>3, <1>7, <2>1 DEF D
  <1>8. CASE D.data.sort = "none"
    <2>1. ~(d1 > d2) /\ ~(d2 > d3) /\ At(functb, <<x>>) = 0 /\ D = Undeclared
      BY <1>2, <1>8
    <2> QED BY <1>1, <2>1 DEF Get, D
  <1> QED BY <1>2, <1>4, <1>5, <1>6, <1>7, <1>8 DEF Variables

LEMMA Assigns == MeaningInv => AssignsLastDeclared
  <1> SUFFICES ASSUME MeaningInv, InBody, NEW x \in Id, Means(x, Variables \cup {"func"})
               PROVE  Assigned(x).data = Meaning(x).data
    BY DEF AssignsLastDeclared
  <1> DEFINE D == Meaning(x)
             l == Level("names", D) - 1
             d2 == DepthIn(vartb, vartags, <<x>>)
             d3 == DepthIn(functb, functags, <<x>>)
  <1>1. Assigned(x) = IF d3 > d2 THEN Get(functb, At(functb, <<x>>))
                                 ELSE Get(vartb, At(vartb, <<x>>))
    BY VarLooks, FuncLooks DEF Assigned
  <1>2. /\ d2 \in Int /\ d3 \in Int /\ l \in Int
        /\ D.data.sort \in Variables => Answers(vartb, vartags, x, l) /\ d3 < l
        /\ D.data.sort = "func" => Answers(functb, functags, x, l) /\ d2 < l
    BY AllAnswers
  <1>3. /\ Answers(vartb, vartags, x, l) => d2 = l /\ Get(vartb, At(vartb, <<x>>)).data = D.data
        /\ Answers(functb, functags, x, l) => d3 = l /\ Get(functb, At(functb, <<x>>)).data = D.data
    BY DEF Answers
  <1>4. D.data.sort \in Variables \/ D.data.sort = "func"
    BY DEF Means
  <1> HIDE DEF D, d2, d3, l
  <1>5. CASE D.data.sort \in Variables
    <2>1. ~(d3 > d2)
      BY <1>2, <1>3, <1>5
    <2> QED BY <1>1, <1>2, <1>3, <1>5, <2>1 DEF D
  <1>6. CASE D.data.sort = "func"
    <2>1. d3 > d2
      BY <1>2, <1>3, <1>6
    <2> QED BY <1>1, <1>2, <1>3, <1>6, <2>1 DEF D
  <1> QED BY <1>4, <1>5, <1>6

LEMMA Calls == MeaningInv => CallsLastDeclared
  <1> SUFFICES ASSUME MeaningInv, InBody, NEW x \in Id
               PROVE  /\ Means(x, {"proc"}) => Procedure(x).data = Meaning(x).data
                      /\ Means(x, {"func"}) => Function(x).data = Meaning(x).data
    BY DEF CallsLastDeclared
  <1> DEFINE D == Meaning(x)
             l == Level("names", D) - 1
  <1>1. /\ Procedure(x) = Get(proctb, At(proctb, <<x>>))
        /\ Function(x) = Get(functb, At(functb, <<x>>))
    BY ProcLooks, FuncLooks DEF Procedure, Function
  <1>2. /\ D.data.sort = "func" => Answers(functb, functags, x, l)
        /\ D.data.sort = "proc" => Answers(proctb, proctags, x, l)
    BY AllAnswers
  <1> QED BY <1>1, <1>2 DEF Answers, Means

LEMMA Once == MeaningInv => DeclaredOnce
  <1> SUFFICES ASSUME MeaningInv, status = "ok", NEW i \in 1..Len(decls), NEW j \in 1..Len(decls),
                      i # j, decls[i].name = decls[j].name, decls[i].data.of = decls[j].data.of,
                      ~((decls[i].data.sort = "param") # (decls[j].data.sort = "param"))
               PROVE  FALSE
    BY DEF DeclaredOnce
  <1>1. Nested /\ History /\ Ordered(decls)
    BY DEF MeaningInv, Meant, StepInv, History
  <1>2. decls[i].data.sort = "param" <=> decls[j].data.sort = "param"
    OBVIOUS
  <1>3. Level("names", decls[i]) = Level("names", decls[j])
    BY <1>2 DEF Level
  <1> QED BY <1>1, <1>3 DEF Ordered

\* Used in an expression, a name means its last declaration in scope, in any
\* program.  Code: the comparison of depths in pl0_tac_call_func.
THEOREM ReadsRight == Spec => []ReadsLastDeclared
  <1> QED BY MeaningInvariant, Reads, PTL

\* A statement assigns the variable, or the result of the function, declared
\* last.  Code: the comparison of depths in pl0_tac_assign_stmt.
THEOREM AssignsRight == Spec => []AssignsLastDeclared
  <1> QED BY MeaningInvariant, Assigns, PTL

\* A call reaches the routine declared last, though the tables of routines are
\* one scope behind while the parameters are walked.  Code: pl0_tac_call_proc
\* and pl0_tac_call_func.
THEOREM CallsRight == Spec => []CallsLastDeclared
  <1> QED BY MeaningInvariant, Calls, PTL

\* While no error is reported no scope declares a name twice.  Code: the
\* validations of pl0_tac_const_stmt, _var_stmt, _param, _procedure_stmt and
\* _function_stmt.
THEOREM OneDeclaration == Spec => []DeclaredOnce
  <1> QED BY MeaningInvariant, Once, PTL

-------------------------------------------------------------------------------
(* Where a variable is found.                                              *)

\* The routine a display or a result belongs to does not hide a variable
\* declared in it or further in.
LEMMA NotOfRoutine ==
  ASSUME Nested, Bounded, History, NEW x \in Id,
         Meaning(x) \in Named(x), Meaning(x).data.sort \in Variables,
         \A d \in Named(x) : Level("names", d) <= Level("names", Meaning(x)),
         \A d \in Named(x) : Level("names", d) = Level("names", Meaning(x)) => d = Meaning(x),
         NEW r, IsPlace(r), IsDisplay(r) \/ IsResult(r), ~IsMain(r), Hit(r, <<x>>),
         Len(r.data.of) >= Len(Meaning(x).data.of)
  PROVE  FALSE
  <1> DEFINE D == Meaning(x)
             k == Len(r.data.of)
             n == Len(D.data.of)
  <1>1. /\ scope \in Seq(Id) /\ Len(scope) \in Nat /\ Len(scope) <= MaxNest /\ MaxNest \in Nat
        /\ k \in 0..Len(scope) /\ r.data.of = SubSeq(scope, 1, k)
    BY HereIn, TablesAssumption DEF Bounded, Nested, IsPlace
  <1>2. D \in Declared /\ D.name = <<x>> /\ n \in Nat /\ n <= k
        /\ (n > 0 => D.name # <<scope[n]>>)
    BY <1>1 DEF Named, History, Proper
  <1>3. r.data.of \in Seq(Id) /\ \A i \in 1..k : r.data.of[i] = scope[i]
    BY <1>1, Around
  <1> HIDE DEF D, k, n
  <1>4. Len(r.name) > 1 /\ LastPart[r.name] = LastOfPath(r.data.of)
    <2>1. CASE IsDisplay(r)
      BY <2>1 DEF IsDisplay
    <2>2. CASE IsResult(r)
      <3>1. r.data.of # <<>> /\ r.name = <<Qualifier>> \o r.data.of
            /\ LastPart[r.name] = LastOfPath(r.data.of)
        BY <2>2 DEF IsResult
      <3>2. Len(r.data.of) \in 1..MaxNest
        <4>1. Len(r.data.of) # 0
          BY <1>3, <3>1
        <4> QED BY <1>1, <4>1 DEF k
      <3>3. Len(r.name) > 1
        BY <1>3, <3>1, <3>2, RoutineNames
      <3> QED BY <3>1, <3>3
    <2> QED BY <2>1, <2>2
  <1>5. LastOfPath(r.data.of) = <<x>>
    <2>1. ASSUME r.name = <<x>> PROVE FALSE
      <3>1. Len(r.name) = 1
        BY <2>1
      <3> QED BY <1>4, <3>1
    <2> QED BY <1>4, <2>1 DEF Hit
  <1>6. r.data.of # <<>>
    BY DEF IsDisplay, IsResult, IsMain
  <1>7. k \in 1..Len(scope) /\ scope[k] = x
    <2>1. k # 0
      BY <1>3, <1>6 DEF k
    <2>2. k \in 1..Len(scope) /\ k \in 1..k
      BY <1>1, <2>1
    <2>3. <<r.data.of[k]>> = <<x>>
      BY <1>5, <1>6 DEF LastOfPath, k
    <2> QED BY <1>3, <2>2, <2>3
  <1>8. PICK d \in Declared : IsRoutine(d, k)
    BY <1>7 DEF History
  <1>9. d \in Named(x) /\ d.data.sort \in {"proc", "func"} /\ Len(d.data.of) = k - 1
    <2>1. d.name = <<x>> /\ d.data.sort = part[k + 1].sort
          /\ d.data.of = SubSeq(scope, 1, k - 1)
      BY <1>7, <1>8 DEF IsRoutine
    <2>2. k + 1 \in 1..Len(part) /\ k - 1 \in 0..Len(scope)
      <3>1. Len(part) = Len(scope) + 1
        BY DEF Nested
      <3> QED BY <1>1, <1>7, <3>1
    <2>3. part[k + 1] \in Walk
      BY <2>2 DEF Nested
    <2>4. Len(d.data.of) = k - 1
      BY <1>1, <2>1, <2>2, Around
    <2> QED BY <2>1, <2>3, <2>4 DEF Named, Walk
  <1>10. Level("names", d) = 2 * k
    <2>1. k - 1 \in Nat /\ k \in Nat
      BY <1>1, <1>7
    <2>2. Level("names", d) = 2 * (k - 1) + 2
      BY <1>9, <2>1, Levels
    <2> QED BY <2>1, <2>2
  <1>11. d # D
    BY <1>9 DEF Variables, D
  <1>12. 2 * k < Level("names", D) /\ Level("names", D) \in Nat
    <2>1. 2 * k <= Level("names", D) /\ 2 * k # Level("names", D)
      BY <1>9, <1>10, <1>11 DEF D
    <2>2. Level("names", D) \in Nat
      BY <1>2, Levels DEF n
    <2>3. k \in Nat
      BY <1>1
    <2> QED BY <2>1, <2>2, <2>3
  <1>13. Level("names", D) <= 2 * n + 2
    <2>1. Level("names", D) = 2 * n + 1 \/ Level("names", D) = 2 * n + 2
      BY <1>2, Levels DEF n
    <2> QED BY <1>2, <2>1
  <1>14. n = k
    BY <1>1, <1>2, <1>12, <1>13
  <1> QED BY <1>2, <1>7, <1>14

\* The places of two variables of one name.
LEMMA SameVariable ==
  ASSUME Nested, History, Here.phase = "body", NEW x \in Id,
         Meaning(x) \in Named(x), Meaning(x).data.sort \in Variables,
         \A d \in Named(x) : Level("names", d) <= Level("names", Meaning(x)),
         \A d \in Named(x) : Level("names", d) = Level("names", Meaning(x)) => d = Meaning(x),
         FramesInOrder(loctb),
         NEW i \in 1..Len(loctb), IsVariable(loctb[i]), Hit(loctb[i], <<x>>),
         NEW j \in 1..Len(loctb), loctb[j] = Meaning(x), j <= i,
         Len(loctb) \in Nat,
         Len(loctb[i].data.of) >= Len(Meaning(x).data.of)
  PROVE  loctb[i] = Meaning(x)
  <1> DEFINE D == Meaning(x)
             r == loctb[i]
             k == Len(r.data.of)
             n == Len(D.data.of)
  <1>1. r \in Declared /\ r.name = <<x>> /\ r.data.sort \in Variables
    BY PlainHit DEF IsVariable
  <1>2. r \in Named(x)
    BY <1>1 DEF Named
  <1>3. D \in Declared /\ D.data.sort \in Variables
    BY DEF Named
  <1>4. k \in Nat /\ n \in Nat /\ n <= k
    BY <1>1, <1>3, Reach
  <1>5. /\ r.data.sort = "param" => Level("names", r) = 2 * k + 1
        /\ r.data.sort # "param" => Level("names", r) = 2 * k + 2
    BY <1>4, Levels
  <1>6. /\ D.data.sort = "param" => Level("names", D) = 2 * n + 1
        /\ D.data.sort # "param" => Level("names", D) = 2 * n + 2
    BY <1>4, Levels
  <1>7. Level("names", r) <= Level("names", D)
    BY <1>2
  <1>8. loctb[j] = D /\ j <= i /\ i \in Nat /\ j \in Nat
    OBVIOUS
  <1>9. k = n /\ r.data.sort = "param" /\ D.data.sort # "param" => i < j
    BY <1>8 DEF FramesInOrder, IsMain
  <1>10. Level("names", r) = Level("names", D) => r = D
    BY <1>2
  <1> HIDE DEF D, r, k, n
  <1>11. k = n
    BY <1>4, <1>5, <1>6, <1>7
  <1>12. ~(r.data.sort = "param" /\ D.data.sort # "param")
    BY <1>8, <1>9, <1>11
  <1>13. Level("names", r) = Level("names", D)
    BY <1>4, <1>5, <1>6, <1>7, <1>11, <1>12
  <1> QED BY <1>10, <1>13 DEF r, D

LEMMA LocatesVariable ==
  ASSUME MeaningInv, InBody, NEW x \in Id, Means(x, Variables)
  PROVE  AtHome(Meaning(x).data, <<x>>, Len(Meaning(x).data.of) + 1)
  <1> DEFINE D == Meaning(x)
             k == <<x>>
  <1>1. Nested /\ Bounded /\ History /\ Placed /\ Filed(loctb, loctags, "places")
        /\ Here.phase = "body"
    BY DEF MeaningInv, InBody, Meant, StepInv, AllFiled
  <1>2. D.data.sort \in Variables
    BY DEF Means
  <1>3. Named(x) # {}
    <2>1. Undeclared.data.sort = "none"
      BY DEF Undeclared
    <2> QED BY <1>1, <1>2, <2>1, LastDeclared DEF Variables
  <1>4. /\ D \in Named(x)
        /\ \A d \in Named(x) : Level("names", d) <= Level("names", D)
        /\ \A d \in Named(x) : Level("names", d) = Level("names", D) => d = D
    BY <1>1, <1>3, LastDeclared
  <1>5. D \in Recs(loctb) /\ Hit(D, k) /\ Len(D.data.of) \in Nat /\ D \in Declared
    <2>1. D \in Declared /\ D.name = k
      BY <1>4 DEF Named
    <2> QED BY <1>1, <1>2, <2>1, Reach DEF Placed, Hit
  <1>6. PICK i \in 1..Len(loctb) : StopsAt(loctb, loctags, "places", k, i, loctb[i])
    BY <1>1, <1>5, LastFound
  <1> DEFINE r == loctb[i]
  <1>7. /\ r \in Recs(loctb) /\ Hit(r, k) /\ At(loctb, k) = i /\ i # 0
        /\ DepthIn(loctb, loctags, k) = Level("places", r) - 1
        /\ \A j \in 1..Len(loctb) : Hit(loctb[j], k) => j <= i
        /\ Level("places", D) <= Level("places", r)
    <2>1. Len(loctb) \in Nat
      BY <1>1 DEF Filed
    <2> QED BY <1>5, <1>6, <2>1 DEF StopsAt
  <1>8. IsPlace(r) /\ FramesInOrder(loctb)
    BY <1>1, <1>7 DEF Placed
  <1>9. Len(r.data.of) \in Nat /\ Len(r.data.of) >= Len(D.data.of)
    <2>1. Len(r.data.of) \in Nat
      BY <1>1, <1>8, HereIn DEF IsPlace
    <2>2. Level("places", r) = Len(r.data.of) + 2
      BY <2>1, Levels
    <2>3. Level("places", D) = Len(D.data.of) + 2
      BY <1>5, Levels
    <2> QED BY <1>5, <1>7, <2>1, <2>2, <2>3
  <1>10. PICK j \in 1..Len(loctb) : loctb[j] = D
    BY <1>5 DEF Recs
  <1>11. j <= i /\ Len(loctb) \in Nat
    <2>1. Hit(loctb[j], k)
      BY <1>5, <1>10
    <2>2. j <= i
      BY <1>7, <2>1
    <2>3. Len(loctb) \in Nat
      BY <1>1 DEF Filed
    <2> QED BY <2>2, <2>3
  <1>12. IsVariable(r)
    <2>1. ~IsMain(r)
      <3> SUFFICES ASSUME IsMain(r) PROVE FALSE
        OBVIOUS
      <3>1. i = 1
        BY <1>8 DEF FramesInOrder
      <3>2. i = j
        BY <1>11, <3>1
      <3> QED BY <1>2, <1>10, <3>2 DEF IsMain, Variables
    <2>2. ~(IsDisplay(r) \/ IsResult(r))
      BY <1>1, <1>2, <1>4, <1>7, <1>8, <1>9, <2>1, NotOfRoutine
    <2> QED BY <1>8, <2>2 DEF IsPlace
  <1>13. r = D
    BY <1>1, <1>2, <1>4, <1>7, <1>8, <1>9, <1>10, <1>11, <1>12, SameVariable
  <1>14. Located(k) = r
    BY <1>7, LocLooks DEF Located, Get
  <1>15. loc!DepthOf(k) = Len(D.data.of) + 1
    <2>1. loc!DepthOf(k) = Level("places", D) - 1
      BY <1>7, <1>13, LocLooks
    <2>2. Level("places", D) = Len(D.data.of) + 2
      BY <1>5, Levels
    <2> QED BY <1>5, <2>1, <2>2
  <1> QED BY <1>13, <1>14, <1>15 DEF AtHome

LEMMA LocatesResult ==
  ASSUME MeaningInv, InBody, NEW k \in 2..Len(part), part[k].sort = "func"
  PROVE  loc!DepthOf(<<Qualifier>> \o SubSeq(scope, 1, k - 1)) = k
  <1> DEFINE p == SubSeq(scope, 1, k - 1)
             n == <<Qualifier>> \o p
  <1>1. Nested /\ Bounded /\ Placed /\ Filed(loctb, loctags, "places") /\ Here.phase = "body"
    BY DEF MeaningInv, InBody, Meant, StepInv, AllFiled
  <1>2. /\ scope \in Seq(Id) /\ Len(scope) \in Nat /\ Len(part) = Len(scope) + 1
        /\ k - 1 \in 1..Len(scope) /\ k - 1 \in 0..Len(scope) /\ k - 1 \in 1..MaxNest /\ k \in Nat
    <2>1. scope \in Seq(Id) /\ Len(scope) \in Nat /\ Len(part) = Len(scope) + 1
          /\ Len(scope) <= MaxNest /\ MaxNest \in Nat
      BY <1>1, HereIn, TablesAssumption DEF Nested, Bounded
    <2> QED BY <2>1
  <1>3. p \in Seq(Id) /\ Len(p) = k - 1
    BY <1>2, Around
  <1>4. Qualifier # "$fn"
    BY DEF Qualifier
  <1> HIDE DEF p
  <1>5. Len(n) > 1 /\ n[1] = Qualifier
    BY <1>2, <1>3, RoutineNames
  <1> HIDE DEF n
  <1>6. Opened(k)
    BY <1>1 DEF Opened
  <1>7. PICK q \in Recs(loctb) : IsResult(q) /\ q.data.of = p
    BY <1>1, <1>6 DEF Placed, HasResult, p
  <1>8. Hit(q, n)
    BY <1>7 DEF Hit, IsResult, n
  <1>9. PICK i \in 1..Len(loctb) : StopsAt(loctb, loctags, "places", n, i, loctb[i])
    BY <1>1, <1>8, LastFound
  <1> DEFINE r == loctb[i]
  <1>10. r \in Recs(loctb) /\ Hit(r, n) /\ DepthIn(loctb, loctags, n) = Level("places", r) - 1
    BY <1>9 DEF StopsAt
  <1>11. IsPlace(r)
    BY <1>1, <1>10 DEF Placed
  <1> HIDE DEF r
  <1>12. ~IsVariable(r)
    <2> SUFFICES ASSUME NEW y \in Id, r.name = <<y>> PROVE FALSE
      BY DEF IsVariable
    <2>1. n = <<y>>
      BY <1>10, PlainNames DEF Hit
    <2>2. Len(n) = 1
      BY <2>1
    <2> QED BY <1>5, <2>2
  <1>13. IsDisplay(r) \/ IsResult(r)
    BY <1>11, <1>12 DEF IsPlace
  <1>14. LastPart[r.name] = LastOfPath(r.data.of)
    BY <1>13 DEF IsDisplay, IsResult
  <1>15. r.name = n
    <2> SUFFICES ASSUME LastPart[r.name] = n PROVE FALSE
      BY <1>10 DEF Hit
    <2>1. Len(LastOfPath(r.data.of)) = 1
      BY DEF LastOfPath
    <2> QED BY <1>5, <1>14, <2>1
  <1>16. IsResult(r)
    BY <1>4, <1>5, <1>13, <1>15 DEF IsDisplay
  <1>17. Len(r.data.of) = k - 1
    <2>1. r.data.of \in Seq(Id) /\ Len(r.data.of) \in Nat
      <3>1. Len(r.data.of) \in 0..Len(scope) /\ r.data.of = SubSeq(scope, 1, Len(r.data.of))
        BY <1>11 DEF IsPlace
      <3>2. Len(r.data.of) \in Nat
        BY <1>2, <3>1
      <3>3. SubSeq(scope, 1, Len(r.data.of)) \in Seq(Id)
        BY <1>2, <3>1, Around
      <3> QED BY <3>1, <3>2, <3>3
    <2>2. <<Qualifier>> \o r.data.of = <<Qualifier>> \o p
      BY <1>15, <1>16 DEF IsResult, n
    <2>3. Len(<<Qualifier>> \o r.data.of) = 1 + Len(r.data.of)
          /\ Len(<<Qualifier>> \o p) = 1 + Len(p)
      <3> DEFINE S == Id \cup {Qualifier}
                 h == <<Qualifier>>
      <3>1. h \in Seq(S) /\ Len(h) = 1
        OBVIOUS
      <3>2. Id \subseteq S
        OBVIOUS
      <3> HIDE DEF S, h
      <3>3. p \in Seq(S) /\ r.data.of \in Seq(S)
        BY <1>3, <2>1, <3>2
      <3>4. Len(h \o r.data.of) = Len(h) + Len(r.data.of) /\ Len(h \o p) = Len(h) + Len(p)
        BY <3>1, <3>3, ConcatProperties
      <3> QED BY <3>1, <3>4 DEF h
    <2> QED BY <1>2, <1>3, <2>1, <2>2, <2>3
  <1>18. Level("places", r) = k + 1
    <2>1. Len(r.data.of) \in Nat
      BY <1>2, <1>17
    <2>2. Level("places", r) = Len(r.data.of) + 2
      BY <2>1, Levels
    <2> QED BY <1>2, <1>17, <2>2
  <1>19. loc!DepthOf(n) = k
    <2>1. loc!DepthOf(n) = DepthIn(loctb, loctags, n)
      BY LocLooks
    <2> QED BY <1>2, <1>10, <1>18, <2>1
  <1> QED BY <1>19 DEF n, p

LEMMA Locates == MeaningInv => LocatesDeclared
  BY LocatesVariable, LocatesResult DEF LocatesDeclared

\* The code generator finds every variable a name means, and the result of every
\* function being walked, in the activation of the routine that declares it.
\* Code: SimpleAllocator::addr against pl0_tac_factor.
THEOREM LocatesRight == Spec => []LocatesDeclared
  <1> QED BY MeaningInvariant, Locates, PTL
===============================================================================
