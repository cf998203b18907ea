----------------------------- MODULE ExportProofs -----------------------------
(***************************************************************************)
(* Proofs about what the exported block does, for every block of any       *)
(* length: it reads and prints in the order the block did, and unless the  *)
(* block both shares a node and gives a name a new value, it leaves every  *)
(* name the value the block left it.                                       *)
(***************************************************************************)
EXTENDS DagProofs

-------------------------------------------------------------------------------
(* The machine.                                                            *)

IsSeq(q) == \E S : q \in Seq(S)

Machine(s) ==
    /\ s = [val |-> s.val, io |-> s.io]
    /\ s.val = [x \in Value |-> s.val[x]]
    /\ IsSeq(s.io)

\* What an assignment gives its destination, which was old.
Result(op, old, a, b) ==
    CASE op = "="   -> a
      [] op = "=[]" -> <<"element", a, b>>
      [] op = "[]=" -> <<"store", old, a, b>>
      [] OTHER -> <<op, a, b>>

Silent(op) == op \notin {"read", "write_e", "write_s"}

\* The values of s but for x, which is v.
Sets(s, x, v) == [y \in Value |-> IF y = x THEN v ELSE s.val[y]]

LEMMA Appended ==
  ASSUME NEW q, IsSeq(q), NEW e
  PROVE  /\ IsSeq(Append(q, e)) /\ Len(q) \in Nat /\ DOMAIN q = 1..Len(q)
         /\ Len(Append(q, e)) = Len(q) + 1 /\ DOMAIN Append(q, e) = 1..(Len(q) + 1)
         /\ Append(q, e)[Len(q) + 1] = e
         /\ \A i \in 1..Len(q) : Append(q, e)[i] = q[i]
  <1>1. PICK S : q \in Seq(S)
    BY DEF IsSeq
  <1> DEFINE T == S \cup {e}
  <1>2. q \in Seq(T) /\ e \in T
    BY <1>1
  <1> HIDE DEF T
  <1>3. /\ Append(q, e) \in Seq(T) /\ Len(Append(q, e)) = Len(q) + 1
        /\ Append(q, e)[Len(q) + 1] = e
        /\ \A i \in 1..Len(q) : Append(q, e)[i] = q[i]
    BY <1>2, AppendProperties
  <1>4. Len(q) \in Nat /\ DOMAIN q = 1..Len(q) /\ DOMAIN Append(q, e) = 1..Len(Append(q, e))
    BY <1>2, <1>3, LenProperties
  <1> QED BY <1>3, <1>4 DEF IsSeq

LEMMA SeqFacts ==
  ASSUME NEW q, IsSeq(q)
  PROVE  Len(q) \in Nat /\ DOMAIN q = 1..Len(q) /\ q = [i \in 1..Len(q) |-> q[i]]
  <1>1. PICK S : q \in Seq(S)
    BY DEF IsSeq
  <1> QED BY <1>1, LenProperties

LEMMA ExecAssign ==
  ASSUME NEW s, Machine(s), NEW q, Silent(q.op)
  PROVE  LET t == Exec(s, q)
         IN /\ Machine(t) /\ t.io = s.io
            /\ t.val = Sets(s, q.d, Result(q.op, s.val[q.d], s.val[q.a], s.val[q.b]))
  <1> DEFINE v == Result(q.op, s.val[q.d], s.val[q.a], s.val[q.b])
             t == Exec(s, q)
  <1>1. s = [val |-> s.val, io |-> s.io] /\ s.val = [x \in Value |-> s.val[x]] /\ IsSeq(s.io)
    BY DEF Machine
  <1>2. t = [s EXCEPT !.val[q.d] = v]
    BY DEF Exec, Result, Silent
  <1> HIDE DEF v, t
  <1>3. t = [val |-> [s.val EXCEPT ![q.d] = v], io |-> s.io]
    BY <1>1, <1>2
  <1>4. [s.val EXCEPT ![q.d] = v] = Sets(s, q.d, v)
    BY <1>1 DEF Sets
  <1>5. t = [val |-> Sets(s, q.d, v), io |-> s.io]
    BY <1>3, <1>4
  <1>6. Sets(s, q.d, v) = [x \in Value |-> Sets(s, q.d, v)[x]]
    BY DEF Sets
  <1>7. t.val = Sets(s, q.d, v) /\ t.io = s.io /\ t = [val |-> t.val, io |-> t.io]
    BY <1>5
  <1>8. Machine(t)
    BY <1>1, <1>6, <1>7 DEF Machine
  <1> QED BY <1>7, <1>8 DEF t, v

LEMMA ExecRead ==
  ASSUME NEW s, Machine(s), NEW q, q.op = "read"
  PROVE  LET t == Exec(s, q)
         IN /\ Machine(t) /\ t.io = Append(s.io, <<"in", q.no>>)
            /\ t.val = Sets(s, q.d, <<"input", Inputs(s) + 1>>)
  <1> DEFINE v == <<"input", Inputs(s) + 1>>
             e == <<"in", q.no>>
             t == Exec(s, q)
             r == [s EXCEPT !.val[q.d] = v]
  <1>1. s = [val |-> s.val, io |-> s.io] /\ s.val = [x \in Value |-> s.val[x]] /\ IsSeq(s.io)
    BY DEF Machine
  <1>2. t = [s EXCEPT !.val[q.d] = v, !.io = Append(@, e)]
    BY DEF Exec
  <1> HIDE DEF v, t, e
  <1>3. t = [val |-> [s.val EXCEPT ![q.d] = v], io |-> Append(s.io, e)]
    BY <1>1, <1>2
  <1>4. [s.val EXCEPT ![q.d] = v] = Sets(s, q.d, v)
    BY <1>1 DEF Sets
  <1>5. t = [val |-> Sets(s, q.d, v), io |-> Append(s.io, e)]
    BY <1>3, <1>4
  <1>6. Sets(s, q.d, v) = [x \in Value |-> Sets(s, q.d, v)[x]] /\ IsSeq(Append(s.io, e))
    BY <1>1, Appended DEF Sets
  <1>7. t.val = Sets(s, q.d, v) /\ t.io = Append(s.io, e) /\ t = [val |-> t.val, io |-> t.io]
    BY <1>5
  <1>8. Machine(t)
    BY <1>6, <1>7 DEF Machine
  <1> QED BY <1>7, <1>8 DEF t, v, e

\* A value is printed.
LEMMA ExecWrite ==
  ASSUME NEW s, Machine(s), NEW q, q.op = "write_e"
  PROVE  LET t == Exec(s, q)
         IN Machine(t) /\ t.val = s.val /\ t.io = Append(s.io, <<"out", q.no, s.val[q.d]>>)
  <1> DEFINE e == <<"out", q.no, s.val[q.d]>>
             t == Exec(s, q)
  <1>1. s = [val |-> s.val, io |-> s.io] /\ s.val = [x \in Value |-> s.val[x]] /\ IsSeq(s.io)
    BY DEF Machine
  <1>2. t = [s EXCEPT !.io = Append(@, e)]
    BY DEF Exec
  <1> HIDE DEF t, e
  <1>3. t = [val |-> s.val, io |-> Append(s.io, e)]
    BY <1>1, <1>2
  <1>4. t.val = s.val /\ t.io = Append(s.io, e) /\ t = [val |-> t.val, io |-> t.io]
    BY <1>3
  <1>5. IsSeq(Append(s.io, e))
    BY <1>1, Appended
  <1>6. Machine(t)
    BY <1>1, <1>4, <1>5 DEF Machine
  <1> QED BY <1>4, <1>6 DEF t, e

\* A string is printed.
LEMMA ExecText ==
  ASSUME NEW s, Machine(s), NEW q, q.op = "write_s"
  PROVE  LET t == Exec(s, q)
         IN Machine(t) /\ t.val = s.val /\ t.io = Append(s.io, <<"text", q.no>>)
  <1> DEFINE e == <<"text", q.no>>
             t == Exec(s, q)
  <1>1. s = [val |-> s.val, io |-> s.io] /\ s.val = [x \in Value |-> s.val[x]] /\ IsSeq(s.io)
    BY DEF Machine
  <1>2. t = [s EXCEPT !.io = Append(@, e)]
    BY DEF Exec
  <1> HIDE DEF t, e
  <1>3. t = [val |-> s.val, io |-> Append(s.io, e)]
    BY <1>1, <1>2
  <1>4. t.val = s.val /\ t.io = Append(s.io, e) /\ t = [val |-> t.val, io |-> t.io]
    BY <1>3
  <1>5. IsSeq(Append(s.io, e))
    BY <1>1, Appended
  <1>6. Machine(t)
    BY <1>1, <1>4, <1>5 DEF Machine
  <1> QED BY <1>4, <1>6 DEF t, e

LEMMA StartMachine == Machine(Start) /\ Start.io = <<>> /\ Len(Start.io) = 0 /\ Inputs(Start) = 0
  <1>1. Start.io = <<>> /\ <<>> \in Seq({}) /\ Len(<<>>) = 0
    BY DEF Start
  <1>2. Machine(Start)
    BY <1>1 DEF Machine, Start, IsSeq
  <1>3. Inputs(Start) = 0
    <2>1. {i \in DOMAIN Start.io : Start.io[i][1] = "in"} = {}
      BY <1>1
    <2>2. Cardinality({}) = 0
      BY FS_EmptySet
    <2> QED BY <2>1, <2>2, Zenon DEF Inputs
  <1> QED BY <1>1, <1>2, <1>3

-------------------------------------------------------------------------------
(* Quadruples one after the other.                                         *)

RunNext(f, s, qs, i) == IF i = 0 THEN s ELSE Exec(f[i - 1], qs[i])
Runs(f, s, qs, l) == f = [i \in 0..l |-> RunNext(f, s, qs, i)]

\* The function in the definition of Run exists, for sequences of any length.
LEMMA RunExists ==
  ASSUME NEW s, NEW qs, NEW l \in Nat
  PROVE  \E f : Runs(f, s, qs, l)
  <1> DEFINE bad == {m \in Nat : ~ \E f : Runs(f, s, qs, m)}
  <1>1. ASSUME bad # {} PROVE FALSE
    <2>1. PICK m \in bad : \A k \in bad : m <= k
      <3>1. bad \in SUBSET Nat
        OBVIOUS
      <3> HIDE DEF bad
      <3> QED BY <1>1, <3>1, Least
    <2>2. CASE m = 0
      <3> DEFINE f == [i \in 0..0 |-> s]
      <3>1. f = [i \in 0..0 |-> RunNext(f, s, qs, i)]
        BY DEF RunNext
      <3>2. Runs(f, s, qs, 0)
        BY <3>1 DEF Runs
      <3> QED BY <2>1, <2>2, <3>2
    <2>3. CASE m # 0
      <3>1. m - 1 \in Nat /\ m - 1 \notin bad /\ m \in Nat \ {0}
        BY <2>1, <2>3
      <3>2. PICK f : f = [i \in 0..(m - 1) |-> RunNext(f, s, qs, i)]
        BY <3>1 DEF Runs
      <3> DEFINE g == [i \in 0..m |-> IF i < m THEN f[i] ELSE RunNext(f, s, qs, m)]
                 h == [i \in 0..m |-> RunNext(g, s, qs, i)]
      <3>3. ASSUME NEW i \in 0..m PROVE g[i] = h[i]
        <4>1. i # 0 => i - 1 \in 0..m /\ i - 1 < m
          BY <3>1
        <4>2. i # 0 => g[i - 1] = f[i - 1]
          BY <4>1
        <4>3. RunNext(g, s, qs, i) = RunNext(f, s, qs, i)
          BY <4>2 DEF RunNext
        <4>4. CASE i < m
          <5>1. i \in 0..(m - 1)
            BY <3>1, <4>4
          <5>2. f[i] = RunNext(f, s, qs, i)
            BY <3>2, <5>1
          <5> QED BY <4>3, <4>4, <5>2
        <4>5. CASE i = m
          BY <3>1, <4>3, <4>5
        <4> QED BY <3>1, <4>4, <4>5
      <3>4. g = h
        BY <3>3
      <3>5. Runs(g, s, qs, m)
        BY <3>4 DEF Runs
      <3> HIDE DEF g
      <3> QED BY <2>1, <3>5
    <2> QED BY <2>2, <2>3
  <1>2. l \notin bad
    BY <1>1
  <1> QED BY <1>2

\* The machines before and after each quadruple.
Passes(at, s, qs, l) == at[0] = s /\ \A i \in 1..l : at[i] = Exec(at[i - 1], qs[i])

LEMMA RunPasses ==
  ASSUME NEW s, NEW qs, Len(qs) \in Nat
  PROVE  \E at : Passes(at, s, qs, Len(qs)) /\ Run(s, qs) = at[Len(qs)]
  <1> DEFINE l == Len(qs)
             at == CHOOSE f : Runs(f, s, qs, l)
  <1>1. Run(s, qs) = at[l]
    BY DEF Run, Runs, RunNext
  <1>2. l \in Nat
    OBVIOUS
  <1>3. at = [i \in 0..l |-> RunNext(at, s, qs, i)]
    <2> HIDE DEF l
    <2>1. \E f : Runs(f, s, qs, l)
      BY <1>2, RunExists
    <2>2. Runs(at, s, qs, l)
      BY <2>1, Zenon
    <2> QED BY <2>2 DEF Runs
  <1> HIDE DEF at, l
  <1>4. \A i \in 0..l : at[i] = RunNext(at, s, qs, i)
    BY <1>3
  <1>5. at[0] = s
    <2>1. 0 \in 0..l
      BY <1>2
    <2> QED BY <1>4, <2>1 DEF RunNext
  <1>6. ASSUME NEW i \in 1..l PROVE at[i] = Exec(at[i - 1], qs[i])
    <2>1. i \in 0..l /\ i # 0
      BY <1>2
    <2> QED BY <1>4, <2>1 DEF RunNext
  <1>7. Passes(at, s, qs, l)
    BY <1>5, <1>6 DEF Passes
  <1> QED BY <1>1, <1>7 DEF l

\* The machines are determined by the first one.
LEMMA PassesOnce ==
  ASSUME NEW s, NEW l \in Nat, NEW p, NEW q, \A i \in 1..l : p[i] = q[i],
         NEW f, Passes(f, s, p, l), NEW g, Passes(g, s, q, l)
  PROVE  f[l] = g[l]
  <1> DEFINE bad == {i \in 0..l : f[i] # g[i]}
  <1>1. ASSUME bad # {} PROVE FALSE
    <2>1. PICK m \in bad : \A k \in bad : m <= k
      <3>1. bad \in SUBSET Nat
        OBVIOUS
      <3> HIDE DEF bad
      <3> QED BY <1>1, <3>1, Least
    <2>2. m \in 0..l /\ f[m] # g[m]
      BY <2>1
    <2>3. m # 0
      BY <2>2 DEF Passes
    <2>4. m \in 1..l /\ m - 1 \in 0..l /\ ~(m <= m - 1)
      BY <2>2, <2>3
    <2>5. f[m - 1] = g[m - 1]
      <3>1. m - 1 \notin bad
        <4> HIDE DEF bad
        <4> QED BY <2>1, <2>4
      <3> QED BY <2>4, <3>1
    <2>6. f[m] = Exec(f[m - 1], p[m]) /\ g[m] = Exec(g[m - 1], q[m]) /\ p[m] = q[m]
      BY <2>4 DEF Passes
    <2> QED BY <2>2, <2>5, <2>6
  <1>2. l \in 0..l
    OBVIOUS
  <1> QED BY <1>1, <1>2

LEMMA RunNone == ASSUME NEW s PROVE Run(s, <<>>) = s
  <1>1. Len(<<>>) = 0
    OBVIOUS
  <1>2. PICK at : Passes(at, s, <<>>, Len(<<>>)) /\ Run(s, <<>>) = at[Len(<<>>)]
    BY <1>1, RunPasses
  <1> QED BY <1>1, <1>2 DEF Passes

LEMMA RunAppend ==
  ASSUME NEW s, NEW qs, IsSeq(qs), NEW q
  PROVE  Run(s, Append(qs, q)) = Exec(Run(s, qs), q)
  <1> DEFINE l == Len(qs)
             ps == Append(qs, q)
  <1>1. /\ l \in Nat /\ Len(ps) = l + 1 /\ ps[l + 1] = q
        /\ \A i \in 1..l : ps[i] = qs[i]
    BY Appended
  <1>2. PICK f : Passes(f, s, qs, l) /\ Run(s, qs) = f[l]
    BY <1>1, RunPasses
  <1> HIDE DEF ps
  <1>3. PICK g : Passes(g, s, ps, Len(ps)) /\ Run(s, ps) = g[Len(ps)]
    BY <1>1, RunPasses
  <1> HIDE DEF l
  <1>4. Passes(g, s, ps, l) /\ g[l + 1] = Exec(g[l], ps[l + 1])
    <2>1. l + 1 \in 1..(l + 1) /\ (l + 1) - 1 = l /\ \A i \in 1..l : i \in 1..(l + 1)
      BY <1>1
    <2> QED BY <1>1, <1>3, <2>1 DEF Passes
  <1>5. f[l] = g[l]
    BY <1>1, <1>2, <1>4, PassesOnce
  <1> QED BY <1>1, <1>2, <1>3, <1>4, <1>5 DEF ps

LEMMA RunOne == ASSUME NEW s, NEW q PROVE Run(s, <<q>>) = Exec(s, q)
  <1>1. Len(<<q>>) = 1 /\ <<q>>[1] = q
    OBVIOUS
  <1>2. PICK at : Passes(at, s, <<q>>, Len(<<q>>)) /\ Run(s, <<q>>) = at[Len(<<q>>)]
    BY <1>1, RunPasses
  <1>3. at[0] = s /\ at[1] = Exec(at[1 - 1], <<q>>[1])
    BY <1>1, <1>2 DEF Passes
  <1> QED BY <1>1, <1>2, <1>3

LEMMA RunTwo == ASSUME NEW s, NEW p, NEW q PROVE Run(s, <<p, q>>) = Exec(Exec(s, p), q)
  <1>1. Len(<<p, q>>) = 2 /\ <<p, q>>[1] = p /\ <<p, q>>[2] = q
    OBVIOUS
  <1>2. PICK at : Passes(at, s, <<p, q>>, Len(<<p, q>>)) /\ Run(s, <<p, q>>) = at[Len(<<p, q>>)]
    BY <1>1, RunPasses
  <1>3. /\ at[0] = s /\ at[1] = Exec(at[1 - 1], <<p, q>>[1])
        /\ at[2] = Exec(at[2 - 1], <<p, q>>[2])
    BY <1>1, <1>2 DEF Passes
  <1> QED BY <1>1, <1>2, <1>3

-------------------------------------------------------------------------------
(* What is read and printed.                                               *)

Happened(s, i) == <<s.io[i][1], s.io[i][2]>>

\* Inputs and outputs happen in the order of their positions.
InTime(s, p) ==
    /\ p \in Nat
    /\ \A i \in 1..Len(s.io) : s.io[i][2] \in 1..p
    /\ \A i, j \in 1..Len(s.io) : i < j => s.io[i][2] < s.io[j][2]

\* Machine a has read and printed what b has, as far as it has come, and events
\* are those left.
Follows(b, a, events) ==
    LET n == Len(a.io)
    IN /\ n <= Len(b.io)
       /\ \A i \in 1..n : Happened(a, i) = Happened(b, i)
       /\ {Happened(b, i) : i \in (n + 1)..Len(b.io)} = events

\* From a to t there are l more, the events D of E, in order and before the
\* others of E.
Goes(a, t, l, D, E) ==
    LET n == Len(a.io)
    IN /\ l \in Nat /\ Len(t.io) = n + l
       /\ \A i \in 1..n : t.io[i] = a.io[i]
       /\ D = {Happened(t, n + j) : j \in 1..l} /\ D \subseteq E
       /\ \A j, k \in 1..l : j < k => t.io[n + j][2] < t.io[n + k][2]
       /\ \A e \in E \ D, j \in 1..l : t.io[n + j][2] < e[2]

LEMMA FollowsOn ==
  ASSUME NEW b, Machine(b), NEW p, InTime(b, p), NEW a, Machine(a), NEW E, Follows(b, a, E),
         NEW t, NEW l, NEW D, Goes(a, t, l, D, E)
  PROVE  Follows(b, t, E \ D)
  <1> DEFINE n == Len(a.io)
             N == Len(b.io)
             h(i) == Happened(b, i)
             w(j) == Happened(t, n + j)
  <1>1. N \in Nat /\ n \in Nat /\ n <= N /\ l \in Nat
    <2>1. IsSeq(a.io) /\ IsSeq(b.io)
      BY DEF Machine
    <2> QED BY <2>1, SeqFacts DEF Follows, Goes
  <1>2. E = {h(i) : i \in (n + 1)..N} /\ \A i \in 1..n : Happened(a, i) = h(i)
    BY DEF Follows
  <1>3. /\ \A i \in 1..N : h(i)[2] \in Nat
        /\ \A i, j \in 1..N : i < j => h(i)[2] < h(j)[2]
    <2>1. \A i : h(i)[2] = b.io[i][2]
      BY DEF Happened
    <2>2. /\ \A i \in 1..N : b.io[i][2] \in Nat
          /\ \A i, j \in 1..N : i < j => b.io[i][2] < b.io[j][2]
      BY DEF InTime
    <2> HIDE DEF h, N
    <2> QED BY <2>1, <2>2
  <1>4. D = {w(j) : j \in 1..l} /\ D \subseteq E
    BY DEF Goes
  <1>5. \A j, k \in 1..l : j < k => w(j)[2] < w(k)[2]
    BY DEF Happened, Goes
  <1>6. \A e \in E \ D, j \in 1..l : w(j)[2] < e[2]
    BY DEF Happened, Goes
  <1>7. Len(t.io) = n + l /\ \A i \in 1..n : Happened(t, i) = Happened(a, i)
    BY DEF Happened, Goes
  <1>8. \A i \in (n + 1)..(n + l) : Happened(t, i) = w(i - n)
    BY <1>1
  <1> HIDE DEF n, N, h, w
  <1> DEFINE bad == {j \in 1..l : n + j \notin 1..N \/ h(n + j) # w(j)}
  <1>9. ASSUME bad # {} PROVE FALSE
    <2>1. PICK m \in bad : \A k \in bad : m <= k
      <3>1. bad \in SUBSET Nat
        OBVIOUS
      <3> HIDE DEF bad
      <3> QED BY <1>9, <3>1, Least
    <2>2. m \in 1..l /\ (n + m \notin 1..N \/ h(n + m) # w(m))
      BY <2>1
    <2>3. \A k \in 1..l : k < m => n + k \in 1..N /\ h(n + k) = w(k)
      <3>1. ASSUME NEW k \in 1..l, k < m PROVE k \notin bad
        <4> HIDE DEF bad
        <4> QED BY <2>1, <2>2, <3>1
      <3> QED BY <3>1
    <2> HIDE DEF bad
    <2>4. PICK i \in (n + 1)..N : w(m) = h(i)
      <3>1. w(m) \in E
        BY <1>4, <2>2
      <3> QED BY <1>2, <3>1
    <2>5. i \in 1..N /\ i \in Nat /\ m \in Nat
      BY <1>1, <2>2
    <2>6. CASE i < n + m
      <3>1. i - n \in 1..l /\ i - n < m /\ n + (i - n) = i
        BY <1>1, <2>2, <2>4, <2>6
      <3>2. h(n + (i - n)) = w(i - n)
        BY <2>3, <3>1
      <3>3. h(i) = w(i - n) /\ w(i - n)[2] < w(m)[2]
        BY <1>5, <2>2, <3>1, <3>2
      <3> QED BY <1>3, <2>4, <2>5, <3>3
    <2>7. CASE i > n + m
      <3>1. n + m \in 1..N /\ n + m \in (n + 1)..N /\ n + m < i
        BY <1>1, <2>2, <2>4, <2>7
      <3>2. h(n + m)[2] < w(m)[2] /\ h(n + m)[2] \in Nat /\ w(m)[2] \in Nat
        BY <1>3, <2>4, <2>5, <3>1
      <3>3. h(n + m) \in D
        <4>1. h(n + m) \in E
          BY <1>2, <3>1
        <4>2. h(n + m) \notin D => w(m)[2] < h(n + m)[2]
          BY <1>6, <2>2, <4>1
        <4> QED BY <3>2, <4>2
      <3>4. PICK k \in 1..l : h(n + m) = w(k)
        BY <1>4, <3>3
      <3>5. k < m
        <4>1. k = m \/ m < k => ~(w(k)[2] < w(m)[2])
          BY <1>5, <2>2, <3>2, <3>4
        <4> QED BY <2>2, <3>2, <3>4, <4>1
      <3>6. n + k \in 1..N /\ h(n + k) = w(k)
        BY <2>3, <3>5
      <3>7. n + k < n + m
        BY <1>1, <2>2, <3>5
      <3>8. h(n + k)[2] < h(n + m)[2]
        BY <1>3, <3>1, <3>6, <3>7
      <3> QED BY <3>2, <3>4, <3>6, <3>8
    <2>8. CASE i = n + m
      BY <2>2, <2>4, <2>5, <2>8
    <2> QED BY <1>1, <2>5, <2>6, <2>7, <2>8
  <1>10. \A j \in 1..l : n + j \in 1..N /\ h(n + j) = w(j)
    BY <1>9
  <1> HIDE DEF bad
  <1>11. n + l <= N
    <2>1. CASE l = 0
      BY <1>1, <2>1
    <2>2. CASE l # 0
      BY <1>1, <1>10, <2>2
    <2> QED BY <2>1, <2>2
  <1>12. ASSUME NEW i \in 1..(n + l) PROVE Happened(t, i) = h(i)
    <2>1. CASE i \in 1..n
      BY <1>2, <1>7, <2>1
    <2>2. CASE i \in (n + 1)..(n + l)
      <3>1. i - n \in 1..l /\ n + (i - n) = i
        BY <1>1, <2>2
      <3>2. h(n + (i - n)) = w(i - n)
        BY <1>10, <3>1
      <3> QED BY <1>8, <2>2, <3>1, <3>2
    <2> QED BY <1>1, <2>1, <2>2
  <1>13. {h(i) : i \in (n + l + 1)..N} = E \ D
    <2>1. ASSUME NEW i \in (n + l + 1)..N PROVE h(i) \in E /\ h(i) \notin D
      <3>1. i \in (n + 1)..N /\ i \in 1..N
        BY <1>1
      <3>2. ASSUME NEW j \in 1..l PROVE h(i) # w(j)
        <4>1. n + j < i /\ n + j \in 1..N
          BY <1>1, <1>10
        <4>2. h(n + j)[2] < h(i)[2] /\ h(i)[2] \in Nat
          BY <1>3, <3>1, <4>1
        <4> QED BY <1>10, <4>2
      <3> QED BY <1>2, <1>4, <3>1, <3>2
    <2>2. ASSUME NEW e \in E, e \notin D PROVE \E i \in (n + l + 1)..N : e = h(i)
      <3>1. PICK i \in (n + 1)..N : e = h(i)
        BY <1>2
      <3>2. i \notin (n + 1)..(n + l)
        <4>1. ASSUME i \in (n + 1)..(n + l) PROVE FALSE
          <5>1. i - n \in 1..l /\ n + (i - n) = i
            BY <1>1, <4>1
          <5>2. h(n + (i - n)) = w(i - n)
            BY <1>10, <5>1
          <5> QED BY <1>4, <2>2, <3>1, <5>1, <5>2
        <4> QED BY <4>1
      <3>3. i \in (n + l + 1)..N
        BY <1>1, <3>1, <3>2
      <3> QED BY <3>1, <3>3
    <2> QED BY <2>1, <2>2
  <1> QED BY <1>7, <1>11, <1>12, <1>13 DEF Follows, N, h

\* How many inputs there have been.
LEMMA InputsGrow ==
  ASSUME NEW s, NEW t, IsSeq(s.io), NEW e, t.io = Append(s.io, e)
  PROVE  Inputs(s) \in Nat /\ Inputs(t) = Inputs(s) + (IF e[1] = "in" THEN 1 ELSE 0)
  <1> DEFINE m == Len(s.io)
             A == {i \in 1..m : s.io[i][1] = "in"}
             B == {i \in 1..(m + 1) : t.io[i][1] = "in"}
  <1>1. /\ m \in Nat /\ DOMAIN s.io = 1..m /\ DOMAIN t.io = 1..(m + 1)
        /\ t.io[m + 1] = e /\ \A i \in 1..m : t.io[i] = s.io[i]
    BY Appended
  <1>2. Inputs(s) = Cardinality(A) /\ Inputs(t) = Cardinality(B)
    <2> HIDE DEF m
    <2> QED BY <1>1, Zenon DEF Inputs
  <1> HIDE DEF m
  <1>3. A \in SUBSET (1..m) /\ B = IF e[1] = "in" THEN A \cup {m + 1} ELSE A
    BY <1>1
  <1> HIDE DEF A, B
  <1>4. Cardinality(A) \in Nat /\ Cardinality(A \cup {m + 1}) = Cardinality(A) + 1
    BY <1>1, <1>3, OneMore
  <1> QED BY <1>2, <1>3, <1>4

\* Strings printed one after the other.
Prints(a, t, ps, l) ==
    LET n == Len(a.io)
    IN /\ Machine(t) /\ t.val = a.val /\ Inputs(t) = Inputs(a) /\ Len(t.io) = n + l
       /\ \A i \in 1..n : t.io[i] = a.io[i]
       /\ \A j \in 1..l : t.io[n + j] = <<"text", ps[j]>>

LEMMA TextPrinted ==
  ASSUME NEW a, Machine(a), NEW s, NEW ps, NEW l \in Nat, Prints(a, s, ps, l),
         NEW m, m = l + 1, NEW q, q.op = "write_s", q.no = ps[m]
  PROVE  Prints(a, Exec(s, q), ps, m)
  <1> DEFINE n == Len(a.io)
             t == Exec(s, q)
             e == <<"text", q.no>>
  <1>1. n \in Nat
    BY SeqFacts DEF Machine
  <1>2. Machine(s) /\ s.val = a.val /\ Inputs(s) = Inputs(a) /\ Len(s.io) = n + l
    BY DEF Prints
  <1>3. /\ \A i \in 1..n : s.io[i] = a.io[i]
        /\ \A j \in 1..l : s.io[n + j] = <<"text", ps[j]>>
    BY DEF Prints
  <1>4. Machine(t) /\ t.val = s.val /\ t.io = Append(s.io, e)
    BY <1>2, ExecText
  <1>5. IsSeq(s.io)
    BY <1>2 DEF Machine
  <1> HIDE DEF t
  <1>6. Inputs(t) = Inputs(s)
    <2>1. Inputs(s) \in Nat /\ Inputs(t) = Inputs(s) + (IF e[1] = "in" THEN 1 ELSE 0)
      BY <1>4, <1>5, InputsGrow
    <2>2. e[1] # "in"
      OBVIOUS
    <2> QED BY <2>1, <2>2
  <1> HIDE DEF e
  <1>7. /\ Len(t.io) = Len(s.io) + 1 /\ t.io[Len(s.io) + 1] = e
        /\ \A i \in 1..Len(s.io) : t.io[i] = s.io[i]
    BY <1>4, <1>5, Appended
  <1> HIDE DEF n
  <1>8. \A i \in 1..n : t.io[i] = a.io[i]
    BY <1>1, <1>2, <1>3, <1>7
  <1>9. ASSUME NEW j \in 1..m PROVE t.io[n + j] = <<"text", ps[j]>>
    <2>1. CASE j \in 1..l
      <3>1. n + j \in 1..Len(s.io)
        BY <1>1, <1>2, <2>1
      <3> QED BY <1>3, <1>7, <2>1, <3>1
    <2>2. CASE j = m
      <3>1. n + j = Len(s.io) + 1
        BY <1>1, <1>2, <2>2
      <3> QED BY <1>7, <2>2, <3>1 DEF e
    <2> QED BY <2>1, <2>2
  <1>10. Len(t.io) = n + m
    BY <1>1, <1>2, <1>7
  <1> QED BY <1>2, <1>4, <1>6, <1>8, <1>9, <1>10 DEF Prints, n, t

LEMMA TextsRun ==
  ASSUME NEW a, Machine(a), NEW ps \in Seq(Nat)
  PROVE  Prints(a, Run(a, Texts(ps)), ps, Len(ps)) /\ IsSeq(Texts(ps))
  <1> DEFINE l == Len(ps)
             qs == Texts(ps)
  <1>1. l \in Nat /\ DOMAIN ps = 1..l
    OBVIOUS
  <1>2. qs = [i \in 1..l |-> Quad("write_s", Zero, Zero, Zero, ps[i])]
    BY <1>1 DEF Texts
  <1>3. IsSeq(qs) /\ Len(qs) = l /\ \A i \in 1..l : qs[i].op = "write_s" /\ qs[i].no = ps[i]
    <2> DEFINE S == {Quad("write_s", Zero, Zero, Zero, ps[i]) : i \in 1..l}
    <2>1. qs \in Seq(S) /\ Len(qs) = l
      <3> HIDE DEF qs, l
      <3> QED BY <1>1, <1>2
    <2>2. \A i \in 1..l : qs[i] = Quad("write_s", Zero, Zero, Zero, ps[i])
      BY <1>2
    <2> HIDE DEF qs, S, l
    <2>3. ASSUME NEW i \in 1..l PROVE qs[i].op = "write_s" /\ qs[i].no = ps[i]
      <3>1. qs[i] = Quad("write_s", Zero, Zero, Zero, ps[i])
        BY <2>2
      <3>2. \A p : /\ Quad("write_s", Zero, Zero, Zero, p).op = "write_s"
                    /\ Quad("write_s", Zero, Zero, Zero, p).no = p
        BY DEF Quad
      <3> QED BY <3>1, <3>2
    <2> QED BY <2>1, <2>3 DEF IsSeq
  <1> HIDE DEF qs
  <1>4. PICK at : Passes(at, a, qs, l) /\ Run(a, qs) = at[l]
    BY <1>1, <1>3, RunPasses
  <1> HIDE DEF l
  <1> DEFINE bad == {i \in 0..l : ~Prints(a, at[i], ps, i)}
  <1>5. ASSUME bad # {} PROVE FALSE
    <2>1. PICK m \in bad : \A k \in bad : m <= k
      <3>1. bad \in SUBSET Nat
        OBVIOUS
      <3> HIDE DEF bad
      <3> QED BY <1>5, <3>1, Least
    <2>2. m \in 0..l /\ ~Prints(a, at[m], ps, m)
      BY <2>1
    <2>3. CASE m = 0
      <3>1. at[0] = a /\ Len(a.io) \in Nat
        BY <1>4, SeqFacts DEF Passes, Machine
      <3>2. Prints(a, a, ps, 0)
        BY <3>1 DEF Prints
      <3> QED BY <2>2, <2>3, <3>1, <3>2
    <2>4. CASE m # 0
      <3>1. m \in 1..l /\ m - 1 \in 0..l /\ m - 1 \in Nat /\ m = (m - 1) + 1 /\ ~(m <= m - 1)
        BY <1>1, <2>2, <2>4
      <3>2. m - 1 \notin bad
        <4> HIDE DEF bad
        <4> QED BY <2>1, <3>1
      <3>3. Prints(a, at[m - 1], ps, m - 1)
        BY <3>1, <3>2
      <3>4. at[m] = Exec(at[m - 1], qs[m]) /\ qs[m].op = "write_s" /\ qs[m].no = ps[m]
        BY <1>3, <1>4, <3>1 DEF Passes
      <3>5. Prints(a, Exec(at[m - 1], qs[m]), ps, m)
        BY <3>1, <3>3, <3>4, TextPrinted
      <3> QED BY <2>2, <3>4, <3>5
    <2> QED BY <2>3, <2>4
  <1>6. Prints(a, at[l], ps, l)
    <2>1. l \in 0..l
      BY <1>1
    <2> QED BY <1>5, <2>1
  <1> QED BY <1>3, <1>4, <1>6 DEF l, qs

-------------------------------------------------------------------------------
(* What each call does to the graph.                                       *)

\* Name x has node n in h, made for it if it had none.
HasNode(g, h, x, n) ==
    \/ h.record = g.record /\ Len(h.G) = Len(g.G) /\ x \in DOMAIN g.record /\ g.record[x] = n
    \/ /\ x \notin DOMAIN g.record /\ n = Len(g.G) + 1 /\ Len(h.G) = n
       /\ Leaf(h.G[n]) /\ h.G[n].item.name = x

LeafFor(g, h, x, n) ==
    /\ Graph(g) /\ Graph(h) /\ Kept(g, h) /\ n \in 1..Len(h.G)
    /\ HasNode(g, h, x, n) /\ h.record = g.record

UsedFor(g, h, x, n) ==
    /\ Graph(g) /\ Graph(h) /\ Kept(g, h) /\ n \in 1..Len(h.G)
    /\ HasNode(g, h, x, n) /\ Maps(g, h, x, n)

LEMMA LeafIs ==
  ASSUME NEW g, Graph(g), NEW v \in Pointer, v.name \in Value
  PROVE  LeafFor(g, WithNode(g, v), v.name, Find(g, v))
  <1> DEFINE n == Find(g, v)
             w == WithNode(g, v)
  <1>1. CASE v.name \in DOMAIN g.record
    <2>1. n = g.record[v.name] /\ w = g
      BY <1>1 DEF Find, WithNode
    <2>2. n \in 1..Len(g.G)
      BY <1>1, <2>1 DEF Graph, Shaped
    <2>3. Kept(g, g)
      BY DEF Kept
    <2> HIDE DEF n, w
    <2> QED BY <1>1, <2>1, <2>2, <2>3 DEF LeafFor, HasNode, n, w
  <1>2. CASE v.name \notin DOMAIN g.record
    <2>1. n = Len(g.G) + 1 /\ w = [g EXCEPT !.G = Append(@, Node("leaf", v, 0, 0))]
      BY <1>2 DEF Find, WithNode
    <2> HIDE DEF n, w
    <2>2. /\ Graph(w) /\ Len(w.G) = n /\ n \in 1..n /\ w.G[n] = Node("leaf", v, 0, 0)
          /\ w.record = g.record /\ Kept(g, w)
      BY <2>1, LeafAdded
    <2>3. Leaf(w.G[n]) /\ w.G[n].item.name = v.name
      BY <2>2 DEF Node, Leaf
    <2> QED BY <1>2, <2>1, <2>2, <2>3 DEF LeafFor, HasNode, n, w
  <1> QED BY <1>1, <1>2

LEMMA KeptTwice ==
  ASSUME NEW g, Graph(g), NEW h, Graph(h), NEW i, Kept(g, h), Kept(h, i), Len(g.G) <= Len(h.G)
  PROVE  Kept(g, i)
  <1>1. Len(g.G) \in Nat /\ Len(h.G) \in Nat
    BY GraphFacts
  <1>2. \A k \in 1..Len(g.G) : k \in 1..Len(h.G)
    BY <1>1
  <1> QED BY <1>2 DEF Kept

LEMMA UsedIs ==
  ASSUME NEW g, Graph(g), NEW v \in Pointer, v.name \in Value
  PROVE  UsedFor(g, Use(g, v), v.name, Find(g, v))
  <1> DEFINE n == Find(g, v)
             w == WithNode(g, v)
             h == Use(g, v)
             x == v.name
  <1>1. LeafFor(g, w, x, n)
    BY LeafIs
  <1>2. h = SetMap(w, v, n)
    BY DEF Use
  <1> HIDE DEF n, w, h
  <1>3. /\ Graph(w) /\ Kept(g, w) /\ n \in 1..Len(w.G) /\ HasNode(g, w, x, n)
        /\ w.record = g.record
    BY <1>1 DEF LeafFor
  <1>4. CASE x \in DOMAIN g.record
    <2>1. g.record[x] = n /\ Len(w.G) = Len(g.G)
      BY <1>3, <1>4 DEF HasNode
    <2>2. h = w
      BY <1>2, <1>3, <1>4, <2>1 DEF SetMap
    <2>3. Maps(g, h, x, n)
      BY <1>3, <1>4, <2>1, <2>2 DEF Maps
    <2> QED BY <1>3, <2>2, <2>3 DEF UsedFor, n, h
  <1>5. CASE x \notin DOMAIN g.record
    <2>1. n = Len(g.G) + 1 /\ Len(w.G) = n /\ Leaf(w.G[n]) /\ w.G[n].item.name = x
      BY <1>3, <1>5 DEF HasNode
    <2>2. Graph(h) /\ SameNodes(w, h) /\ Maps(w, h, x, n)
      BY <1>2, <1>3, <2>1, MapSet
    <2>3. Kept(w, h) /\ Len(h.G) = Len(w.G)
      BY <2>2 DEF SameNodes
    <2>4. Kept(g, h)
      <3>1. Len(g.G) \in Nat /\ Len(w.G) \in Nat
        BY <1>3, GraphFacts
      <3>2. Len(g.G) <= Len(w.G)
        BY <2>1, <3>1
      <3> QED BY <1>3, <2>2, <2>3, <3>2, KeptTwice
    <2>5. Leaf(h.G[n]) /\ h.G[n].item.name = x
      BY <1>3, <2>1, <2>3 DEF Kept, Leaf
    <2>6. Maps(g, h, x, n)
      BY <1>3, <2>2 DEF Maps
    <2> QED BY <1>3, <1>5, <2>1, <2>2, <2>3, <2>4, <2>5, <2>6 DEF UsedFor, HasNode, n, h
  <1> QED BY <1>4, <1>5

\* Name x is given the node k of an operation, which is made if there is none.
OperationFor(g, h, op, x, l, r, k) ==
    /\ Graph(g) /\ Graph(h) /\ Kept(g, h) /\ Maps(g, h, x, k) /\ k \in 1..Len(h.G)
    /\ h.G[k].op = op /\ h.G[k].lhs = l /\ h.G[k].rhs = r
    /\ l \in 1..Len(g.G) /\ r \in 1..Len(g.G)
    /\ \/ Len(h.G) = Len(g.G)
       \/ k = Len(g.G) + 1 /\ Len(h.G) = k /\ h.G[k].item.name = x

LEMMA OperationIs ==
  ASSUME NEW g, Graph(g), NEW q, NEW p \in Nat,
         q.op \in Ops, q.op # "leaf", q.op \notin InOutOps,
         q.d \in Value, q.a \in Value, q.b \in Value,
         NEW l, l = Find(g, Ptr(q.a, p)), NEW g1, g1 = Use(g, Ptr(q.a, p)),
         NEW r, r = Find(g1, Ptr(q.b, p)), NEW g2, g2 = Use(g1, Ptr(q.b, p)),
         NEW h, h = Operation(g, q, p).graph
  PROVE  /\ UsedFor(g, g1, q.a, l) /\ UsedFor(g1, g2, q.b, r)
         /\ \E k : OperationFor(g2, h, q.op, q.d, l, r, k)
         /\ ~Operation(g, q, p).hit => Len(h.G) = Len(g2.G) + 1
  <1> DEFINE a == Ptr(q.a, p)
             b == Ptr(q.b, p)
             d == Ptr(q.d, p)
             same == Same(g2, q.op, l, r)
             k == FindOp(g2, q.op, l, r)
             g3 == WithOp(g2, q.op, d, l, r)
  <1>1. /\ a \in Pointer /\ b \in Pointer /\ d \in Pointer
        /\ a.name = q.a /\ b.name = q.b /\ d.name = q.d
    BY DEF Ptr, Pointer
  <1>2. h = SetMap(g3, d, k) /\ (Operation(g, q, p).hit <=> same # {})
    BY DEF Operation
  <1>3. l = Find(g, a) /\ g1 = Use(g, a) /\ r = Find(g1, b) /\ g2 = Use(g1, b)
    OBVIOUS
  <1> HIDE DEF a, b, d
  <1>4. UsedFor(g, g1, q.a, l)
    BY <1>1, <1>3, UsedIs
  <1>5. Graph(g1) /\ l \in 1..Len(g1.G)
    BY <1>4 DEF UsedFor
  <1>6. UsedFor(g1, g2, q.b, r)
    BY <1>1, <1>3, <1>5, UsedIs
  <1>7. Graph(g2) /\ r \in 1..Len(g2.G) /\ HasNode(g1, g2, q.b, r)
    BY <1>6 DEF UsedFor
  <1>8. Len(g1.G) \in Nat /\ Len(g2.G) \in Nat
    BY <1>5, <1>7, GraphFacts
  <1>9. l \in 1..Len(g2.G)
    BY <1>5, <1>7, <1>8 DEF HasNode
  <1>10. /\ Graph(g3) /\ Kept(g2, g3) /\ g3.record = g2.record /\ k \in 1..Len(g3.G)
         /\ g3.G[k].op = q.op /\ g3.G[k].lhs = l /\ g3.G[k].rhs = r
         /\ \/ same # {} /\ Len(g3.G) = Len(g2.G)
            \/ k = Len(g2.G) + 1 /\ Len(g3.G) = k /\ g3.G[k].item.name = q.d
    <2>1. CASE same = {}
      <3>1. /\ k = Len(g2.G) + 1
            /\ g3 = [g2 EXCEPT !.G = AddFather(AddFather(Append(@, Node(q.op, d, l, r)), l), r)]
        BY <2>1 DEF FindOp, WithOp
      <3> HIDE DEF k, g3
      <3> DEFINE n == Len(g2.G) + 1
      <3>2. /\ Graph(g3) /\ Len(g3.G) = n /\ g3.record = g2.record /\ Kept(g2, g3)
            /\ g3.G[n].op = q.op /\ g3.G[n].item = d
            /\ g3.G[n].lhs = l /\ g3.G[n].rhs = r
        BY <1>1, <1>7, <1>9, <3>1, OperationAdded
      <3>3. n \in 1..n
        BY <1>8
      <3> HIDE DEF n
      <3> QED BY <1>1, <3>1, <3>2, <3>3 DEF n
    <2>2. CASE same # {}
      <3>1. k = Min(same) /\ g3 = g2
        BY <2>2 DEF FindOp, WithOp
      <3>2. /\ same \in SUBSET (1..Len(g2.G))
            /\ \A j \in same : g2.G[j].op = q.op /\ g2.G[j].lhs = l /\ g2.G[j].rhs = r
        <4>1. DOMAIN g2.G = 1..Len(g2.G)
          BY <1>7, GraphFacts
        <4> QED BY <4>1 DEF Same
      <3> HIDE DEF same, k, g3
      <3>3. k \in same
        BY <1>8, <2>2, <3>1, <3>2, FirstSame
      <3>4. Kept(g2, g2)
        BY DEF Kept
      <3> QED BY <1>7, <2>2, <3>1, <3>2, <3>3, <3>4
    <2> QED BY <2>1, <2>2
  <1> HIDE DEF g3, k, same
  <1>11. ~Leaf(g3.G[k])
    BY <1>10 DEF Leaf
  <1>12. Graph(h) /\ SameNodes(g3, h) /\ Maps(g3, h, q.d, k)
    BY <1>1, <1>2, <1>10, <1>11, MapSet
  <1>13. Kept(g3, h) /\ Len(h.G) = Len(g3.G)
    BY <1>12 DEF SameNodes
  <1>14. Kept(g2, h)
    <2>1. Len(g2.G) <= Len(g3.G)
      BY <1>8, <1>10
    <2> QED BY <1>7, <1>10, <1>12, <1>13, <2>1, KeptTwice
  <1>15. Maps(g2, h, q.d, k)
    BY <1>10, <1>12 DEF Maps
  <1>16. /\ h.G[k].op = q.op /\ h.G[k].lhs = l /\ h.G[k].rhs = r
         /\ h.G[k].item.name = g3.G[k].item.name
    BY <1>10, <1>13 DEF Kept
  <1>17. \/ Len(h.G) = Len(g2.G)
         \/ k = Len(g2.G) + 1 /\ Len(h.G) = k /\ h.G[k].item.name = q.d
    BY <1>10, <1>13, <1>16
  <1>18. OperationFor(g2, h, q.op, q.d, l, r, k)
    BY <1>7, <1>9, <1>10, <1>12, <1>13, <1>14, <1>15, <1>16, <1>17 DEF OperationFor
  <1>19. ~Operation(g, q, p).hit => Len(h.G) = Len(g2.G) + 1
    BY <1>2, <1>10, <1>13
  <1> QED BY <1>4, <1>6, <1>18, <1>19

\* A new node n reads into, or writes, what node k stands for.
InOutFor(g, h, op, k, p, n) ==
    /\ Graph(g) /\ Graph(h) /\ Kept(g, h) /\ k \in 1..Len(g.G)
    /\ n = Len(g.G) + 1 /\ Len(h.G) = n
    /\ h.G[n].op = op /\ h.G[n].lhs = k /\ h.G[n].rhs = p

LEMMA WriteIs ==
  ASSUME NEW g, Graph(g), NEW v \in Pointer, v.name \in Value, NEW p \in Nat
  PROVE  LET w == WithNode(g, v)
             h == WriteNode(g, v, p)
             k == Find(g, v)
         IN /\ LeafFor(g, w, v.name, k) /\ InOutFor(w, h, "write_e", k, p, Len(w.G) + 1)
            /\ h.record = w.record
  <1> DEFINE w == WithNode(g, v)
             h == WriteNode(g, v, p)
             k == Find(g, v)
             n == Len(w.G) + 1
             item == Ptr("~write_e", p)
  <1>1. LeafFor(g, w, v.name, k)
    BY LeafIs
  <1>2. h = [w EXCEPT !.G = AddFather(Append(@, Node("write_e", item, k, p)), k)]
    BY DEF WriteNode, InOut
  <1>3. item \in Pointer /\ "write_e" \in InOutOps
    BY DEF Ptr, Pointer, InOutOps
  <1> HIDE DEF w, h, k, item
  <1>4. Graph(w) /\ k \in 1..Len(w.G)
    BY <1>1 DEF LeafFor
  <1>5. /\ Graph(h) /\ Len(h.G) = n /\ h.record = w.record /\ Kept(w, h)
        /\ h.G[n].op = "write_e" /\ h.G[n].item = item /\ h.G[n].lhs = k /\ h.G[n].rhs = p
    BY <1>2, <1>3, <1>4, InOutAdded
  <1> HIDE DEF n
  <1>6. InOutFor(w, h, "write_e", k, p, n)
    BY <1>4, <1>5 DEF InOutFor, n
  <1> QED BY <1>1, <1>5, <1>6 DEF w, h, k, n

LEMMA ReadIs ==
  ASSUME NEW g, Graph(g), NEW v \in Pointer, v.name \in Value, NEW p \in Nat
  PROVE  LET w == WithNode(g, v)
             h == ReadNode(g, v, p)
             k == Find(g, v)
             n == Len(w.G) + 1
         IN /\ LeafFor(g, w, v.name, k) /\ InOutFor(w, h, "read", k, p, n)
            /\ h.G[n].item.name = v.name /\ Maps(w, h, v.name, n)
  <1> DEFINE w == WithNode(g, v)
             h == ReadNode(g, v, p)
             k == Find(g, v)
             n == Len(w.G) + 1
             i == [w EXCEPT !.G = AddFather(Append(@, Node("read", v, k, p)), k)]
  <1>1. LeafFor(g, w, v.name, k)
    BY LeafIs
  <1>2. h = SetMap(i, v, Len(i.G))
    BY DEF ReadNode, InOut
  <1>3. "read" \in InOutOps
    BY DEF InOutOps
  <1> HIDE DEF w, h, k
  <1>4. Graph(w) /\ k \in 1..Len(w.G) /\ Len(w.G) \in Nat
    BY <1>1, GraphFacts DEF LeafFor
  <1>5. /\ Graph(i) /\ Len(i.G) = n /\ i.record = w.record /\ Kept(w, i)
        /\ i.G[n].op = "read" /\ i.G[n].item = v /\ i.G[n].lhs = k /\ i.G[n].rhs = p
    BY <1>3, <1>4, InOutAdded
  <1>6. n \in 1..Len(i.G)
    BY <1>4, <1>5
  <1> HIDE DEF i, n
  <1>7. h = SetMap(i, v, n) /\ ~Leaf(i.G[n])
    BY <1>2, <1>5 DEF Leaf
  <1>8. Graph(h) /\ SameNodes(i, h) /\ Maps(i, h, v.name, n)
    BY <1>5, <1>6, <1>7, MapSet
  <1>9. Kept(i, h) /\ Len(h.G) = n
    BY <1>5, <1>8 DEF SameNodes
  <1>10. Kept(w, h)
    <2>1. Len(w.G) <= Len(i.G)
      BY <1>4, <1>5 DEF n
    <2> QED BY <1>4, <1>5, <1>9, <2>1, KeptTwice
  <1>11. /\ h.G[n].op = "read" /\ h.G[n].item = v /\ h.G[n].lhs = k /\ h.G[n].rhs = p
    BY <1>5, <1>6, <1>9 DEF Kept
  <1>12. InOutFor(w, h, "read", k, p, n)
    BY <1>4, <1>8, <1>9, <1>10, <1>11 DEF InOutFor, n
  <1>13. Maps(w, h, v.name, n)
    BY <1>5, <1>8 DEF Maps
  <1> QED BY <1>1, <1>11, <1>12, <1>13 DEF w, h, k, n

-------------------------------------------------------------------------------
(* What is still to be read and printed.                                   *)

Strings(buf) == {<<"text", buf[i]>> : i \in 1..Len(buf)}
Event(node) == <<IF node.op = "read" THEN "in" ELSE "out", node.rhs>>
InOuts(G, m) == {k \in 1..Len(G) : m < k /\ G[k].op \in InOutOps}

\* The strings in the buffer, and the reads and writes of nodes after m.
Events(g, m) == Strings(g.IOBuf) \cup {Event(g.G[k]) : k \in InOuts(g.G, m)}

Rising(buf) == \A i, j \in 1..Len(buf) : i < j => buf[i] < buf[j]

\* The buffer and the nodes are in the order of their positions.
Dated(g, p) ==
    /\ g.IOBuf \in Seq(Nat) /\ Rising(g.IOBuf)
    /\ \A i \in 1..Len(g.IOBuf) : g.IOBuf[i] \in 1..p
    /\ \A k \in InOuts(g.G, 0) : g.G[k].rhs \in 1..p
    /\ \A j, k \in InOuts(g.G, 0) : j < k => g.G[j].rhs < g.G[k].rhs

\* A block b of p quadruples with graph g, exported up to node m by a.
Together(g, b, a, p, m) ==
    /\ Machine(b) /\ Machine(a) /\ InTime(b, p) /\ Dated(g, p)
    /\ Follows(b, a, Events(g, m))

\* Nodes are added that neither read nor write.
Quiet(g, h) ==
    /\ Kept(g, h) /\ Len(g.G) \in Nat /\ Len(h.G) \in Nat /\ Len(g.G) <= Len(h.G)
    /\ \A k \in 1..Len(h.G) : Len(g.G) < k => h.G[k].op \notin InOutOps

LEMMA QuietTwice ==
  ASSUME NEW g, NEW h, NEW i, Quiet(g, h), Quiet(h, i)
  PROVE  Quiet(g, i)
  <1>1. /\ Len(g.G) \in Nat /\ Len(h.G) \in Nat /\ Len(i.G) \in Nat
        /\ Len(g.G) <= Len(h.G) /\ Len(h.G) <= Len(i.G)
    BY DEF Quiet
  <1>2. /\ i.IOBuf = g.IOBuf
        /\ \A k \in 1..Len(g.G) : /\ i.G[k].op = g.G[k].op /\ i.G[k].item = g.G[k].item
                                  /\ i.G[k].lhs = g.G[k].lhs /\ i.G[k].rhs = g.G[k].rhs
    <2>1. \A k \in 1..Len(g.G) : k \in 1..Len(h.G)
      BY <1>1
    <2> QED BY <2>1 DEF Quiet, Kept
  <1>3. ASSUME NEW k \in 1..Len(i.G), Len(g.G) < k PROVE i.G[k].op \notin InOutOps
    <2>1. CASE k \in 1..Len(h.G)
      BY <1>3, <2>1 DEF Quiet, Kept
    <2>2. CASE k \notin 1..Len(h.G)
      BY <1>1, <2>2 DEF Quiet
    <2> QED BY <2>1, <2>2
  <1>4. Len(g.G) <= Len(i.G)
    BY <1>1
  <1> QED BY <1>1, <1>2, <1>3, <1>4 DEF Quiet, Kept

LEMMA HasNodeQuiet ==
  ASSUME NEW g, Graph(g), NEW h, Graph(h), Kept(g, h), NEW x, NEW n, HasNode(g, h, x, n)
  PROVE  Quiet(g, h)
  <1>1. Len(g.G) \in Nat /\ Len(h.G) \in Nat
    BY GraphFacts
  <1>2. \A k \in 1..Len(h.G) : Len(g.G) < k => h.G[k].op \notin InOutOps
    <2>1. SUFFICES ASSUME NEW k \in 1..Len(h.G), Len(g.G) < k PROVE h.G[k].op \notin InOutOps
      OBVIOUS
    <2>2. k = n /\ Leaf(h.G[n])
      BY <1>1, <2>1 DEF HasNode
    <2> QED BY <2>2 DEF Leaf, InOutOps
  <1>3. Len(g.G) <= Len(h.G)
    BY <1>1 DEF HasNode
  <1> QED BY <1>1, <1>2, <1>3 DEF Quiet

LEMMA OperationQuiet ==
  ASSUME NEW g, NEW h, NEW op, op \notin InOutOps, NEW x, NEW l, NEW r, NEW k,
         OperationFor(g, h, op, x, l, r, k)
  PROVE  Quiet(g, h)
  <1>1. Len(g.G) \in Nat /\ Len(h.G) \in Nat /\ Kept(g, h)
    BY GraphFacts DEF OperationFor
  <1>2. ASSUME NEW j \in 1..Len(h.G), Len(g.G) < j PROVE h.G[j].op \notin InOutOps
    <2>1. j = k /\ h.G[k].op = op
      BY <1>1, <1>2 DEF OperationFor
    <2> QED BY <2>1
  <1>3. Len(g.G) <= Len(h.G)
    BY <1>1 DEF OperationFor
  <1> QED BY <1>1, <1>2, <1>3 DEF Quiet

LEMMA QuietSame ==
  ASSUME NEW g, NEW h, Quiet(g, h), NEW p \in Nat, NEW r \in Nat, p <= r, Dated(g, p)
  PROVE  Dated(h, r) /\ Events(h, 0) = Events(g, 0)
  <1>1. h.IOBuf = g.IOBuf
    BY DEF Quiet, Kept
  <1>2. InOuts(h.G, 0) = InOuts(g.G, 0)
    <2>1. \A k \in 1..Len(h.G) : h.G[k].op \in InOutOps => k \in 1..Len(g.G)
      BY DEF Quiet
    <2>2. \A k \in 1..Len(g.G) : k \in 1..Len(h.G) /\ h.G[k].op = g.G[k].op
      BY DEF Quiet, Kept
    <2> QED BY <2>1, <2>2 DEF InOuts
  <1>3. \A k \in InOuts(g.G, 0) : h.G[k].op = g.G[k].op /\ h.G[k].rhs = g.G[k].rhs
    BY DEF Quiet, Kept, InOuts
  <1>4. \A k \in InOuts(g.G, 0) : Event(h.G[k]) = Event(g.G[k])
    BY <1>3 DEF Event
  <1>5. Events(h, 0) = Events(g, 0)
    BY <1>1, <1>2, <1>4 DEF Events
  <1>6. Dated(h, r)
    <2>1. \A i \in 1..Len(g.IOBuf) : g.IOBuf[i] \in 1..r
      BY DEF Dated
    <2>2. \A k \in InOuts(g.G, 0) : g.G[k].rhs \in 1..r
      BY DEF Dated
    <2> QED BY <1>1, <1>2, <1>3, <2>1, <2>2 DEF Dated
  <1> QED BY <1>5, <1>6

LEMMA InOutMore ==
  ASSUME NEW g, NEW h, NEW op \in InOutOps, NEW k, NEW p \in Nat, NEW r \in Nat, p < r, NEW n,
         InOutFor(g, h, op, k, r, n), Dated(g, p)
  PROVE  Dated(h, r) /\ Events(h, 0) = Events(g, 0) \cup {Event(h.G[n])}
  <1>1. /\ Len(g.G) \in Nat /\ n = Len(g.G) + 1 /\ Len(h.G) = n /\ h.IOBuf = g.IOBuf
        /\ h.G[n].op = op /\ h.G[n].rhs = r
    BY GraphFacts DEF InOutFor, Kept
  <1>2. \A j \in 1..Len(g.G) : h.G[j].op = g.G[j].op /\ h.G[j].rhs = g.G[j].rhs
    BY DEF InOutFor, Kept
  <1>3. InOuts(h.G, 0) = InOuts(g.G, 0) \cup {n}
    <2>1. /\ n \in 1..Len(h.G) /\ 0 < n
          /\ \A j : j \in 1..Len(h.G) <=> j \in 1..Len(g.G) \/ j = n
      BY <1>1
    <2>2. \A j : j \in InOuts(h.G, 0) <=> j \in 1..Len(h.G) /\ 0 < j /\ h.G[j].op \in InOutOps
      BY DEF InOuts
    <2>3. \A j : j \in InOuts(g.G, 0) <=> j \in 1..Len(g.G) /\ 0 < j /\ g.G[j].op \in InOutOps
      BY DEF InOuts
    <2>4. h.G[n].op \in InOutOps
      BY <1>1
    <2>5. \A j : j \in InOuts(h.G, 0) <=> j \in InOuts(g.G, 0) \/ j = n
      BY <1>2, <2>1, <2>2, <2>3, <2>4
    <2> QED BY <2>5
  <1>4. \A j \in InOuts(g.G, 0) : /\ j \in Nat /\ j < n /\ h.G[j].rhs = g.G[j].rhs
                                  /\ h.G[j].op = g.G[j].op
    BY <1>1, <1>2 DEF InOuts
  <1>5. \A j \in InOuts(g.G, 0) : Event(h.G[j]) = Event(g.G[j])
    BY <1>4 DEF Event
  <1>6. Events(h, 0) = Events(g, 0) \cup {Event(h.G[n])}
    BY <1>1, <1>3, <1>5 DEF Events
  <1>7. \A i \in 1..Len(g.IOBuf) : g.IOBuf[i] \in 1..r
    BY DEF Dated
  <1>8. \A j \in InOuts(g.G, 0) : h.G[j].rhs \in 1..r /\ h.G[j].rhs < r
    BY <1>4 DEF Dated
  <1>9. \A i, j \in InOuts(h.G, 0) : i < j => h.G[i].rhs < h.G[j].rhs
    <2>1. SUFFICES ASSUME NEW i \in InOuts(h.G, 0), NEW j \in InOuts(h.G, 0), i < j
                   PROVE  h.G[i].rhs < h.G[j].rhs
      OBVIOUS
    <2>2. i \in InOuts(g.G, 0)
      BY <1>1, <1>3, <1>4, <2>1
    <2>3. CASE j \in InOuts(g.G, 0)
      BY <1>4, <2>1, <2>2, <2>3 DEF Dated
    <2>4. CASE j = n
      BY <1>1, <1>8, <2>2, <2>4
    <2> QED BY <1>3, <2>3, <2>4
  <1>10. \A j \in InOuts(h.G, 0) : h.G[j].rhs \in 1..r
    BY <1>1, <1>3, <1>8
  <1>11. Dated(h, r)
    BY <1>1, <1>7, <1>9, <1>10 DEF Dated
  <1> QED BY <1>6, <1>11

LEMMA StringMore ==
  ASSUME NEW g, Graph(g), NEW p \in Nat, NEW r \in Nat, p < r, Dated(g, p),
         NEW h, h = [g EXCEPT !.IOBuf = Append(@, r)]
  PROVE  /\ Dated(h, r) /\ Events(h, 0) = Events(g, 0) \cup {<<"text", r>>}
         /\ h.G = g.G /\ h.record = g.record
  <1> DEFINE buf == g.IOBuf
             new == Append(buf, r)
  <1>1. buf \in Seq(Nat) /\ Len(buf) \in Nat /\ r \in Nat
    BY DEF Dated
  <1>2. h.G = g.G /\ h.record = g.record /\ h.IOBuf = new
    <2>1. g = [G |-> g.G, record |-> g.record, IOBuf |-> g.IOBuf]
      BY DEF Graph, Shaped
    <2>2. h = [G |-> g.G, record |-> g.record, IOBuf |-> new]
      BY <2>1
    <2> HIDE DEF new
    <2> QED BY <2>2
  <1>3. /\ new \in Seq(Nat) /\ Len(new) = Len(buf) + 1 /\ new[Len(buf) + 1] = r
        /\ \A i \in 1..Len(buf) : new[i] = buf[i]
    <2> HIDE DEF buf
    <2> QED BY <1>1, AppendProperties
  <1>4. \A i \in 1..Len(buf) : buf[i] \in 1..p
    BY DEF Dated
  <1>5. \A i, j \in 1..Len(buf) : i < j => buf[i] < buf[j]
    BY DEF Dated, Rising
  <1> HIDE DEF new, buf
  <1>6. \A i \in 1..Len(new) : i \in 1..Len(buf) \/ i = Len(buf) + 1
    BY <1>1, <1>3
  <1>7. Rising(new)
    <2> SUFFICES ASSUME NEW i \in 1..Len(new), NEW j \in 1..Len(new), i < j
                 PROVE  new[i] < new[j]
      BY DEF Rising
    <2>1. i \in 1..Len(buf)
      BY <1>1, <1>3
    <2>2. CASE j \in 1..Len(buf)
      BY <1>3, <1>5, <2>1, <2>2
    <2>3. CASE j = Len(buf) + 1
      BY <1>3, <1>4, <2>1, <2>3
    <2> QED BY <1>6, <2>2, <2>3
  <1>8. \A i \in 1..Len(new) : new[i] \in 1..r
    <2> SUFFICES ASSUME NEW i \in 1..Len(new)
                 PROVE  new[i] \in 1..r
      OBVIOUS
    <2>1. CASE i \in 1..Len(buf)
      <3>1. new[i] = buf[i] /\ buf[i] \in 1..p
        BY <1>3, <1>4, <2>1
      <3> QED BY <3>1
    <2>2. CASE i = Len(buf) + 1
      BY <1>3, <2>2
    <2> QED BY <1>6, <2>1, <2>2
  <1>9. Strings(new) = Strings(buf) \cup {<<"text", r>>}
    <2>1. Strings(buf) \subseteq Strings(new)
      BY <1>1, <1>3 DEF Strings
    <2>2. <<"text", r>> \in Strings(new)
      <3>1. Len(buf) + 1 \in 1..Len(new)
        BY <1>1, <1>3
      <3> QED BY <1>3, <3>1 DEF Strings
    <2>3. Strings(new) \subseteq Strings(buf) \cup {<<"text", r>>}
      BY <1>3, <1>6 DEF Strings
    <2> QED BY <2>1, <2>2, <2>3
  <1>10. Events(h, 0) = Events(g, 0) \cup {<<"text", r>>}
    BY <1>2, <1>9 DEF Events, buf
  <1>11. \A k \in InOuts(g.G, 0) : g.G[k].rhs \in 1..r
    BY DEF Dated
  <1>12. Dated(h, r)
    BY <1>2, <1>3, <1>7, <1>8, <1>11 DEF Dated
  <1> QED BY <1>2, <1>10, <1>12

\* An event at the end of the block.
LEMMA OneMoreHappened ==
  ASSUME NEW b, Machine(b), NEW a, Machine(a), NEW p \in Nat, InTime(b, p),
         NEW E, Follows(b, a, E), NEW r \in Nat, p < r, NEW e, e[2] = r,
         NEW c, c.io = Append(b.io, e)
  PROVE  InTime(c, r) /\ Follows(c, a, E \cup {<<e[1], r>>})
  <1> DEFINE N == Len(b.io)
             n == Len(a.io)
  <1>1. /\ N \in Nat /\ n \in Nat /\ n <= N /\ Len(c.io) = N + 1 /\ c.io[N + 1] = e
        /\ \A i \in 1..N : c.io[i] = b.io[i]
    <2>1. IsSeq(a.io) /\ IsSeq(b.io)
      BY DEF Machine
    <2>2. n <= N
      BY DEF Follows
    <2> QED BY <2>1, <2>2, SeqFacts, Appended
  <1>2. /\ \A i \in 1..n : Happened(a, i) = Happened(b, i)
        /\ {Happened(b, i) : i \in (n + 1)..N} = E
    BY DEF Follows
  <1>3. /\ \A i \in 1..N : b.io[i][2] \in 1..p
        /\ \A i, j \in 1..N : i < j => b.io[i][2] < b.io[j][2]
    BY DEF InTime
  <1> HIDE DEF n, N
  <1>4. \A i \in 1..N : Happened(c, i) = Happened(b, i)
    BY <1>1 DEF Happened
  <1>5. Happened(c, N + 1) = <<e[1], r>>
    BY <1>1 DEF Happened
  <1>6. {Happened(c, i) : i \in (n + 1)..(N + 1)} = E \cup {<<e[1], r>>}
    <2>1. \A i : i \in (n + 1)..(N + 1) <=> i \in (n + 1)..N \/ i = N + 1
      BY <1>1
    <2>2. \A i \in (n + 1)..N : i \in 1..N
      BY <1>1
    <2> QED BY <1>2, <1>4, <1>5, <2>1, <2>2
  <1>7. InTime(c, r)
    <2>1. \A i \in 1..(N + 1) : i \in 1..N \/ i = N + 1
      BY <1>1
    <2>2. \A i \in 1..(N + 1) : c.io[i][2] \in 1..r
      BY <1>1, <1>3, <2>1
    <2>3. ASSUME NEW i \in 1..(N + 1), NEW j \in 1..(N + 1), i < j
          PROVE  c.io[i][2] < c.io[j][2]
      <3>1. i \in 1..N
        BY <1>1, <2>3
      <3>2. CASE j \in 1..N
        BY <1>1, <1>3, <2>3, <3>1, <3>2
      <3>3. CASE j = N + 1
        BY <1>1, <1>3, <3>1, <3>3
      <3> QED BY <2>1, <3>2, <3>3
    <2> QED BY <1>1, <2>2, <2>3 DEF InTime
  <1>8. n <= N + 1 /\ \A i \in 1..n : Happened(a, i) = Happened(c, i)
    BY <1>1, <1>2, <1>4
  <1> QED BY <1>1, <1>6, <1>7, <1>8 DEF Follows, n

-------------------------------------------------------------------------------
(* What a step adds to the block.                                          *)

\* A quadruple that gives name q.d a value.
Assigns(q) ==
    /\ q.op \in Ops /\ q.op # "leaf" /\ q.op \notin InOutOps /\ Silent(q.op)
    /\ q.d \in Value /\ q.a \in Value /\ q.b \in Value
    /\ q.op = "[]=" \/ q.d # Zero

\* The graph with its operands and its node.
Built(g, h, q, hit) ==
    \E g1, g2, l, r, k :
        /\ UsedFor(g, g1, q.a, l) /\ UsedFor(g1, g2, q.b, r)
        /\ OperationFor(g2, h, q.op, q.d, l, r, k)
        /\ ~hit => Len(h.G) = Len(g2.G) + 1

\* Still building.
Building ==
    /\ phase = "build" /\ phase' = "build" /\ stack' = stack /\ after' = after

LEMMA BuiltIs ==
  ASSUME NEW g, Graph(g), NEW q, Assigns(q), NEW p \in Nat
  PROVE  Built(g, Operation(g, q, p).graph, q, Operation(g, q, p).hit)
  <1> DEFINE l == Find(g, Ptr(q.a, p))
             g1 == Use(g, Ptr(q.a, p))
             r == Find(g1, Ptr(q.b, p))
             g2 == Use(g1, Ptr(q.b, p))
             h == Operation(g, q, p).graph
             hit == Operation(g, q, p).hit
  <1>1. /\ UsedFor(g, g1, q.a, l) /\ UsedFor(g1, g2, q.b, r)
        /\ \E k : OperationFor(g2, h, q.op, q.d, l, r, k)
        /\ ~hit => Len(h.G) = Len(g2.G) + 1
    BY OperationIs DEF Assigns
  <1> HIDE DEF l, g1, r, g2, h, hit
  <1>2. Built(g, h, q, hit)
    BY <1>1 DEF Built
  <1> QED BY <1>2 DEF h, hit

\* A quadruple of a statement that assigns.
LEMMA AddOperationStep ==
  ASSUME IInv, NEW op \in Ops, op # "leaf", op \notin InOutOps, Silent(op),
         NEW d \in Value, NEW a \in Value, NEW b \in Value, op = "[]=" \/ d # Zero,
         AddOperation(op, d, a, b)
  PROVE  \E q, hit :
           /\ Building /\ Assigns(q) /\ Built(graph, graph', q, hit)
           /\ before' = Exec(before, q) /\ len' = len + 1
           /\ seen' = seen \cup {q.d, q.a, q.b}
           /\ ~rebound' => ~rebound /\ q.d \notin seen \cup {q.a, q.b} /\ q.op # "[]="
           /\ ~shared' => ~shared /\ ~hit
  <1> DEFINE q == Quad(op, d, a, b, len + 1)
             p == len + 1
             h == Operation(graph, q, p).graph
             hit == Operation(graph, q, p).hit
  <1>1. q.op = op /\ q.d = d /\ q.a = a /\ q.b = b
    BY DEF Quad
  <1>2. /\ Building /\ graph' = h /\ len' = len + Len(<<q>>) /\ before' = Run(before, <<q>>)
        /\ rebound' = (rebound \/ (d \in seen \cup {a, b} \/ op = "[]="))
        /\ shared' = (shared \/ hit)
        /\ seen' = seen \cup {e.d : e \in Range(<<q>>)} \cup {e.a : e \in Range(<<q>>)}
                        \cup {e.b : e \in Range(<<q>>)}
    BY DEF AddOperation, Add, Building
  <1> HIDE DEF q, h, hit
  <1>3. Assigns(q)
    BY <1>1 DEF Assigns
  <1>4. Graph(graph) /\ p \in Nat
    BY DEF IInv
  <1>5. Built(graph, h, q, hit)
    BY <1>3, <1>4, BuiltIs DEF h, hit
  <1>6. Len(<<q>>) = 1 /\ Range(<<q>>) = {q}
    BY DEF Range
  <1>7. before' = Exec(before, q)
    BY <1>2, RunOne
  <1>8. seen' = seen \cup {q.d, q.a, q.b}
    BY <1>2, <1>6
  <1>9. ~rebound' => ~rebound /\ q.d \notin seen \cup {q.a, q.b} /\ q.op # "[]="
    BY <1>1, <1>2
  <1>10. ~shared' => ~shared /\ ~hit
    BY <1>2
  <1>11. len' = len + 1
    BY <1>2, <1>6
  <1> QED BY <1>2, <1>3, <1>5, <1>7, <1>8, <1>9, <1>10, <1>11

LEMMA OperationStep ==
  ASSUME IInv, Move \/ Arithmetic \/ LoadElem \/ StoreElem
  PROVE  \E q, hit :
           /\ Building /\ Assigns(q) /\ Built(graph, graph', q, hit)
           /\ before' = Exec(before, q) /\ len' = len + 1
           /\ seen' = seen \cup {q.d, q.a, q.b}
           /\ ~rebound' => ~rebound /\ q.d \notin seen \cup {q.a, q.b} /\ q.op # "[]="
           /\ ~shared' => ~shared /\ ~hit
  <1>1. /\ Name \subseteq Value /\ Array \subseteq Value /\ Zero \in Value /\ Zero \notin Name
        /\ {"=", "=[]", "[]="} \cup Op \subseteq Ops
    BY QuadruplesAssumption DEF Value, Ops
  <1>2. \A op \in {"=", "=[]", "[]="} \cup Op : op # "leaf" /\ op \notin InOutOps /\ Silent(op)
    BY BlockAssumption DEF InOutOps, Silent
  <1>3. CASE Move
    <2>1. PICK d \in Name, a \in Name \cup {Zero} : AddOperation("=", d, a, Zero)
      BY <1>3 DEF Move
    <2>2. d # Zero /\ d \in Value /\ a \in Value
      BY <1>1
    <2> QED BY <1>1, <1>2, <2>1, <2>2, AddOperationStep
  <1>4. CASE Arithmetic
    <2>1. PICK op \in Op, d \in Name, a \in Name, b \in Name : AddOperation(op, d, a, b)
      BY <1>4 DEF Arithmetic
    <2>2. d # Zero /\ d \in Value /\ a \in Value /\ b \in Value /\ op \in Ops
      BY <1>1
    <2> QED BY <1>1, <1>2, <2>1, <2>2, AddOperationStep
  <1>5. CASE LoadElem
    <2>1. PICK d \in Name, i \in Name, t \in Array : AddOperation("=[]", d, t, i)
      BY <1>5 DEF LoadElem
    <2>2. d # Zero /\ d \in Value /\ t \in Value /\ i \in Value
      BY <1>1
    <2> QED BY <1>1, <1>2, <2>1, <2>2, AddOperationStep
  <1>6. CASE StoreElem
    <2>1. PICK i \in Name, a \in Name, t \in Array : AddOperation("[]=", t, i, a)
      BY <1>6 DEF StoreElem
    <2>2. t \in Value /\ i \in Value /\ a \in Value
      BY <1>1
    <2> QED BY <1>1, <1>2, <2>1, <2>2, AddOperationStep
  <1> QED BY <1>3, <1>4, <1>5, <1>6

\* A read statement: name x is given 0, then what is read.
LEMMA ReadStep ==
  ASSUME IInv, ReadVar
  PROVE  \E x, q, q2, g, w, k, n, hit :
           /\ Building /\ Assigns(q) /\ q.d = x /\ Built(graph, g, q, hit)
           /\ LeafFor(g, w, x, k) /\ InOutFor(w, graph', "read", k, len + 2, n)
           /\ graph'.G[n].item.name = x /\ Maps(w, graph', x, n)
           /\ q2.op = "read" /\ q2.d = x /\ q2.no = len + 2
           /\ before' = Exec(Exec(before, q), q2) /\ len' = len + 2
           /\ rebound' /\ (~shared' => ~shared /\ ~hit)
  <1>1. PICK x \in Name :
          LET q1 == Quad("=", x, Zero, Zero, len + 1)
              q2 == Quad("read", x, Zero, Zero, len + 2)
              built == Operation(graph, q1, len + 1)
          IN Add(ReadNode(built.graph, Ptr(x, len + 2), len + 2), <<q1, q2>>, TRUE, built.hit)
    BY DEF ReadVar
  <1> DEFINE q == Quad("=", x, Zero, Zero, len + 1)
             q2 == Quad("read", x, Zero, Zero, len + 2)
             p == len + 1
             r == len + 2
             v == Ptr(x, r)
             g == Operation(graph, q, p).graph
             hit == Operation(graph, q, p).hit
             w == WithNode(g, v)
             k == Find(g, v)
             n == Len(w.G) + 1
  <1>2. /\ Building /\ graph' = ReadNode(g, v, r) /\ len' = len + Len(<<q, q2>>)
        /\ before' = Run(before, <<q, q2>>)
        /\ rebound' = (rebound \/ TRUE) /\ shared' = (shared \/ hit)
    BY <1>1 DEF Add, Building
  <1>3. /\ q.op = "=" /\ q.d = x /\ q.a = Zero /\ q.b = Zero
        /\ q2.op = "read" /\ q2.d = x /\ q2.no = r
    BY DEF Quad
  <1>4. x \in Value /\ x # Zero /\ Zero \in Value
    BY QuadruplesAssumption DEF Value
  <1>5. Graph(graph) /\ p \in Nat /\ r \in Nat
    BY DEF IInv
  <1>6. v \in Pointer /\ v.name = x
    BY <1>4, <1>5 DEF Ptr, Pointer
  <1>7. Len(<<q, q2>>) = 2
    OBVIOUS
  <1> HIDE DEF q, q2, v, g, hit, w, k, r
  <1>8. Assigns(q)
    BY <1>3, <1>4, BlockAssumption DEF Assigns, Ops, InOutOps, Silent
  <1>9. Built(graph, g, q, hit)
    BY <1>5, <1>8, BuiltIs DEF g, hit
  <1>10. Graph(g)
    BY <1>9 DEF Built, OperationFor
  <1>11. /\ LeafFor(g, w, x, k) /\ InOutFor(w, graph', "read", k, r, n)
         /\ graph'.G[n].item.name = x /\ Maps(w, graph', x, n)
    BY <1>2, <1>4, <1>5, <1>6, <1>10, ReadIs DEF w, k
  <1>12. before' = Exec(Exec(before, q), q2)
    BY <1>2, RunTwo
  <1>13. rebound' /\ (~shared' => ~shared /\ ~hit) /\ len' = len + 2
    BY <1>2, <1>7
  <1> HIDE DEF n
  <1> QED BY <1>2, <1>3, <1>8, <1>9, <1>11, <1>12, <1>13 DEF r

\* A value is printed.
LEMMA WriteStep ==
  ASSUME IInv, Write
  PROVE  \E x \in Value : \E q, w, k, n :
           /\ Building /\ LeafFor(graph, w, x, k) /\ InOutFor(w, graph', "write_e", k, len + 1, n)
           /\ graph'.record = w.record
           /\ q.op = "write_e" /\ q.d = x /\ q.no = len + 1
           /\ before' = Exec(before, q) /\ len' = len + 1
           /\ seen' = seen \cup {x, Zero}
           /\ (~rebound' => ~rebound) /\ (~shared' => ~shared)
  <1>1. PICK x \in Name \cup {Zero} :
          Add(WriteNode(graph, Ptr(x, len + 1), len + 1),
              <<Quad("write_e", x, Zero, Zero, len + 1)>>, FALSE, FALSE)
    BY DEF Write
  <1> DEFINE q == Quad("write_e", x, Zero, Zero, len + 1)
             p == len + 1
             v == Ptr(x, p)
             w == WithNode(graph, v)
             k == Find(graph, v)
             n == Len(w.G) + 1
  <1>2. /\ Building /\ graph' = WriteNode(graph, v, p) /\ len' = len + Len(<<q>>)
        /\ before' = Run(before, <<q>>)
        /\ rebound' = (rebound \/ FALSE) /\ shared' = (shared \/ FALSE)
        /\ seen' = seen \cup {e.d : e \in Range(<<q>>)} \cup {e.a : e \in Range(<<q>>)}
                        \cup {e.b : e \in Range(<<q>>)}
    BY <1>1 DEF Add, Building
  <1>3. q.op = "write_e" /\ q.d = x /\ q.no = p /\ q.a = Zero /\ q.b = Zero
    BY DEF Quad
  <1>4. x \in Value
    BY DEF Value
  <1>5. Graph(graph) /\ p \in Nat
    BY DEF IInv
  <1>6. v \in Pointer /\ v.name = x
    BY <1>4, <1>5 DEF Ptr, Pointer
  <1> HIDE DEF q, p, v, w, k
  <1>7. /\ LeafFor(graph, w, x, k) /\ InOutFor(w, graph', "write_e", k, p, n)
        /\ graph'.record = w.record
    BY <1>2, <1>4, <1>5, <1>6, WriteIs DEF w, k
  <1>8. Len(<<q>>) = 1 /\ Range(<<q>>) = {q}
    BY DEF Range
  <1>9. before' = Exec(before, q)
    BY <1>2, RunOne
  <1>10. (~rebound' => ~rebound) /\ (~shared' => ~shared) /\ len' = len + 1
    BY <1>2, <1>8
  <1>11. seen' = seen \cup {x, Zero}
    BY <1>2, <1>3, <1>8
  <1> HIDE DEF n
  <1> QED BY <1>2, <1>3, <1>4, <1>7, <1>9, <1>10, <1>11 DEF p

\* A string is printed.
LEMMA TextStep ==
  ASSUME IInv, WriteText
  PROVE  \E q :
           /\ Building /\ graph' = [graph EXCEPT !.IOBuf = Append(@, len + 1)]
           /\ q.op = "write_s" /\ q.no = len + 1
           /\ before' = Exec(before, q) /\ len' = len + 1
           /\ seen' = seen \cup {Zero}
           /\ (~rebound' => ~rebound) /\ (~shared' => ~shared)
  <1> DEFINE q == Quad("write_s", Zero, Zero, Zero, len + 1)
  <1>1. /\ Building /\ graph' = [graph EXCEPT !.IOBuf = Append(@, len + 1)]
        /\ len' = len + Len(<<q>>) /\ before' = Run(before, <<q>>)
        /\ rebound' = (rebound \/ FALSE) /\ shared' = (shared \/ FALSE)
        /\ seen' = seen \cup {e.d : e \in Range(<<q>>)} \cup {e.a : e \in Range(<<q>>)}
                        \cup {e.b : e \in Range(<<q>>)}
    BY DEF WriteText, Add, Building
  <1>2. /\ q.op = "write_s" /\ q.d = Zero /\ q.no = len + 1 /\ q.a = Zero /\ q.b = Zero
    BY DEF Quad
  <1> HIDE DEF q
  <1>3. Len(<<q>>) = 1 /\ Range(<<q>>) = {q}
    BY DEF Range
  <1>4. before' = Exec(before, q)
    BY <1>1, RunOne
  <1>5. (~rebound' => ~rebound) /\ (~shared' => ~shared) /\ len' = len + 1
    BY <1>1, <1>3
  <1>6. seen' = seen \cup {Zero}
    BY <1>1, <1>2, <1>3
  <1> QED BY <1>1, <1>2, <1>4, <1>5, <1>6

-------------------------------------------------------------------------------
(* Reading and printing in order: building.                                *)

LEMMA BuiltQuiet ==
  ASSUME NEW g, NEW h, NEW q, Assigns(q), NEW hit, Built(g, h, q, hit)
  PROVE  Quiet(g, h) /\ Graph(h)
  <1>1. PICK g1, g2, l, r, k :
          /\ UsedFor(g, g1, q.a, l) /\ UsedFor(g1, g2, q.b, r)
          /\ OperationFor(g2, h, q.op, q.d, l, r, k)
    BY DEF Built
  <1>2. Quiet(g, g1)
    BY <1>1, HasNodeQuiet DEF UsedFor
  <1>3. Quiet(g1, g2)
    BY <1>1, HasNodeQuiet DEF UsedFor
  <1>4. Quiet(g2, h)
    BY <1>1, OperationQuiet DEF Assigns
  <1>5. Quiet(g, g2)
    BY <1>2, <1>3, QuietTwice
  <1> QED BY <1>1, <1>4, <1>5, QuietTwice DEF OperationFor

LEMMA TogetherQuiet ==
  ASSUME NEW g, NEW b, NEW a, NEW p \in Nat, Together(g, b, a, p, 0),
         NEW h, Quiet(g, h), NEW c, Machine(c), c.io = b.io, NEW r \in Nat, p <= r
  PROVE  Together(h, c, a, r, 0)
  <1>1. Machine(a) /\ Machine(b) /\ InTime(b, p) /\ Dated(g, p) /\ Follows(b, a, Events(g, 0))
    BY DEF Together
  <1>2. Dated(h, r) /\ Events(h, 0) = Events(g, 0)
    BY <1>1, QuietSame
  <1>3. \A i : Happened(c, i) = Happened(b, i)
    BY DEF Happened
  <1>4. Follows(c, a, Events(h, 0))
    BY <1>1, <1>2, <1>3 DEF Follows
  <1>5. InTime(c, r)
    BY <1>1 DEF InTime
  <1> QED BY <1>1, <1>2, <1>4, <1>5 DEF Together

LEMMA TogetherInOut ==
  ASSUME NEW g, NEW b, NEW a, NEW p \in Nat, Together(g, b, a, p, 0), NEW r \in Nat, p < r,
         NEW h, NEW op \in InOutOps, NEW k, NEW n, InOutFor(g, h, op, k, r, n),
         NEW e, e[2] = r, e[1] = IF op = "read" THEN "in" ELSE "out",
         NEW c, Machine(c), c.io = Append(b.io, e)
  PROVE  Together(h, c, a, r, 0)
  <1>1. Machine(a) /\ Machine(b) /\ InTime(b, p) /\ Dated(g, p) /\ Follows(b, a, Events(g, 0))
    BY DEF Together
  <1>2. Dated(h, r) /\ Events(h, 0) = Events(g, 0) \cup {Event(h.G[n])}
    BY <1>1, InOutMore
  <1>3. h.G[n].op = op /\ h.G[n].rhs = r
    BY DEF InOutFor
  <1>4. Event(h.G[n]) = <<e[1], r>>
    BY <1>3 DEF Event
  <1>5. InTime(c, r) /\ Follows(c, a, Events(g, 0) \cup {<<e[1], r>>})
    BY <1>1, OneMoreHappened
  <1>6. Follows(c, a, Events(h, 0))
    BY <1>2, <1>4, <1>5
  <1> QED BY <1>1, <1>2, <1>5, <1>6 DEF Together

LEMMA TogetherText ==
  ASSUME NEW g, Graph(g), NEW b, NEW a, NEW p \in Nat, Together(g, b, a, p, 0),
         NEW r \in Nat, p < r, NEW h, h = [g EXCEPT !.IOBuf = Append(@, r)],
         NEW c, Machine(c), c.io = Append(b.io, <<"text", r>>)
  PROVE  Together(h, c, a, r, 0)
  <1> DEFINE e == <<"text", r>>
  <1>1. Machine(a) /\ Machine(b) /\ InTime(b, p) /\ Dated(g, p) /\ Follows(b, a, Events(g, 0))
    BY DEF Together
  <1>2. Dated(h, r) /\ Events(h, 0) = Events(g, 0) \cup {<<"text", r>>}
    BY <1>1, StringMore
  <1>3. e[1] = "text" /\ e[2] = r /\ c.io = Append(b.io, e)
    OBVIOUS
  <1> HIDE DEF e
  <1>4. InTime(c, r) /\ Follows(c, a, Events(g, 0) \cup {<<e[1], r>>})
    BY <1>1, <1>3, OneMoreHappened
  <1>5. Follows(c, a, Events(h, 0))
    BY <1>2, <1>3, <1>4
  <1> QED BY <1>1, <1>2, <1>4, <1>5 DEF Together

\* The nodes exported so far.
Exported == IF phase \in {"build", "order"} THEN 0 ELSE Len(graph.G) - Len(stack)

\* The nodes still to be exported are on the stack, the next one on top.
Stacked ==
    /\ phase \in {"build", "order"} => after = Start
    /\ phase = "export" =>
         /\ stack \in Seq(Nat) /\ Len(stack) <= Len(graph.G)
         /\ \A i \in 1..Len(stack) : stack[i] = Len(graph.G) + 1 - i
    /\ phase = "end" => stack = <<>> /\ graph.IOBuf = <<>>

\* What the exported block has not read and printed yet is what the nodes left
\* and the strings left will.
XInv == IInv /\ Stacked /\ Together(graph, before, after, len, Exported)

LEMMA BuildingXInv ==
  ASSUME XInv, IInv', Building, Together(graph', before', after, len', 0)
  PROVE  XInv'
  <1>1. Exported' = 0 /\ after' = after /\ phase' = "build" /\ after = Start
    BY DEF Building, Exported, XInv, Stacked
  <1>2. Together(graph', before', after', len', Exported')
    BY <1>1
  <1>3. Stacked'
    BY <1>1 DEF Stacked
  <1> QED BY <1>2, <1>3 DEF XInv

LEMMA StillBuilding ==
  ASSUME XInv, Building
  PROVE  /\ Together(graph, before, after, len, 0) /\ Machine(before) /\ len \in Nat
         /\ Graph(graph) /\ IInv
  <1>1. Exported = 0
    BY DEF Building, Exported
  <1> QED BY <1>1 DEF XInv, IInv, Together

LEMMA OperationXInv ==
  ASSUME XInv, IInv', Move \/ Arithmetic \/ LoadElem \/ StoreElem PROVE XInv'
  <1>1. PICK q, hit : /\ Building /\ Assigns(q) /\ Built(graph, graph', q, hit)
                      /\ before' = Exec(before, q) /\ len' = len + 1
    BY OperationStep DEF XInv
  <1>2. /\ Together(graph, before, after, len, 0) /\ Machine(before) /\ len \in Nat
        /\ len + 1 \in Nat /\ len <= len + 1
    BY <1>1, StillBuilding
  <1>3. Quiet(graph, graph')
    BY <1>1, BuiltQuiet
  <1>4. Machine(before') /\ before'.io = before.io
    BY <1>1, <1>2, ExecAssign DEF Assigns
  <1>5. Together(graph', before', after, len', 0)
    BY <1>1, <1>2, <1>3, <1>4, TogetherQuiet
  <1> QED BY <1>1, <1>5, BuildingXInv

LEMMA ReadXInv == ASSUME XInv, IInv', ReadVar PROVE XInv'
  <1>1. PICK x, q, q2, g, w, k, n, hit :
           /\ Building /\ Assigns(q) /\ q.d = x /\ Built(graph, g, q, hit)
           /\ LeafFor(g, w, x, k) /\ InOutFor(w, graph', "read", k, len + 2, n)
           /\ q2.op = "read" /\ q2.no = len + 2
           /\ before' = Exec(Exec(before, q), q2) /\ len' = len + 2
    BY ReadStep DEF XInv
  <1>2. /\ Together(graph, before, after, len, 0) /\ Machine(before) /\ len \in Nat
        /\ len + 2 \in Nat /\ len <= len /\ len < len + 2
    BY <1>1, StillBuilding
  <1> DEFINE s == Exec(before, q)
             t == Exec(s, q2)
  <1>3. Machine(s) /\ s.io = before.io
    BY <1>1, <1>2, ExecAssign DEF Assigns
  <1> HIDE DEF s
  <1>4. Machine(t) /\ t.io = Append(s.io, <<"in", q2.no>>)
    BY <1>1, <1>3, ExecRead
  <1> HIDE DEF t
  <1>5. Quiet(graph, g) /\ Graph(g)
    BY <1>1, BuiltQuiet
  <1>6. Quiet(g, w)
    BY <1>1, HasNodeQuiet DEF LeafFor
  <1>7. Quiet(graph, w)
    BY <1>5, <1>6, QuietTwice
  <1>8. Together(w, s, after, len, 0)
    BY <1>2, <1>3, <1>7, TogetherQuiet
  <1> DEFINE e == <<"in", len + 2>>
  <1>9. /\ t.io = Append(s.io, e) /\ e[2] = len + 2 /\ "read" \in InOutOps
        /\ e[1] = IF "read" = "read" THEN "in" ELSE "out"
    BY <1>1, <1>4 DEF InOutOps
  <1> HIDE DEF e
  <1>10. Together(graph', t, after, len + 2, 0)
    BY <1>1, <1>2, <1>4, <1>8, <1>9, TogetherInOut
  <1>11. Together(graph', before', after, len', 0)
    BY <1>1, <1>10 DEF t, s
  <1> QED BY <1>1, <1>11, BuildingXInv

LEMMA WriteXInv == ASSUME XInv, IInv', Write PROVE XInv'
  <1>1. PICK x \in Value : \E q, w, k, n :
           /\ Building /\ LeafFor(graph, w, x, k) /\ InOutFor(w, graph', "write_e", k, len + 1, n)
           /\ q.op = "write_e" /\ q.d = x /\ q.no = len + 1
           /\ before' = Exec(before, q) /\ len' = len + 1
    BY WriteStep DEF XInv
  <1>2. PICK q, w, k, n :
           /\ Building /\ LeafFor(graph, w, x, k) /\ InOutFor(w, graph', "write_e", k, len + 1, n)
           /\ q.op = "write_e" /\ q.d = x /\ q.no = len + 1
           /\ before' = Exec(before, q) /\ len' = len + 1
    BY <1>1
  <1>3. /\ Together(graph, before, after, len, 0) /\ Machine(before) /\ len \in Nat
        /\ len + 1 \in Nat /\ len <= len /\ len < len + 1
    BY <1>2, StillBuilding
  <1> DEFINE t == Exec(before, q)
             e == <<"out", len + 1, before.val[x]>>
  <1>4. Machine(t) /\ t.io = Append(before.io, e)
    BY <1>2, <1>3, ExecWrite
  <1> HIDE DEF t
  <1>5. Quiet(graph, w)
    BY <1>2, HasNodeQuiet DEF LeafFor
  <1>6. Together(w, before, after, len, 0)
    BY <1>3, <1>5, TogetherQuiet
  <1>7. /\ e[2] = len + 1 /\ "write_e" \in InOutOps
        /\ e[1] = IF "write_e" = "read" THEN "in" ELSE "out"
    BY DEF InOutOps
  <1> HIDE DEF e
  <1>8. Together(graph', t, after, len + 1, 0)
    BY <1>2, <1>3, <1>4, <1>6, <1>7, TogetherInOut
  <1>9. Together(graph', before', after, len', 0)
    BY <1>2, <1>8 DEF t
  <1> QED BY <1>2, <1>9, BuildingXInv

LEMMA TextXInv == ASSUME XInv, IInv', WriteText PROVE XInv'
  <1>1. PICK q : /\ Building /\ graph' = [graph EXCEPT !.IOBuf = Append(@, len + 1)]
                 /\ q.op = "write_s" /\ q.no = len + 1
                 /\ before' = Exec(before, q) /\ len' = len + 1
    BY TextStep DEF XInv
  <1>2. /\ Together(graph, before, after, len, 0) /\ Machine(before) /\ len \in Nat
        /\ len + 1 \in Nat /\ len < len + 1 /\ Graph(graph)
    BY <1>1, StillBuilding
  <1> DEFINE t == Exec(before, q)
  <1>3. Machine(t) /\ t.io = Append(before.io, <<"text", len + 1>>)
    BY <1>1, <1>2, ExecText
  <1> HIDE DEF t
  <1> DEFINE h == [graph EXCEPT !.IOBuf = Append(@, len + 1)]
  <1>4. h = [graph EXCEPT !.IOBuf = Append(@, len + 1)]
    OBVIOUS
  <1> HIDE DEF h
  <1>5. Together(h, t, after, len + 1, 0)
    BY <1>2, <1>3, <1>4, TogetherText
  <1>6. Together(graph', before', after, len', 0)
    BY <1>1, <1>5 DEF t, h
  <1> QED BY <1>1, <1>6, BuildingXInv

-------------------------------------------------------------------------------
(* The copies of a node.                                                   *)

\* A name the node stands for that is copied to.
ToCopy(node, j) == node.items[j] # node.item /\ node.items[j].name # Zero
CopyNext(f, node, i) ==
    IF i = 0 THEN <<>>
    ELSE IF node.items[i] = node.item \/ node.items[i].name = Zero THEN f[i - 1]
    ELSE Append(f[i - 1], Quad("=", node.items[i].name, node.item.name, Zero, 0))
CopyList(f, node, l) == f = [i \in 0..l |-> CopyNext(f, node, i)]

\* The function in the definition of Copies exists, for lists of any length.
LEMMA CopiesExist ==
  ASSUME NEW node, NEW l \in Nat
  PROVE  \E f : CopyList(f, node, l)
  <1> DEFINE bad == {m \in Nat : ~ \E f : CopyList(f, node, m)}
  <1>1. ASSUME bad # {} PROVE FALSE
    <2>1. PICK m \in bad : \A k \in bad : m <= k
      <3>1. bad \in SUBSET Nat
        OBVIOUS
      <3> HIDE DEF bad
      <3> QED BY <1>1, <3>1, Least
    <2>2. CASE m = 0
      <3> DEFINE f == [i \in 0..0 |-> <<>>]
      <3>1. f = [i \in 0..0 |-> CopyNext(f, node, i)]
        BY DEF CopyNext
      <3>2. CopyList(f, node, 0)
        BY <3>1 DEF CopyList
      <3> QED BY <2>1, <2>2, <3>2
    <2>3. CASE m # 0
      <3>1. m - 1 \in Nat /\ m - 1 \notin bad /\ m \in Nat \ {0}
        BY <2>1, <2>3
      <3>2. PICK f : f = [i \in 0..(m - 1) |-> CopyNext(f, node, i)]
        BY <3>1 DEF CopyList
      <3> DEFINE g == [i \in 0..m |-> IF i < m THEN f[i] ELSE CopyNext(f, node, m)]
                 h == [i \in 0..m |-> CopyNext(g, node, i)]
      <3>3. ASSUME NEW i \in 0..m PROVE g[i] = h[i]
        <4>1. i # 0 => i - 1 \in 0..m /\ i - 1 < m
          BY <3>1
        <4>2. i # 0 => g[i - 1] = f[i - 1]
          BY <4>1
        <4>3. CopyNext(g, node, i) = CopyNext(f, node, i)
          BY <4>2 DEF CopyNext
        <4>4. CASE i < m
          <5>1. i \in 0..(m - 1)
            BY <3>1, <4>4
          <5>2. f[i] = CopyNext(f, node, i)
            BY <3>2, <5>1
          <5> QED BY <4>3, <4>4, <5>2
        <4>5. CASE i = m
          BY <3>1, <4>3, <4>5
        <4> QED BY <3>1, <4>4, <4>5
      <3>4. g = h
        BY <3>3
      <3>5. CopyList(g, node, m)
        BY <3>4 DEF CopyList
      <3> HIDE DEF g
      <3> QED BY <2>1, <3>5
    <2> QED BY <2>2, <2>3
  <1>2. l \notin bad
    BY <1>1
  <1> QED BY <1>2

\* The names copied to by the first i values.
Copied(node, i) == {node.items[j].name : j \in {k \in 1..i : ToCopy(node, k)}}

\* From a to t they have been given the value of the node; nothing else has
\* happened.
CopiesDone(a, t, node, i) ==
    /\ Machine(t) /\ t.io = a.io
    /\ node.item.name \in Value \/ Copied(node, i) = {} =>
         /\ \A v \in Value \cap Copied(node, i) : t.val[v] = a.val[node.item.name]
         /\ \A v \in Value \ Copied(node, i) : t.val[v] = a.val[v]

LEMMA CopyDone ==
  ASSUME NEW a, Machine(a), NEW node, NEW j \in Nat, NEW i, i = j + 1,
         NEW s, CopiesDone(a, s, node, j), ToCopy(node, i)
  PROVE  CopiesDone(a, Exec(s, Quad("=", node.items[i].name, node.item.name, Zero, 0)), node, i)
  <1> DEFINE q == Quad("=", node.items[i].name, node.item.name, Zero, 0)
             x == node.items[i].name
             y == node.item.name
             t == Exec(s, q)
  <1>1. q.op = "=" /\ q.d = x /\ q.a = y
    BY DEF Quad
  <1>2. Machine(s) /\ s.io = a.io
    BY DEF CopiesDone
  <1> HIDE DEF q
  <1>3. Silent(q.op)
    BY <1>1 DEF Silent
  <1>4. /\ Machine(t) /\ t.io = s.io
        /\ t.val = Sets(s, q.d, Result(q.op, s.val[q.d], s.val[q.a], s.val[q.b]))
    BY <1>2, <1>3, ExecAssign
  <1>5. t.val = Sets(s, x, s.val[y])
    BY <1>1, <1>4 DEF Result
  <1> HIDE DEF t
  <1>6. Copied(node, i) = Copied(node, j) \cup {x}
    <2>1. \A k : k \in 1..i <=> k \in 1..j \/ k = i
      OBVIOUS
    <2> QED BY <2>1 DEF Copied
  <1>7. ASSUME y \in Value \/ Copied(node, i) = {}
        PROVE  /\ \A v \in Value \cap Copied(node, i) : t.val[v] = a.val[y]
               /\ \A v \in Value \ Copied(node, i) : t.val[v] = a.val[v]
    <2>0. y \in Value
      BY <1>6, <1>7
    <2>1. /\ \A v \in Value \cap Copied(node, j) : s.val[v] = a.val[y]
          /\ \A v \in Value \ Copied(node, j) : s.val[v] = a.val[v]
      BY <2>0 DEF CopiesDone
    <2>2. s.val[y] = a.val[y]
      BY <2>0, <2>1
    <2>3. \A v \in Value : t.val[v] = IF v = x THEN a.val[y] ELSE s.val[v]
      BY <1>5, <2>2 DEF Sets
    <2> HIDE DEF x, y
    <2> QED BY <1>6, <2>1, <2>3
  <1> QED BY <1>2, <1>4, <1>7 DEF CopiesDone, t, q

LEMMA CopiesRun ==
  ASSUME NEW a, Machine(a), NEW node, Len(node.items) \in Nat
  PROVE  CopiesDone(a, Run(a, Copies(node)), node, Len(node.items))
  <1> DEFINE l == Len(node.items)
             f == CHOOSE c : CopyList(c, node, l)
  <1>1. Copies(node) = f[l]
    BY DEF Copies, CopyList, CopyNext
  <1>2. l \in Nat
    OBVIOUS
  <1>3. f = [i \in 0..l |-> CopyNext(f, node, i)]
    <2> HIDE DEF l
    <2>1. \E c : CopyList(c, node, l)
      BY <1>2, CopiesExist
    <2>2. CopyList(f, node, l)
      BY <2>1, Zenon
    <2> QED BY <2>2 DEF CopyList
  <1> HIDE DEF f, l
  <1>4. \A i \in 0..l : f[i] = CopyNext(f, node, i)
    BY <1>3
  <1> DEFINE bad == {i \in 0..l : ~(IsSeq(f[i]) /\ CopiesDone(a, Run(a, f[i]), node, i))}
  <1>5. ASSUME bad # {} PROVE FALSE
    <2>1. PICK m \in bad : \A k \in bad : m <= k
      <3>1. bad \in SUBSET Nat
        BY <1>2
      <3> HIDE DEF bad
      <3> QED BY <1>5, <3>1, Least
    <2>2. m \in 0..l /\ ~(IsSeq(f[m]) /\ CopiesDone(a, Run(a, f[m]), node, m))
      BY <2>1
    <2>3. CASE m = 0
      <3>1. f[0] = <<>>
        BY <1>4, <2>2, <2>3 DEF CopyNext
      <3>2. IsSeq(<<>>)
        <4>1. <<>> \in Seq({})
          OBVIOUS
        <4> QED BY <4>1 DEF IsSeq
      <3>3. Run(a, <<>>) = a
        BY RunNone
      <3>4. Copied(node, 0) = {}
        BY DEF Copied
      <3>5. CopiesDone(a, a, node, 0)
        BY <3>4 DEF CopiesDone
      <3> QED BY <2>2, <2>3, <3>1, <3>2, <3>3, <3>5
    <2>4. CASE m # 0
      <3> DEFINE j == m - 1
                 q == Quad("=", node.items[m].name, node.item.name, Zero, 0)
      <3>1. m \in 0..l /\ j \in 0..l /\ j \in Nat /\ m = j + 1 /\ ~(m <= j)
        BY <1>2, <2>2, <2>4
      <3>2. j \notin bad
        <4> HIDE DEF bad
        <4> QED BY <2>1, <3>1
      <3>3. IsSeq(f[j]) /\ CopiesDone(a, Run(a, f[j]), node, j)
        BY <3>1, <3>2
      <3>4. f[m] = CopyNext(f, node, m)
        BY <1>4, <3>1
      <3>5. CASE ToCopy(node, m)
        <4>1. f[m] = Append(f[j], q)
          BY <2>4, <3>4, <3>5 DEF CopyNext, ToCopy
        <4> HIDE DEF q, j
        <4>2. Run(a, f[m]) = Exec(Run(a, f[j]), q) /\ IsSeq(f[m])
          BY <3>3, <4>1, RunAppend, Appended
        <4>3. CopiesDone(a, Exec(Run(a, f[j]), q), node, m)
          BY <3>1, <3>3, <3>5, CopyDone DEF q
        <4> QED BY <2>2, <4>2, <4>3
      <3>6. CASE ~ToCopy(node, m)
        <4>1. f[m] = f[j]
          BY <2>4, <3>4, <3>6 DEF CopyNext, ToCopy
        <4>2. Copied(node, m) = Copied(node, j)
          <5>1. \A k : k \in 1..m <=> k \in 1..j \/ k = m
            BY <3>1
          <5> QED BY <3>6, <5>1 DEF Copied
        <4>3. CopiesDone(a, Run(a, f[m]), node, m)
          BY <3>3, <4>1, <4>2 DEF CopiesDone
        <4> QED BY <2>2, <3>3, <4>1, <4>3
      <3> QED BY <3>5, <3>6
    <2> QED BY <2>3, <2>4
  <1>6. CopiesDone(a, Run(a, f[l]), node, l)
    <2>1. l \in 0..l
      BY <1>2
    <2> QED BY <1>5, <2>1
  <1> QED BY <1>1, <1>6 DEF l

\* A node copies to the names it stands for, but not to the one it computes.
LEMMA CopiedNames ==
  ASSUME NEW node, Len(node.items) \in Nat
  PROVE  /\ Copied(node, Len(node.items)) \subseteq Holds(node) \ {Zero}
         /\ Holds(node) \subseteq Copied(node, Len(node.items)) \cup {Zero, node.item.name}
  BY DEF Copied, Holds, Names, ToCopy

-------------------------------------------------------------------------------
(* Exporting a node.                                                       *)

\* The strings due before position p are the first ones, up to one not before p.
LEMMA DueIs ==
  ASSUME NEW buf, buf = graph.IOBuf, buf \in Seq(Nat), Rising(buf), NEW p \in Nat,
         NEW d, d = DueLen(p)
  PROVE  /\ d \in 0..Len(buf)
         /\ Due(p) \in Seq(Nat) /\ Len(Due(p)) = d
         /\ \A i \in 1..d : Due(p)[i] = buf[i] /\ buf[i] < p
         /\ NotDue(p) \in Seq(Nat) /\ Len(NotDue(p)) = Len(buf) - d
         /\ \A i \in 1..(Len(buf) - d) : NotDue(p)[i] = buf[d + i] /\ buf[d + i] >= p
  <1> DEFINE L == Len(buf)
             late == {i \in DOMAIN buf : buf[i] >= p}
  <1>1. L \in Nat /\ DOMAIN buf = 1..L /\ \A i \in 1..L : buf[i] \in Nat
    OBVIOUS
  <1>2. d = IF late = {} THEN L ELSE Min(late) - 1
    BY DEF DueLen
  <1>3. late \in SUBSET (1..L) /\ \A i \in 1..L : i \in late <=> buf[i] >= p
    BY <1>1
  <1>4. \A i, j \in 1..L : i < j => buf[i] < buf[j]
    BY DEF Rising
  <1>5. Due(p) = SubSeq(buf, 1, d) /\ NotDue(p) = SubSeq(buf, d + 1, L)
    BY DEF Due, NotDue
  <1> HIDE DEF L, late
  <1>6. /\ d \in 0..L
        /\ \A i \in 1..L : (i <= d => buf[i] < p) /\ (d < i => buf[i] >= p)
    <2>1. CASE late = {}
      <3>1. d = L
        BY <1>2, <2>1
      <3>2. \A i \in 1..L : ~(buf[i] >= p)
        BY <1>3, <2>1
      <3> QED BY <1>1, <3>1, <3>2
    <2>2. CASE late # {}
      <3>1. \E m \in late : \A k \in late : m <= k
        <4>1. late \in SUBSET Nat
          BY <1>1, <1>3
        <4> QED BY <2>2, <4>1, Least
      <3>2. Min(late) \in late /\ \A k \in late : Min(late) <= k
        BY <3>1 DEF Min
      <3> DEFINE m == Min(late)
      <3>3. m \in 1..L /\ buf[m] >= p /\ d = m - 1
        BY <1>2, <1>3, <2>2, <3>2
      <3>4. \A k \in late : m <= k
        BY <3>2
      <3> HIDE DEF m
      <3>5. ASSUME NEW i \in 1..L, i <= d PROVE buf[i] < p
        <4>1. ~(m <= i)
          BY <1>1, <3>3, <3>5
        <4>2. ~(buf[i] >= p)
          BY <1>3, <3>4, <4>1
        <4> QED BY <1>1, <4>2
      <3>6. ASSUME NEW i \in 1..L, d < i PROVE buf[i] >= p
        <4>1. i = m \/ m < i
          BY <1>1, <3>3, <3>6
        <4>2. m < i => buf[m] < buf[i]
          BY <1>4, <3>3
        <4> QED BY <1>1, <3>3, <4>1, <4>2
      <3>7. d \in 0..L
        BY <1>1, <3>3
      <3> QED BY <3>5, <3>6, <3>7
    <2> QED BY <2>1, <2>2
  <1>7. /\ SubSeq(buf, 1, d) \in Seq(Nat) /\ Len(SubSeq(buf, 1, d)) = d
        /\ \A i \in 1..d : SubSeq(buf, 1, d)[i] = buf[i]
    <2>1. 1 \in Int /\ d \in Int /\ \A i \in 1..d : buf[i] \in Nat
      BY <1>1, <1>6
    <2>2. /\ SubSeq(buf, 1, d) \in Seq(Nat)
          /\ Len(SubSeq(buf, 1, d)) = IF 1 <= d THEN d - 1 + 1 ELSE 0
          /\ \A i \in 1..(d - 1 + 1) : SubSeq(buf, 1, d)[i] = buf[1 + i - 1]
      BY <2>1, SubSeqProperties
    <2>3. Len(SubSeq(buf, 1, d)) = d
      BY <1>1, <1>6, <2>2
    <2>4. \A i \in 1..d : i \in 1..(d - 1 + 1) /\ 1 + i - 1 = i
      BY <2>1
    <2> QED BY <2>2, <2>3, <2>4
  <1>8. /\ SubSeq(buf, d + 1, L) \in Seq(Nat) /\ Len(SubSeq(buf, d + 1, L)) = L - d
        /\ \A i \in 1..(L - d) : SubSeq(buf, d + 1, L)[i] = buf[d + i]
    <2> DEFINE e == d + 1
    <2>1. e \in Int /\ L \in Int /\ \A i \in e..L : buf[i] \in Nat
      BY <1>1, <1>6
    <2>2. /\ (IF e <= L THEN L - e + 1 ELSE 0) = L - d
          /\ \A i \in 1..(L - d) : i \in 1..(L - e + 1) /\ e + i - 1 = d + i
      BY <1>1, <1>6
    <2> HIDE DEF e
    <2>3. /\ SubSeq(buf, e, L) \in Seq(Nat)
          /\ Len(SubSeq(buf, e, L)) = IF e <= L THEN L - e + 1 ELSE 0
          /\ \A i \in 1..(L - e + 1) : SubSeq(buf, e, L)[i] = buf[e + i - 1]
      BY <2>1, SubSeqProperties
    <2>4. /\ SubSeq(buf, e, L) \in Seq(Nat) /\ Len(SubSeq(buf, e, L)) = L - d
          /\ \A i \in 1..(L - d) : SubSeq(buf, e, L)[i] = buf[d + i]
      BY <2>2, <2>3
    <2> QED BY <2>4 DEF e
  <1>9. \A i \in 1..d : i \in 1..L /\ i <= d
    BY <1>1, <1>6
  <1>10. \A i \in 1..(L - d) : d + i \in 1..L /\ d < d + i
    BY <1>1, <1>6
  <1> QED BY <1>5, <1>6, <1>7, <1>8, <1>9, <1>10 DEF L

\* ps are the first d positions of buf, those before r, and qs the others.
Splits(buf, r, d, ps, qs) ==
    /\ d \in 0..Len(buf) /\ ps \in Seq(Nat) /\ Len(ps) = d
    /\ \A i \in 1..d : ps[i] = buf[i] /\ buf[i] < r
    /\ qs \in Seq(Nat) /\ Len(qs) = Len(buf) - d
    /\ \A i \in 1..(Len(buf) - d) : qs[i] = buf[d + i] /\ buf[d + i] >= r

LEMMA DueSplits ==
  ASSUME graph.IOBuf \in Seq(Nat), Rising(graph.IOBuf), NEW p \in Nat
  PROVE  Splits(graph.IOBuf, p, DueLen(p), Due(p), NotDue(p))
  BY DueIs DEF Splits

\* The quadruples of each kind of node.
LEMMA TransLeaf ==
  ASSUME NEW a, NEW node, Leaf(node) PROVE Run(a, Trans(node)) = a
  <1>1. Trans(node) = <<>>
    BY DEF Trans, Leaf
  <1> QED BY <1>1, RunNone

LEMMA TransInOut ==
  ASSUME NEW a, Machine(a), NEW node, node.op \in InOutOps, Due(node.rhs) \in Seq(Nat)
  PROVE  \E q : /\ q.op = node.op /\ q.d = NameOf(node.lhs) /\ q.no = node.rhs
                /\ Run(a, Trans(node)) = Exec(Run(a, Texts(Due(node.rhs))), q)
  <1> DEFINE q == Quad(node.op, NameOf(node.lhs), Zero, Zero, node.rhs)
             ps == Due(node.rhs)
  <1>1. q.op = node.op /\ q.d = NameOf(node.lhs) /\ q.no = node.rhs
    BY DEF Quad
  <1>2. Trans(node) = Append(Texts(ps), q)
    BY DEF Trans, InOutOps, Leaf
  <1> HIDE DEF q, ps
  <1>3. IsSeq(Texts(ps))
    BY TextsRun DEF ps
  <1>4. Run(a, Append(Texts(ps), q)) = Exec(Run(a, Texts(ps)), q)
    BY <1>3, RunAppend
  <1> QED BY <1>1, <1>2, <1>4 DEF ps

LEMMA TransOther ==
  ASSUME NEW a, NEW node, ~Leaf(node), node.op \notin InOutOps
  PROVE  \E q : /\ q.op = node.op /\ q.d = node.item.name /\ q.a = NameOf(node.lhs)
                /\ q.op # "=" => q.b = NameOf(node.rhs)
                /\ Run(a, Trans(node)) = Exec(a, q)
  <1> DEFINE q == Quad(node.op, node.item.name, NameOf(node.lhs),
                       IF node.op = "=" THEN Zero ELSE NameOf(node.rhs), 0)
  <1>1. /\ q.op = node.op /\ q.d = node.item.name /\ q.a = NameOf(node.lhs)
        /\ q.op # "=" => q.b = NameOf(node.rhs)
    BY DEF Quad
  <1>2. Trans(node) = <<q>>
    BY DEF Trans, InOutOps
  <1> HIDE DEF q
  <1>3. Run(a, Trans(node)) = Exec(a, q)
    BY <1>2, RunOne
  <1> QED BY <1>1, <1>3

\* The node exported is the one after those exported so far.
LEMMA ExportStep ==
  ASSUME XInv, Export
  PROVE  \E k, node :
           /\ k \in 1..Len(graph.G) /\ Exported = k - 1 /\ Exported' = k /\ node = graph.G[k]
           /\ after' = Run(Run(after, Trans(node)), Copies(node))
           /\ graph' = IF node.op \in InOutOps THEN [graph EXCEPT !.IOBuf = NotDue(node.rhs)]
                       ELSE graph
           /\ graph'.G = graph.G /\ graph'.record = graph.record
           /\ UNCHANGED <<phase, len, seen, rebound, shared, before>> /\ phase = "export"
           /\ Stacked'
  <1> DEFINE G == graph.G
             m == Len(stack)
             k == Len(G) + 1 - m
             node == G[k]
  <1>1. /\ phase = "export" /\ stack # <<>> /\ stack' = Front(stack)
        /\ UNCHANGED <<phase, len, seen, rebound, shared, before>>
    BY DEF Export
  <1>2. /\ stack \in Seq(Nat) /\ m \in Nat /\ m <= Len(G)
        /\ \A i \in 1..m : stack[i] = Len(G) + 1 - i
    BY <1>1 DEF XInv, Stacked
  <1>3. Graph(graph) /\ Len(G) \in Nat
    BY GraphFacts DEF XInv, IInv
  <1>4. m # 0
    BY <1>1, <1>2
  <1>5. k \in 1..Len(G) /\ Last(stack) = k /\ Len(G) - m = k - 1
    <2>1. Last(stack) = stack[m] /\ m \in 1..m
      BY <1>2, <1>4 DEF Last
    <2> HIDE DEF m, G
    <2> QED BY <1>2, <1>3, <1>4, <2>1
  <1>6. /\ after' = Run(Run(after, Trans(node)), Copies(node))
        /\ graph' = IF node.op \in InOutOps THEN [graph EXCEPT !.IOBuf = NotDue(node.rhs)]
                    ELSE graph
    <2>1. \A j : j = Last(stack) /\ j = k => G[Last(stack)] = G[k]
      OBVIOUS
    <2> QED BY <1>5, <2>1 DEF Export, InOutOps
  <1>7. graph'.G = G /\ graph'.record = graph.record
    <2>1. \A buf : /\ [graph EXCEPT !.IOBuf = buf].G = graph.G
                   /\ [graph EXCEPT !.IOBuf = buf].record = graph.record
      BY <1>3, OtherBuf
    <2> QED BY <1>6, <2>1
  <1>8. /\ stack' \in Seq(Nat) /\ Len(stack') = m - 1
        /\ \A i \in 1..(m - 1) : stack'[i] = stack[i]
    <2> DEFINE l == m - 1
    <2>1. 1 \in Int /\ l \in Int /\ l >= 0 /\ \A i \in 1..l : stack[i] \in Nat
      BY <1>2, <1>4
    <2>2. stack' = SubSeq(stack, 1, l)
      BY <1>1 DEF Front
    <2> HIDE DEF l, m
    <2>3. /\ SubSeq(stack, 1, l) \in Seq(Nat)
          /\ Len(SubSeq(stack, 1, l)) = IF 1 <= l THEN l - 1 + 1 ELSE 0
          /\ \A i \in 1..(l - 1 + 1) : SubSeq(stack, 1, l)[i] = stack[1 + i - 1]
      BY <2>1, SubSeqProperties
    <2>4. (IF 1 <= l THEN l - 1 + 1 ELSE 0) = l
      BY <2>1
    <2>5. \A i \in 1..l : i \in 1..(l - 1 + 1) /\ 1 + i - 1 = i
      BY <2>1
    <2> QED BY <2>2, <2>3, <2>4, <2>5 DEF l
  <1>9. Exported = k - 1
    BY <1>1, <1>5 DEF Exported
  <1> HIDE DEF k, m, node
  <1>10. Exported' = k
    <2>1. Exported' = Len(graph'.G) - Len(stack')
      BY <1>1 DEF Exported
    <2> QED BY <1>2, <1>3, <1>7, <1>8, <2>1 DEF k
  <1>11. Stacked'
    <2>1. phase' = "export"
      BY <1>1
    <2>2. Len(stack') <= Len(graph'.G)
      BY <1>2, <1>3, <1>7, <1>8
    <2>3. \A i \in 1..Len(stack') : stack'[i] = Len(graph'.G) + 1 - i
      <3>1. \A i \in 1..(m - 1) : i \in 1..m
        BY <1>2
      <3> QED BY <1>2, <1>7, <1>8, <3>1
    <2> QED BY <1>8, <2>1, <2>2, <2>3 DEF Stacked
  <1> QED BY <1>1, <1>5, <1>6, <1>7, <1>9, <1>10, <1>11 DEF node

\* From a to s a node that neither reads nor writes has been computed.
Computed(a, s, node) ==
    /\ Machine(s) /\ s.io = a.io
    /\ Leaf(node) => s = a
    /\ ~Leaf(node) => s.val = Sets(a, node.item.name,
                                   Result(node.op, a.val[node.item.name],
                                          a.val[NameOf(node.lhs)], a.val[NameOf(node.rhs)]))

LEMMA ComputedIs ==
  ASSUME NEW a, Machine(a), NEW node, node.op \in Ops, node.op \notin InOutOps
  PROVE  Computed(a, Run(a, Trans(node)), node)
  <1>1. CASE Leaf(node)
    <2>1. Run(a, Trans(node)) = a
      BY <1>1, TransLeaf
    <2> QED BY <1>1, <2>1 DEF Computed
  <1>2. CASE ~Leaf(node)
    <2>1. PICK q : /\ q.op = node.op /\ q.d = node.item.name /\ q.a = NameOf(node.lhs)
                   /\ q.op # "=" => q.b = NameOf(node.rhs)
                   /\ Run(a, Trans(node)) = Exec(a, q)
      BY <1>2, TransOther
    <2>2. Silent(q.op)
      BY <2>1, BlockAssumption DEF Silent, Ops, InOutOps
    <2> DEFINE s == Run(a, Trans(node))
    <2>3. /\ Machine(s) /\ s.io = a.io
          /\ s.val = Sets(a, q.d, Result(q.op, a.val[q.d], a.val[q.a], a.val[q.b]))
      BY <2>1, <2>2, ExecAssign
    <2> HIDE DEF s
    <2>4. \A o, v, w, x : Result("=", o, v, w) = Result("=", o, v, x)
      BY DEF Result
    <2>5. Result(q.op, a.val[q.d], a.val[q.a], a.val[q.b])
            = Result(node.op, a.val[node.item.name], a.val[NameOf(node.lhs)], a.val[NameOf(node.rhs)])
      <3>1. CASE q.op = "="
        BY <2>1, <2>4, <3>1
      <3>2. CASE q.op # "="
        BY <2>1, <3>2
      <3> QED BY <3>1, <3>2
    <2>6. s.val = Sets(a, node.item.name,
                       Result(node.op, a.val[node.item.name],
                              a.val[NameOf(node.lhs)], a.val[NameOf(node.rhs)]))
      BY <2>1, <2>3, <2>5
    <2> QED BY <1>2, <2>3, <2>6 DEF Computed, s
  <1> QED BY <1>1, <1>2

\* From a to s the strings due have been printed, up to t, then the node has
\* been read or written.
Done(a, t, s, node) ==
    /\ Prints(a, t, Due(node.rhs), Len(Due(node.rhs))) /\ Machine(s)
    /\ node.op = "read" => /\ s.io = Append(t.io, <<"in", node.rhs>>)
                           /\ s.val = Sets(a, NameOf(node.lhs), <<"input", Inputs(a) + 1>>)
    /\ node.op = "write_e" => /\ s.io = Append(t.io, <<"out", node.rhs, a.val[NameOf(node.lhs)]>>)
                              /\ s.val = a.val

LEMMA DoneIs ==
  ASSUME NEW a, Machine(a), NEW node, node.op \in InOutOps, Due(node.rhs) \in Seq(Nat)
  PROVE  \E t : Done(a, t, Run(a, Trans(node)), node)
  <1> DEFINE ps == Due(node.rhs)
             t == Run(a, Texts(ps))
             s == Run(a, Trans(node))
  <1>1. PICK q : /\ q.op = node.op /\ q.d = NameOf(node.lhs) /\ q.no = node.rhs
                 /\ s = Exec(t, q)
    BY TransInOut
  <1>2. Prints(a, t, ps, Len(ps))
    BY TextsRun
  <1> HIDE DEF t, s, ps
  <1>3. Machine(t) /\ t.val = a.val /\ Inputs(t) = Inputs(a)
    BY <1>2 DEF Prints
  <1>4. CASE node.op = "read"
    <2>1. /\ Machine(s) /\ s.io = Append(t.io, <<"in", q.no>>)
          /\ s.val = Sets(t, q.d, <<"input", Inputs(t) + 1>>)
      BY <1>1, <1>3, <1>4, ExecRead
    <2>2. s.val = Sets(a, NameOf(node.lhs), <<"input", Inputs(a) + 1>>)
      BY <1>1, <1>3, <2>1 DEF Sets
    <2>3. Done(a, t, s, node)
      BY <1>1, <1>2, <1>4, <2>1, <2>2 DEF Done, ps
    <2> QED BY <2>3 DEF s
  <1>5. CASE node.op = "write_e"
    <2>1. Machine(s) /\ s.val = t.val /\ s.io = Append(t.io, <<"out", q.no, t.val[q.d]>>)
      BY <1>1, <1>3, <1>5, ExecWrite
    <2>2. Done(a, t, s, node)
      BY <1>1, <1>2, <1>3, <1>5, <2>1 DEF Done, ps
    <2> QED BY <2>2 DEF s
  <1> QED BY <1>4, <1>5 DEF InOutOps

\* Two events of a block are not at one position.
LEMMA EventsApart ==
  ASSUME NEW b, Machine(b), NEW p, InTime(b, p), NEW a, Machine(a), NEW E, Follows(b, a, E),
         NEW d \in E, NEW e \in E, d[2] = e[2]
  PROVE  d = e
  <1> DEFINE n == Len(a.io)
             N == Len(b.io)
  <1>1. N \in Nat /\ n \in Nat
    BY SeqFacts DEF Machine
  <1>2. {Happened(b, i) : i \in (n + 1)..N} = E
    BY DEF Follows
  <1>3. /\ \A i \in 1..N : b.io[i][2] \in 1..p
        /\ \A i, j \in 1..N : i < j => b.io[i][2] < b.io[j][2]
    BY DEF InTime
  <1> HIDE DEF n, N
  <1>4. PICK i \in (n + 1)..N : d = Happened(b, i)
    BY <1>2
  <1>5. PICK j \in (n + 1)..N : e = Happened(b, j)
    BY <1>2
  <1>6. i \in 1..N /\ j \in 1..N
    BY <1>1
  <1>7. b.io[i][2] = b.io[j][2] /\ b.io[i][2] \in Nat
    BY <1>3, <1>4, <1>5, <1>6 DEF Happened
  <1>8. ~(i < j) /\ ~(j < i)
    BY <1>3, <1>6, <1>7
  <1>9. i = j
    BY <1>6, <1>8
  <1> QED BY <1>4, <1>5, <1>9

\* The events of node k and of the strings due before it come first.
LEMMA EventsSplit ==
  ASSUME Graph(graph), NEW p \in Nat, Dated(graph, p), NEW k \in 1..Len(graph.G),
         NEW node, node = graph.G[k], node.op \in InOutOps,
         NEW b, Machine(b), InTime(b, p), NEW a, Machine(a), Follows(b, a, Events(graph, k - 1)),
         NEW h, h.G = graph.G, h.IOBuf = NotDue(node.rhs)
  PROVE  LET D == Strings(Due(node.rhs)) \cup {Event(node)}
         IN /\ D \subseteq Events(graph, k - 1)
            /\ Events(h, k) = Events(graph, k - 1) \ D
            /\ \A e \in Events(h, k) : e[2] \in Nat /\ node.rhs < e[2]
  <1> DEFINE buf == graph.IOBuf
             G == graph.G
             r == node.rhs
             d == DueLen(r)
             L == Len(buf)
             E == Events(graph, k - 1)
             S == Strings(Due(r))
             T == Strings(NotDue(r))
             R == {Event(G[j]) : j \in InOuts(G, k)}
  <1>1. buf \in Seq(Nat) /\ Rising(buf) /\ L \in Nat
    BY DEF Dated
  <1>2. Len(G) \in Nat
    BY GraphFacts
  <1>3. k \in InOuts(G, 0) /\ r \in Nat
    <2>1. k \in InOuts(G, 0)
      BY DEF InOuts
    <2> QED BY <2>1 DEF Dated
  <1>4. /\ d \in 0..L /\ Len(Due(r)) = d /\ Len(NotDue(r)) = L - d
        /\ \A i \in 1..d : Due(r)[i] = buf[i] /\ buf[i] < r
        /\ \A i \in 1..(L - d) : NotDue(r)[i] = buf[d + i] /\ buf[d + i] >= r
    <2> HIDE DEF d, r, buf
    <2> QED BY <1>1, <1>3, DueIs DEF d, buf
  <1>5. \A i \in 1..L : buf[i] \in Nat
    BY <1>1
  <1>6. \A j \in InOuts(G, k) : G[j].rhs \in Nat /\ r < G[j].rhs
    <2>1. \A j \in InOuts(G, k) : j \in InOuts(G, 0) /\ k < j
      BY DEF InOuts
    <2> QED BY <1>3, <2>1 DEF Dated
  <1>7. InOuts(G, k - 1) = InOuts(G, k) \cup {k}
    <2>1. \A j \in 1..Len(G) : k - 1 < j <=> k < j \/ j = k
      BY <1>2
    <2>2. k \in 1..Len(G) /\ k - 1 < k /\ G[k].op \in InOutOps
      BY <1>2
    <2> QED BY <2>1, <2>2 DEF InOuts
  <1> HIDE DEF d, L
  <1>8. /\ S = {<<"text", buf[i]>> : i \in 1..d}
         /\ T = {<<"text", buf[d + i]>> : i \in 1..(L - d)}
    <2> DEFINE ps == Due(r)
               qs == NotDue(r)
    <2>1. Len(ps) = d /\ \A i \in 1..d : ps[i] = buf[i]
      BY <1>4
    <2>2. Len(qs) = L - d /\ \A i \in 1..(L - d) : qs[i] = buf[d + i]
      BY <1>4
    <2> HIDE DEF ps, qs, buf
    <2>3. Strings(ps) = {<<"text", buf[i]>> : i \in 1..d}
      BY <2>1 DEF Strings
    <2>4. Strings(qs) = {<<"text", buf[d + i]>> : i \in 1..(L - d)}
      BY <2>2 DEF Strings
    <2> QED BY <2>3, <2>4 DEF ps, qs
  <1>9. Strings(buf) = S \cup T
    <2>1. \A i \in 1..L : i \in 1..d \/ (i - d \in 1..(L - d) /\ d + (i - d) = i)
      BY <1>1, <1>4
    <2>2. \A i \in 1..d : i \in 1..L
      BY <1>1, <1>4
    <2>3. \A i \in 1..(L - d) : d + i \in 1..L
      BY <1>1, <1>4
    <2>4. Strings(buf) = {<<"text", buf[i]>> : i \in 1..L}
      BY DEF Strings, L
    <2>5. S = {<<"text", buf[i]>> : i \in 1..d}
      BY <1>8
    <2>6. T = {<<"text", buf[d + i]>> : i \in 1..(L - d)}
      BY <1>8
    <2> HIDE DEF buf, S, T
    <2>7. ASSUME NEW e \in Strings(buf) PROVE e \in S \cup T
      <3>1. PICK i \in 1..L : e = <<"text", buf[i]>>
        BY <2>4
      <3>2. CASE i \in 1..d
        BY <2>5, <3>1, <3>2
      <3>3. CASE i - d \in 1..(L - d) /\ d + (i - d) = i
        <4>1. e = <<"text", buf[d + (i - d)]>>
          BY <3>1, <3>3
        <4> QED BY <2>6, <3>3, <4>1
      <3> QED BY <2>1, <3>2, <3>3
    <2>8. S \subseteq Strings(buf)
      BY <2>2, <2>4, <2>5
    <2>9. T \subseteq Strings(buf)
      BY <2>3, <2>4, <2>6
    <2> QED BY <2>7, <2>8, <2>9
  <1>10. E = S \cup T \cup R \cup {Event(node)}
    BY <1>7, <1>9 DEF Events
  <1>11. Events(h, k) = T \cup R
    BY DEF Events
  <1>12. /\ \A e \in S : e[1] = "text" /\ e[2] \in Nat /\ e[2] < r
         /\ \A e \in T : e[1] = "text" /\ e[2] \in Nat /\ e[2] >= r
    <2>1. \A i \in 1..d : i \in 1..L
      BY <1>1, <1>4 DEF L
    <2>2. \A i \in 1..(L - d) : d + i \in 1..L
      BY <1>1, <1>4 DEF L
    <2>3. S = {<<"text", buf[i]>> : i \in 1..d}
      BY <1>8
    <2>4. T = {<<"text", buf[d + i]>> : i \in 1..(L - d)}
      BY <1>8
    <2> HIDE DEF buf, S, T
    <2> QED BY <1>4, <1>5, <2>1, <2>2, <2>3, <2>4
  <1>13. \A e \in R : e[2] \in Nat /\ r < e[2]
    BY <1>6 DEF Event
  <1>14. Event(node)[2] = r /\ Event(node)[1] # "text"
    BY DEF Event
  <1> HIDE DEF S, T, R, E
  <1>15. \A e \in E : e[2] = r => e = Event(node)
    <2>1. Event(node) \in E /\ Follows(b, a, E)
      BY <1>10 DEF E
    <2> QED BY <1>14, <2>1, EventsApart
  <1>16. \A e \in T : r < e[2]
    <2> SUFFICES ASSUME NEW e \in T PROVE r < e[2]
      OBVIOUS
    <2>1. e \in E /\ e[2] \in Nat /\ e[2] >= r /\ e # Event(node)
      BY <1>10, <1>12, <1>14
    <2>2. e[2] # r
      BY <1>15, <2>1
    <2> QED BY <1>3, <2>1, <2>2
  <1>17. \A e \in T \cup R : e \notin S \cup {Event(node)} /\ e[2] \in Nat /\ r < e[2]
    <2>1. \A e \in T \cup R : r < e[2] /\ e[2] \in Nat
      BY <1>12, <1>13, <1>16
    <2>2. \A e \in S \cup {Event(node)} : e[2] \in Nat /\ ~(r < e[2])
      BY <1>3, <1>12, <1>14
    <2> QED BY <2>1, <2>2
  <1> QED BY <1>10, <1>11, <1>17 DEF S, E

\* Positions before r, events after it.
Early(ps, r) == \A i \in 1..Len(ps) : ps[i] < r
Late(E, r) == \A e \in E : e[2] \in Nat /\ r < e[2]

LEMMA GoesInOut ==
  ASSUME NEW a, Machine(a), NEW node, node.op \in InOutOps, node.rhs \in Nat,
         NEW ps, ps = Due(node.rhs), ps \in Seq(Nat), Rising(ps),
         Early(ps, node.rhs),
         NEW t, NEW s, Done(a, t, s, node), NEW u, u.io = s.io,
         NEW D, D = Strings(ps) \cup {Event(node)}, NEW E, D \subseteq E,
         Late(E \ D, node.rhs)
  PROVE  Goes(a, u, Len(ps) + 1, D, E)
  <1> DEFINE n == Len(a.io)
             l == Len(ps)
             m == l + 1
             r == node.rhs
  <1>1. n \in Nat /\ l \in Nat /\ m \in Nat
    BY SeqFacts DEF Machine
  <1>2. Prints(a, t, ps, l)
    BY DEF Done
  <1>3. PICK e : u.io = Append(t.io, e) /\ <<e[1], e[2]>> = Event(node) /\ e[2] = r
    <2>1. CASE node.op = "read"
      <3>1. u.io = Append(t.io, <<"in", r>>) /\ Event(node) = <<"in", r>>
        BY <2>1 DEF Done, Event
      <3> DEFINE e == <<"in", r>>
      <3>2. u.io = Append(t.io, e) /\ <<e[1], e[2]>> = Event(node) /\ e[2] = r
        BY <3>1
      <3> QED BY <3>2
    <2>2. CASE node.op = "write_e"
      <3>1. /\ u.io = Append(t.io, <<"out", r, a.val[NameOf(node.lhs)]>>)
            /\ Event(node) = <<"out", r>>
        BY <2>2 DEF Done, Event
      <3> DEFINE e == <<"out", r, a.val[NameOf(node.lhs)]>>
      <3>2. u.io = Append(t.io, e) /\ <<e[1], e[2]>> = Event(node) /\ e[2] = r
        BY <3>1
      <3> QED BY <3>2
    <2> QED BY <2>1, <2>2 DEF InOutOps
  <1> HIDE DEF n, l
  <1>4. /\ IsSeq(t.io) /\ Len(t.io) = n + l
        /\ \A i \in 1..n : t.io[i] = a.io[i]
        /\ \A j \in 1..l : t.io[n + j] = <<"text", ps[j]>>
    BY <1>2 DEF Prints, Machine, n
  <1>5. /\ Len(u.io) = n + l + 1 /\ u.io[n + l + 1] = e
        /\ \A i \in 1..(n + l) : u.io[i] = t.io[i]
    <2>1. /\ Len(u.io) = Len(t.io) + 1 /\ u.io[Len(t.io) + 1] = e
          /\ \A i \in 1..Len(t.io) : u.io[i] = t.io[i]
      BY <1>3, <1>4, Appended
    <2> QED BY <1>4, <2>1
  <1>6. \A i \in 1..n : u.io[i] = a.io[i]
    <2>1. \A i \in 1..n : i \in 1..(n + l)
      BY <1>1
    <2> QED BY <1>4, <1>5, <2>1
  <1>7. \A j \in 1..l : u.io[n + j] = <<"text", ps[j]>>
    <2>1. \A j \in 1..l : n + j \in 1..(n + l)
      BY <1>1
    <2> QED BY <1>4, <1>5, <2>1
  <1>8. n + m = n + l + 1 /\ \A j \in 1..m : j \in 1..l \/ j = m
    BY <1>1
  <1>9. u.io[n + m] = e
    BY <1>5, <1>8
  <1>10. (\A j \in 1..l : j \in 1..m) /\ m \in 1..m
    BY <1>1
  <1> HIDE DEF m
  <1>11. /\ \A j \in 1..l : Happened(u, n + j) = <<"text", ps[j]>>
         /\ Happened(u, n + m) = Event(node)
    <2>1. \A i : Happened(u, i) = <<u.io[i][1], u.io[i][2]>>
      BY DEF Happened
    <2>2. Happened(u, n + m) = Event(node)
      BY <1>3, <1>9, <2>1
    <2>3. \A j \in 1..l : Happened(u, n + j) = <<"text", ps[j]>>
      BY <1>7, <2>1
    <2> QED BY <2>2, <2>3
  <1>12. D = {Happened(u, n + j) : j \in 1..m}
    <2>1. Strings(ps) = {<<"text", ps[j]>> : j \in 1..l}
      BY DEF Strings, l
    <2> QED BY <1>8, <1>10, <1>11, <2>1
  <1>13. /\ \A j \in 1..l : u.io[n + j][2] = ps[j] /\ ps[j] \in Nat /\ ps[j] < r
         /\ u.io[n + m][2] = r
    <2>1. u.io[n + m][2] = r
      BY <1>3, <1>9
    <2>2. \A j \in 1..l : u.io[n + j][2] = ps[j]
      BY <1>7
    <2>3. \A j \in 1..l : ps[j] \in Nat /\ ps[j] < r
      BY DEF l, r, Early
    <2> QED BY <2>1, <2>2, <2>3
  <1>14. \A j, k \in 1..m : j < k => u.io[n + j][2] < u.io[n + k][2]
    <2> SUFFICES ASSUME NEW j \in 1..m, NEW k \in 1..m, j < k
                 PROVE  u.io[n + j][2] < u.io[n + k][2]
      OBVIOUS
    <2>1. j \in 1..l
      BY <1>1, <1>8 DEF m
    <2>2. CASE k \in 1..l
      <3>1. ps[j] < ps[k]
        BY <2>1, <2>2 DEF Rising, l
      <3> QED BY <1>13, <2>1, <2>2, <3>1
    <2>3. CASE k = m
      BY <1>13, <2>1, <2>3
    <2> QED BY <1>8, <2>2, <2>3
  <1>15. \A f \in E \ D, j \in 1..m : u.io[n + j][2] < f[2]
    <2> SUFFICES ASSUME NEW f \in E \ D, NEW j \in 1..m PROVE u.io[n + j][2] < f[2]
      OBVIOUS
    <2>1. f[2] \in Nat /\ r < f[2] /\ r \in Nat
      BY DEF r, Late
    <2>3. CASE j = m
      BY <1>13, <2>1, <2>3
    <2>2. CASE j \in 1..l
      <3> DEFINE x == ps[j]
                 y == f[2]
      <3>1. x \in Nat /\ x < r /\ r < y /\ u.io[n + j][2] = x
        BY <1>13, <2>1, <2>2
      <3>2. y \in Nat
        BY <2>1
      <3> HIDE DEF x, y, r
      <3>3. x < y
        BY <2>1, <3>1, <3>2
      <3> QED BY <3>1, <3>3 DEF y
    <2> QED BY <1>8, <2>2, <2>3
  <1>16. Goes(a, u, m, D, E)
    BY <1>1, <1>5, <1>6, <1>8, <1>12, <1>14, <1>15 DEF Goes, n
  <1> QED BY <1>16 DEF m, l

\* The strings left are printed.
LEMMA GoesTexts ==
  ASSUME NEW a, Machine(a), NEW ps \in Seq(Nat), Rising(ps), NEW u, Prints(a, u, ps, Len(ps))
  PROVE  Goes(a, u, Len(ps), Strings(ps), Strings(ps))
  <1> DEFINE n == Len(a.io)
             l == Len(ps)
  <1>1. n \in Nat /\ l \in Nat
    BY SeqFacts DEF Machine
  <1>2. /\ Len(u.io) = n + l /\ \A i \in 1..n : u.io[i] = a.io[i]
        /\ \A j \in 1..l : u.io[n + j] = <<"text", ps[j]>>
    BY DEF Prints
  <1>3. \A j \in 1..l : Happened(u, n + j) = <<"text", ps[j]>> /\ u.io[n + j][2] = ps[j]
    <2>1. \A i : Happened(u, i) = <<u.io[i][1], u.io[i][2]>>
      BY DEF Happened
    <2> QED BY <1>2, <2>1
  <1>4. Strings(ps) = {Happened(u, n + j) : j \in 1..l}
    BY <1>3 DEF Strings
  <1>5. \A j, k \in 1..l : j < k => u.io[n + j][2] < u.io[n + k][2]
    BY <1>3 DEF Rising
  <1> QED BY <1>1, <1>2, <1>4, <1>5 DEF Goes

\* The graph with the strings left in place of those it had.
LEMMA DatedStill ==
  ASSUME NEW g, NEW p, Dated(g, p), NEW h, h.G = g.G, h.IOBuf \in Seq(Nat), Rising(h.IOBuf),
         \A i \in 1..Len(h.IOBuf) : h.IOBuf[i] \in 1..p
  PROVE  Dated(h, p)
  BY DEF Dated

\* What is exported for a node, but for the copies.
LEMMA ExportedNode ==
  ASSUME IInv, NEW k \in 1..Len(graph.G), NEW node, node = graph.G[k], NEW p \in Nat, Dated(graph, p),
         NEW a, Machine(a), NEW s, s = Run(a, Trans(node))
  PROVE  /\ node.op \notin InOutOps => Computed(a, s, node)
         /\ node.op \in InOutOps => \E t : Done(a, t, s, node)
         /\ Machine(s) /\ node.op \in Ops /\ Len(node.items) \in Nat
         /\ CopiesDone(s, Run(s, Copies(node)), node, Len(node.items))
  <1>1. node \in NodeType
    <2>1. graph.G \in Seq(NodeType)
      BY GraphFacts DEF IInv
    <2> QED BY <2>1
  <1>2. node.op \in Ops /\ Len(node.items) \in Nat
    BY <1>1 DEF NodeType
  <1>3. ASSUME node.op \notin InOutOps PROVE Computed(a, s, node) /\ Machine(s)
    BY <1>2, <1>3, ComputedIs DEF Computed
  <1>4. ASSUME node.op \in InOutOps PROVE (\E t : Done(a, t, s, node)) /\ Machine(s)
    <2> DEFINE buf == graph.IOBuf
    <2>1. buf \in Seq(Nat) /\ Rising(buf) /\ node.rhs \in Nat
      <3>1. k \in InOuts(graph.G, 0)
        BY <1>4 DEF InOuts
      <3> QED BY <3>1 DEF Dated
    <2> HIDE DEF buf
    <2>2. Due(node.rhs) \in Seq(Nat)
      BY <2>1, DueIs DEF buf
    <2>3. \E t : Done(a, t, s, node)
      BY <1>4, <2>2, DoneIs
    <2> QED BY <2>3 DEF Done
  <1>5. Machine(s)
    BY <1>3, <1>4
  <1>6. CopiesDone(s, Run(s, Copies(node)), node, Len(node.items))
    BY <1>2, <1>5, CopiesRun
  <1> QED BY <1>2, <1>3, <1>4, <1>5, <1>6

\* A node read or written, with the strings due before it.
LEMMA InOutExported ==
  ASSUME IInv, NEW k \in 1..Len(graph.G), NEW node, node = graph.G[k], node.op \in InOutOps,
         NEW p \in Nat, NEW b, NEW a, Together(graph, b, a, p, k - 1),
         NEW t, NEW s, Done(a, t, s, node), NEW u, Machine(u), u.io = s.io,
         NEW h, h.G = graph.G, h.IOBuf = NotDue(node.rhs)
  PROVE  Together(h, b, u, p, k)
  <1> DEFINE buf == graph.IOBuf
             r == node.rhs
             E == Events(graph, k - 1)
             ps == Due(r)
             D == Strings(ps) \cup {Event(node)}
  <1>1. Machine(b) /\ Machine(a) /\ InTime(b, p) /\ Dated(graph, p) /\ Follows(b, a, E)
    BY DEF Together
  <1>2. Graph(graph)
    BY DEF IInv
  <1>3. buf \in Seq(Nat) /\ Rising(buf) /\ r \in Nat /\ \A i \in 1..Len(buf) : buf[i] \in 1..p
    <2>1. k \in InOuts(graph.G, 0)
      BY DEF InOuts
    <2> QED BY <1>1, <2>1 DEF Dated
  <1>4. D \subseteq E /\ Events(h, k) = E \ D /\ \A e \in E \ D : e[2] \in Nat /\ r < e[2]
    BY <1>1, <1>2, EventsSplit
  <1> DEFINE d == DueLen(r)
  <1> HIDE DEF buf, d
  <1>5. /\ d \in 0..Len(buf)
        /\ ps \in Seq(Nat) /\ Len(ps) = d
        /\ \A i \in 1..d : ps[i] = buf[i] /\ buf[i] < r
        /\ NotDue(r) \in Seq(Nat) /\ Len(NotDue(r)) = Len(buf) - d
        /\ \A i \in 1..(Len(buf) - d) : NotDue(r)[i] = buf[d + i]
    <2>1. Splits(buf, r, d, ps, NotDue(r))
      BY <1>3, DueSplits DEF buf, d
    <2> HIDE DEF r, ps
    <2> QED BY <2>1 DEF Splits
  <1> HIDE DEF r, E, ps, D
  <1> DEFINE qs == NotDue(r)
             L == Len(buf)
  <1>6. L \in Nat /\ \A i, j \in 1..L : i < j => buf[i] < buf[j]
    <2>1. L \in Nat
      BY <1>3
    <2>2. \A i, j \in 1..L : i < j => buf[i] < buf[j]
      <3>1. Rising(buf)
        BY <1>3
      <3> QED BY <3>1 DEF Rising
    <2> QED BY <2>1, <2>2
  <1>7. Rising(ps) /\ \A i \in 1..Len(ps) : ps[i] < r
    <2>1. \A i \in 1..d : i \in 1..L
      BY <1>5, <1>6
    <2> QED BY <1>5, <1>6, <2>1 DEF Rising
  <1> HIDE DEF qs, L
  <1>8. Rising(qs) /\ \A i \in 1..Len(qs) : qs[i] \in 1..p
    <2>1. \A i \in 1..(L - d) : d + i \in 1..L /\ qs[i] = buf[d + i]
      BY <1>5, <1>6 DEF L, qs
    <2>2. \A i, j \in 1..(L - d) : i < j => d + i < d + j
      BY <1>5, <1>6
    <2>3. Len(qs) = L - d
      BY <1>5 DEF qs, L
    <2>4. \A i \in 1..L : buf[i] \in 1..p
      BY <1>3 DEF L
    <2> QED BY <1>6, <2>1, <2>2, <2>3, <2>4 DEF Rising
  <1>9. Goes(a, u, Len(ps) + 1, D, E)
    <2>1. ps = Due(node.rhs) /\ node.rhs = r /\ D = Strings(ps) \cup {Event(node)}
      BY DEF r, ps, D
    <2>2. node.rhs \in Nat /\ Early(ps, node.rhs)
      BY <1>3, <1>7, <2>1 DEF Early
    <2>3. D \subseteq E /\ Late(E \ D, node.rhs)
      BY <1>4, <2>1 DEF Late
    <2>4. Machine(a) /\ ps \in Seq(Nat) /\ Rising(ps)
      BY <1>1, <1>5, <1>7
    <2> QED BY <2>1, <2>2, <2>3, <2>4, GoesInOut, Zenon
  <1>10. Follows(b, u, Events(h, k))
    <2>1. Follows(b, u, E \ D)
      BY <1>1, <1>9, FollowsOn DEF E
    <2> QED BY <1>4, <2>1
  <1>11. Dated(h, p)
    <2>1. h.IOBuf = qs /\ qs \in Seq(Nat)
      BY <1>5 DEF qs, r
    <2> QED BY <1>1, <1>8, <2>1, DatedStill
  <1> QED BY <1>1, <1>10, <1>11 DEF Together

LEMMA ExportXInv == ASSUME XInv, IInv', Export PROVE XInv'
  <1>1. PICK k, node :
           /\ k \in 1..Len(graph.G) /\ Exported = k - 1 /\ Exported' = k /\ node = graph.G[k]
           /\ after' = Run(Run(after, Trans(node)), Copies(node))
           /\ graph' = IF node.op \in InOutOps THEN [graph EXCEPT !.IOBuf = NotDue(node.rhs)]
                       ELSE graph
           /\ graph'.G = graph.G
           /\ UNCHANGED <<len, before>> /\ Stacked'
    BY ExportStep
  <1> DEFINE s == Run(after, Trans(node))
             u == Run(s, Copies(node))
  <1>2. /\ IInv /\ len \in Nat /\ Graph(graph) /\ Together(graph, before, after, len, k - 1)
        /\ Machine(after) /\ Machine(before) /\ InTime(before, len) /\ Dated(graph, len)
        /\ Follows(before, after, Events(graph, k - 1))
    BY <1>1 DEF XInv, IInv, Together
  <1>3. after' = u
    BY <1>1
  <1> HIDE DEF u, s
  <1>4. /\ node.op \notin InOutOps => Computed(after, s, node)
        /\ node.op \in InOutOps => \E t : Done(after, t, s, node)
        /\ CopiesDone(s, u, node, Len(node.items))
    BY <1>1, <1>2, ExportedNode DEF s, u
  <1>5. Machine(u) /\ u.io = s.io
    BY <1>4 DEF CopiesDone
  <1>6. Together(graph', before, u, len, k)
    <2>1. CASE node.op \notin InOutOps
      <3>1. graph' = graph /\ u.io = after.io
        BY <1>1, <1>4, <1>5, <2>1 DEF Computed
      <3>2. InOuts(graph.G, k) = InOuts(graph.G, k - 1)
        <4>1. Len(graph.G) \in Nat
          BY <1>2, GraphFacts
        <4>2. \A j \in 1..Len(graph.G) : k - 1 < j <=> k < j \/ j = k
          BY <1>1, <4>1
        <4> QED BY <1>1, <2>1, <4>2 DEF InOuts
      <3>3. Events(graph, k) = Events(graph, k - 1)
        BY <3>2 DEF Events
      <3>4. Follows(before, u, Events(graph, k))
        <4>1. \A i : Happened(u, i) = Happened(after, i)
          BY <3>1 DEF Happened
        <4> QED BY <1>2, <3>1, <3>3, <4>1 DEF Follows
      <3> QED BY <1>2, <1>5, <3>1, <3>4 DEF Together
    <2>2. CASE node.op \in InOutOps
      <3>1. PICK t : Done(after, t, s, node)
        BY <1>4, <2>2
      <3> DEFINE h == [graph EXCEPT !.IOBuf = NotDue(node.rhs)]
      <3>2. graph' = h
        BY <1>1, <2>2
      <3>3. h.G = graph.G /\ h.IOBuf = NotDue(node.rhs)
        <4>1. graph = [G |-> graph.G, record |-> graph.record, IOBuf |-> graph.IOBuf]
          BY <1>2 DEF Graph, Shaped
        <4> QED BY <4>1
      <3> HIDE DEF h
      <3>4. Together(h, before, u, len, k)
        BY <1>1, <1>2, <1>5, <2>2, <3>1, <3>3, InOutExported
      <3> QED BY <3>2, <3>4
    <2> QED BY <2>1, <2>2
  <1>7. Together(graph', before', after', len', Exported')
    BY <1>1, <1>3, <1>6
  <1> QED BY <1>1, <1>7 DEF XInv

LEMMA EndExportXInv == ASSUME XInv, IInv', EndExport PROVE XInv'
  <1> DEFINE buf == graph.IOBuf
             u == Run(after, Texts(buf))
             h == [graph EXCEPT !.IOBuf = <<>>]
             n == Len(graph.G)
  <1>1. /\ phase = "export" /\ stack = <<>> /\ phase' = "end" /\ stack' = stack
        /\ after' = u /\ graph' = h /\ before' = before /\ len' = len
    BY DEF EndExport
  <1>2. n \in Nat /\ Exported = n
    <2>1. n \in Nat
      BY GraphFacts DEF XInv, IInv
    <2>2. Len(stack) = 0
      BY <1>1
    <2> QED BY <1>1, <2>1, <2>2 DEF Exported
  <1>3. /\ Machine(after) /\ Machine(before) /\ InTime(before, len) /\ Dated(graph, len)
        /\ Follows(before, after, Events(graph, n))
    BY <1>2 DEF XInv, Together
  <1>4. Events(graph, n) = Strings(buf)
    <2>1. InOuts(graph.G, n) = {}
      BY <1>2 DEF InOuts
    <2> QED BY <2>1 DEF Events
  <1>5. buf \in Seq(Nat) /\ Rising(buf)
    BY <1>3 DEF Dated
  <1>6. h.G = graph.G /\ h.IOBuf = <<>>
    <2>1. graph = [G |-> graph.G, record |-> graph.record, IOBuf |-> graph.IOBuf]
      BY DEF XInv, IInv, Graph, Shaped
    <2> QED BY <2>1
  <1> HIDE DEF u, h, buf
  <1>7. Prints(after, u, buf, Len(buf))
    BY <1>3, <1>5, TextsRun DEF u
  <1>8. Machine(u)
    BY <1>7 DEF Prints
  <1>9. Goes(after, u, Len(buf), Strings(buf), Strings(buf))
    BY <1>3, <1>5, <1>7, GoesTexts
  <1>10. Follows(before, u, Strings(buf) \ Strings(buf))
    BY <1>3, <1>4, <1>9, FollowsOn
  <1>11. Events(h, n) = {}
    <2>1. InOuts(h.G, n) = {} /\ Strings(h.IOBuf) = {}
      BY <1>2, <1>6 DEF InOuts, Strings
    <2> QED BY <2>1 DEF Events
  <1>12. Dated(h, len)
    <2>1. h.IOBuf \in Seq(Nat) /\ Len(h.IOBuf) = 0
      BY <1>6
    <2>2. Rising(h.IOBuf)
      BY <2>1 DEF Rising
    <2>3. \A i \in 1..Len(h.IOBuf) : h.IOBuf[i] \in 1..len
      BY <2>1
    <2> QED BY <1>3, <1>6, <2>1, <2>2, <2>3, DatedStill
  <1>13. Strings(buf) \ Strings(buf) = {}
    OBVIOUS
  <1>14. Together(h, before, u, len, n)
    BY <1>3, <1>8, <1>10, <1>11, <1>12, <1>13 DEF Together
  <1>15. Exported' = n
    <2>1. Exported' = Len(graph'.G) - Len(stack')
      BY <1>1 DEF Exported
    <2>2. graph'.G = graph.G /\ Len(stack') = 0
      BY <1>1, <1>6
    <2> QED BY <1>2, <2>1, <2>2
  <1>16. Together(graph', before', after', len', Exported')
    BY <1>1, <1>14, <1>15
  <1>17. Stacked'
    <2>1. graph'.IOBuf = <<>>
      BY <1>1, <1>6
    <2> QED BY <1>1, <2>1 DEF Stacked
  <1> QED BY <1>16, <1>17 DEF XInv

\* Ordering the nodes leaves both blocks alone.
LEMMA OrderXInv ==
  ASSUME XInv, IInv', EndBuild \/ Pick PROVE XInv'
  <1>1. /\ phase \in {"build", "order"} /\ phase' = "order"
        /\ graph' = graph /\ before' = before /\ after' = after /\ len' = len
    BY DEF EndBuild, Pick
  <1>2. Exported = 0 /\ Exported' = 0
    BY <1>1 DEF Exported
  <1>3. Together(graph', before', after', len', Exported')
    BY <1>1, <1>2 DEF XInv
  <1>4. Stacked'
    BY <1>1 DEF XInv, Stacked
  <1> QED BY <1>3, <1>4 DEF XInv

LEMMA EndOrderXInv == ASSUME XInv, IInv', EndOrder PROVE XInv'
  <1>1. /\ phase = "order" /\ Ready = {} /\ phase' = "export" /\ stack' = stack
        /\ graph' = graph /\ before' = before /\ after' = after /\ len' = len
    BY DEF EndOrder
  <1>2. Graph(graph) /\ Ordering
    BY <1>1 DEF XInv, IInv
  <1>3. nodes = <<>>
    BY <1>1, <1>2, LastReady
  <1>4. /\ stack \in Seq(Nat) /\ Len(stack) = Len(graph.G) /\ Len(graph.G) \in Nat
        /\ \A i \in 1..Len(stack) : stack[i] = Len(graph.G) + 1 - i
    <2>1. Len(nodes) = 0 /\ Len(graph.G) \in Nat
      BY <1>2, <1>3, GraphFacts
    <2>2. /\ stack \in Seq(Nat) /\ Len(nodes) + Len(stack) = Len(graph.G)
          /\ \A i \in 1..Len(stack) : stack[i] = Len(graph.G) + 1 - i
      BY <1>2 DEF Ordering
    <2> QED BY <2>1, <2>2
  <1>5. Exported = 0 /\ Exported' = 0
    <2>1. Exported' = Len(graph.G) - Len(stack)
      BY <1>1 DEF Exported
    <2> QED BY <1>1, <1>4, <2>1 DEF Exported
  <1>6. Together(graph', before', after', len', Exported')
    BY <1>1, <1>5 DEF XInv
  <1>7. Stacked'
    <2>1. Len(stack) <= Len(graph.G)
      BY <1>4
    <2> QED BY <1>1, <1>4, <2>1 DEF Stacked
  <1> QED BY <1>6, <1>7 DEF XInv

\* The next block starts with nothing to read or print.
LEMMA TogetherStart == Together(Empty, Start, Start, 0, 0)
  <1>1. Machine(Start) /\ Len(Start.io) = 0
    BY StartMachine
  <1>2. InTime(Start, 0)
    BY <1>1 DEF InTime
  <1>3. Empty.IOBuf = <<>> /\ Empty.G = <<>> /\ Len(<<>>) = 0 /\ <<>> \in Seq(Nat)
    BY DEF Empty
  <1>4. InOuts(Empty.G, 0) = {} /\ Strings(Empty.IOBuf) = {} /\ Rising(Empty.IOBuf)
    BY <1>3 DEF InOuts, Strings, Rising
  <1>5. Dated(Empty, 0) /\ Events(Empty, 0) = {}
    BY <1>3, <1>4 DEF Dated, Events
  <1>6. Follows(Start, Start, {})
    BY <1>1 DEF Follows
  <1> QED BY <1>1, <1>2, <1>5, <1>6 DEF Together

LEMMA NextBlockXInv == ASSUME XInv, IInv', NextBlock PROVE XInv'
  <1>1. /\ phase' = "build" /\ graph' = Empty /\ len' = 0
        /\ before' = Start /\ after' = Start
    BY DEF NextBlock
  <1>2. Exported' = 0 /\ Stacked'
    BY <1>1 DEF Exported, Stacked
  <1>3. Together(graph', before', after', len', Exported')
    BY <1>1, <1>2, TogetherStart
  <1> QED BY <1>2, <1>3 DEF XInv

LEMMA InitXInv == Init => XInv
  <1> SUFFICES ASSUME Init PROVE XInv
    OBVIOUS
  <1>1. /\ phase = "build" /\ graph = Empty /\ len = 0 /\ before = Start /\ after = Start
    BY DEF Init
  <1>2. Exported = 0 /\ Stacked
    BY <1>1 DEF Exported, Stacked
  <1>3. Together(graph, before, after, len, Exported)
    BY <1>1, <1>2, TogetherStart
  <1> QED BY <1>2, <1>3, InitIInv DEF XInv

LEMMA StutterXInv == ASSUME XInv, IInv', UNCHANGED vars PROVE XInv'
  <1>1. /\ phase' = phase /\ graph' = graph /\ len' = len /\ stack' = stack
        /\ before' = before /\ after' = after
    BY DEF vars
  <1>2. Exported' = Exported
    BY <1>1 DEF Exported
  <1>3. Together(graph', before', after', len', Exported')
    BY <1>1, <1>2 DEF XInv
  <1>4. Stacked'
    BY <1>1 DEF XInv, Stacked
  <1> QED BY <1>3, <1>4 DEF XInv

LEMMA NextXInv == XInv /\ [Next]_vars => XInv'
  <1> SUFFICES ASSUME XInv, [Next]_vars PROVE XInv'
    OBVIOUS
  <1>1. IInv'
    BY NextIInv DEF XInv
  <1>2. CASE Move \/ Arithmetic \/ LoadElem \/ StoreElem BY <1>1, <1>2, OperationXInv
  <1>3. CASE ReadVar BY <1>1, <1>3, ReadXInv
  <1>4. CASE Write BY <1>1, <1>4, WriteXInv
  <1>5. CASE WriteText BY <1>1, <1>5, TextXInv
  <1>6. CASE EndBuild \/ Pick BY <1>1, <1>6, OrderXInv
  <1>7. CASE EndOrder BY <1>1, <1>7, EndOrderXInv
  <1>8. CASE Export BY <1>1, <1>8, ExportXInv
  <1>9. CASE EndExport BY <1>1, <1>9, EndExportXInv
  <1>10. CASE NextBlock BY <1>1, <1>10, NextBlockXInv
  <1>11. CASE UNCHANGED vars BY <1>1, <1>11, StutterXInv
  <1> QED BY <1>2, <1>3, <1>4, <1>5, <1>6, <1>7, <1>8, <1>9, <1>10, <1>11 DEF Next

\* Whatever has been exported, the nodes and the strings that are left are the
\* rest of what the block reads and prints.
THEOREM ExportInvariant == Spec => []XInv
  <1>1. XInv /\ [Next]_vars => XInv' BY NextXInv
  <1> QED BY InitXInv, <1>1, PTL DEF Spec

-------------------------------------------------------------------------------
(* What follows from it.                                                   *)

LEMMA TraceFacts ==
  ASSUME NEW s, Machine(s)
  PROVE  /\ Trace(s) \in Seq({Trace(s)[i] : i \in 1..Len(s.io)}) /\ Len(Trace(s)) = Len(s.io)
         /\ Trace(s) = [i \in 1..Len(s.io) |-> Happened(s, i)] /\ Len(s.io) \in Nat
  <1>1. Len(s.io) \in Nat /\ DOMAIN s.io = 1..Len(s.io)
    BY SeqFacts DEF Machine
  <1>2. Trace(s) = [i \in 1..Len(s.io) |-> Happened(s, i)]
    BY <1>1 DEF Trace, Happened
  <1> DEFINE n == Len(s.io)
             f == Trace(s)
             S == {f[i] : i \in 1..n}
  <1> HIDE DEF f, n
  <1>3. f = [i \in 1..n |-> Happened(s, i)] /\ n \in Nat
    BY <1>1, <1>2 DEF f, n
  <1>4. f \in [1..n -> S] /\ DOMAIN f = 1..n
    BY <1>3
  <1> HIDE DEF S
  <1>5. f \in Seq(S) /\ Len(f) = n
    BY <1>3, <1>4
  <1> QED BY <1>1, <1>2, <1>5 DEF f, n, S

LEMMA TracePrefix ==
  ASSUME NEW b, Machine(b), NEW a, Machine(a), NEW E, Follows(b, a, E)
  PROVE  IsPrefix(Trace(a), Trace(b)) /\ (E = {} => Trace(a) = Trace(b))
  <1> DEFINE n == Len(a.io)
             N == Len(b.io)
             f == Trace(a)
             g == Trace(b)
  <1>1. /\ n \in Nat /\ Len(f) = n /\ f = [i \in 1..n |-> Happened(a, i)]
        /\ N \in Nat /\ Len(g) = N /\ g = [i \in 1..N |-> Happened(b, i)]
    BY TraceFacts
  <1>2. n <= N /\ \A i \in 1..n : Happened(a, i) = Happened(b, i)
    BY DEF Follows
  <1>3. SubSeq(f, 1, n) = SubSeq(g, 1, n)
    <2> HIDE DEF n, N, f, g
    <2>1. \A i \in 1..n : f[i] = g[i]
      <3>1. \A i \in 1..n : i \in 1..N
        BY <1>1, <1>2
      <3> QED BY <1>1, <1>2, <3>1
    <2> DEFINE S == {f[i] : i \in 1..n}
    <2>2. /\ \A i \in 1..n : f[i] \in S /\ g[i] \in S
          /\ 1 \in Int /\ n \in Int
      BY <1>1, <2>1
    <2> HIDE DEF S
    <2>3. /\ SubSeq(f, 1, n) \in Seq(S) /\ SubSeq(g, 1, n) \in Seq(S)
          /\ Len(SubSeq(f, 1, n)) = IF 1 <= n THEN n - 1 + 1 ELSE 0
          /\ Len(SubSeq(g, 1, n)) = IF 1 <= n THEN n - 1 + 1 ELSE 0
          /\ \A i \in 1..(n - 1 + 1) : SubSeq(f, 1, n)[i] = f[1 + i - 1]
          /\ \A i \in 1..(n - 1 + 1) : SubSeq(g, 1, n)[i] = g[1 + i - 1]
      BY <2>2, SubSeqProperties
    <2>4. (IF 1 <= n THEN n - 1 + 1 ELSE 0) = n
      BY <1>1
    <2>5. \A i \in 1..n : i \in 1..(n - 1 + 1) /\ 1 + i - 1 = i
      BY <1>1
    <2>6. \A i \in 1..n : SubSeq(f, 1, n)[i] = SubSeq(g, 1, n)[i]
      BY <2>1, <2>3, <2>5
    <2> DEFINE p == SubSeq(f, 1, n)
               q == SubSeq(g, 1, n)
    <2>7. p \in Seq(S) /\ q \in Seq(S) /\ Len(p) = n /\ Len(q) = n /\ \A i \in 1..n : p[i] = q[i]
      BY <2>3, <2>4, <2>6
    <2> HIDE DEF p, q
    <2>8. p = q
      BY <2>7, SeqEqual
    <2> QED BY <2>8 DEF p, q
  <1>4. IsPrefix(f, g)
    BY <1>1, <1>2, <1>3 DEF IsPrefix
  <1>5. ASSUME E = {} PROVE f = g
    <2>1. {Happened(b, i) : i \in (n + 1)..N} = {}
      BY <1>5 DEF Follows
    <2> HIDE DEF n, N
    <2>2. ~(n < N)
      <3>1. n < N => N \in (n + 1)..N
        BY <1>1
      <3> QED BY <2>1, <3>1
    <2>3. n = N
      BY <1>1, <1>2, <2>2
    <2> QED BY <1>1, <1>2, <2>3
  <1> QED BY <1>4, <1>5

\* The quadruples buildDAG() takes apart and trans() puts together again read
\* and print in the order of the block, each string in its place between them:
\* at no time have they read or printed anything else, and in the end nothing
\* is missing.
THEOREM ReadsAndPrintsInOrder == Spec => []InOutInOrder
  <1>1. XInv => InOutInOrder
    <2> SUFFICES ASSUME XInv PROVE InOutInOrder
      OBVIOUS
    <2>1. /\ Machine(before) /\ Machine(after)
          /\ Follows(before, after, Events(graph, Exported))
      BY DEF XInv, Together
    <2>2. IsPrefix(Trace(after), Trace(before))
      BY <2>1, TracePrefix
    <2>3. ASSUME phase = "end" PROVE Trace(after) = Trace(before)
      <3>1. stack = <<>> /\ graph.IOBuf = <<>> /\ Len(<<>>) = 0
        BY <2>3 DEF XInv, Stacked
      <3>2. Len(graph.G) \in Nat
        BY GraphFacts DEF XInv, IInv
      <3>3. Exported = Len(graph.G)
        BY <2>3, <3>1, <3>2 DEF Exported
      <3>4. Strings(graph.IOBuf) = {} /\ InOuts(graph.G, Exported) = {}
        BY <3>1, <3>2, <3>3 DEF Strings, InOuts
      <3>5. Events(graph, Exported) = {}
        BY <3>4 DEF Events
      <3> QED BY <2>1, <3>5, TracePrefix
    <2> QED BY <2>2, <2>3 DEF InOutInOrder
  <1>2. Spec => []XInv
    BY ExportInvariant
  <1> QED BY <1>1, <1>2, PTL

-------------------------------------------------------------------------------
(* The values printed.                                                     *)

\* What is printed at a position is what V has for it.
Explained(s, V) ==
    \A i \in 1..Len(s.io) :
        s.io[i] = IF s.io[i][1] = "out" THEN <<"out", s.io[i][2], V[s.io[i][2]]>>
                  ELSE <<s.io[i][1], s.io[i][2]>>

LEMMA ExplainedStart == ASSUME NEW V PROVE Explained(Start, V)
  BY StartMachine DEF Explained

LEMMA ExplainedSame ==
  ASSUME NEW s, NEW V, Explained(s, V), NEW t, t.io = s.io PROVE Explained(t, V)
  BY DEF Explained

LEMMA ExplainedMore ==
  ASSUME NEW s, Machine(s), NEW V, Explained(s, V), NEW p,
         NEW e, e \in {<<"in", p>>, <<"text", p>>, <<"out", p, V[p]>>},
         NEW t, t.io = Append(s.io, e)
  PROVE  Explained(t, V)
  <1> DEFINE n == Len(s.io)
  <1>1. /\ n \in Nat /\ Len(t.io) = n + 1 /\ t.io[n + 1] = e
        /\ \A i \in 1..n : t.io[i] = s.io[i]
    <2>1. IsSeq(s.io)
      BY DEF Machine
    <2> QED BY <2>1, Appended
  <1>2. e = IF e[1] = "out" THEN <<"out", e[2], V[e[2]]>> ELSE <<e[1], e[2]>>
    <2>1. CASE e = <<"in", p>>
      BY <2>1
    <2>2. CASE e = <<"text", p>>
      BY <2>2
    <2>3. CASE e = <<"out", p, V[p]>>
      BY <2>3
    <2> QED BY <2>1, <2>2, <2>3
  <1> HIDE DEF n
  <1>3. \A i \in 1..(n + 1) : i \in 1..n \/ i = n + 1
    BY <1>1
  <1>4. \A i \in 1..n : t.io[i] = IF t.io[i][1] = "out" THEN <<"out", t.io[i][2], V[t.io[i][2]]>>
                                  ELSE <<t.io[i][1], t.io[i][2]>>
    BY <1>1 DEF Explained, n
  <1>5. ASSUME NEW i \in 1..(n + 1)
        PROVE  t.io[i] = IF t.io[i][1] = "out" THEN <<"out", t.io[i][2], V[t.io[i][2]]>>
                         ELSE <<t.io[i][1], t.io[i][2]>>
    <2>1. CASE i \in 1..n
      BY <1>4, <2>1
    <2>2. CASE i = n + 1
      <3>1. t.io[i] = e
        BY <1>1, <2>2
      <3> QED BY <1>2, <3>1
    <2> QED BY <1>3, <2>1, <2>2
  <1> QED BY <1>1, <1>5 DEF Explained

\* A value printed later.
Later(V, r, v) == [V EXCEPT ![r] = v]

LEMMA ExplainedLater ==
  ASSUME NEW s, NEW V, V = [i \in Nat |-> V[i]], Explained(s, V),
         NEW p \in Nat, \A i \in 1..Len(s.io) : s.io[i][2] \in 1..p,
         NEW r \in Nat, p < r, NEW v
  PROVE  Explained(s, Later(V, r, v))
  <1> DEFINE W == Later(V, r, v)
  <1>1. \A i \in 1..p : W[i] = V[i]
    <2>1. \A i \in 1..p : i \in Nat /\ i # r
      OBVIOUS
    <2> QED BY <2>1 DEF Later
  <1> HIDE DEF W
  <1>2. \A i \in 1..Len(s.io) : W[s.io[i][2]] = V[s.io[i][2]]
    BY <1>1
  <1>3. Explained(s, W)
    BY <1>2 DEF Explained
  <1> QED BY <1>3 DEF W

LEMMA LaterIs ==
  ASSUME NEW V, V = [i \in Nat |-> V[i]], NEW r \in Nat, NEW v
  PROVE  /\ Later(V, r, v) = [i \in Nat |-> Later(V, r, v)[i]] /\ Later(V, r, v)[r] = v
         /\ \A i \in Nat : i # r => Later(V, r, v)[i] = V[i]
  BY DEF Later

LEMMA ExplainedPrints ==
  ASSUME NEW a, Machine(a), NEW V, Explained(a, V),
         NEW t, NEW ps, NEW l \in Nat, Prints(a, t, ps, l)
  PROVE  Explained(t, V)
  <1> DEFINE n == Len(a.io)
  <1>1. n \in Nat
    BY SeqFacts DEF Machine
  <1>2. /\ Len(t.io) = n + l /\ \A i \in 1..n : t.io[i] = a.io[i]
        /\ \A j \in 1..l : t.io[n + j] = <<"text", ps[j]>>
    BY DEF Prints
  <1>3. \A i \in 1..n : t.io[i] = IF t.io[i][1] = "out" THEN <<"out", t.io[i][2], V[t.io[i][2]]>>
                                  ELSE <<t.io[i][1], t.io[i][2]>>
    BY <1>2 DEF Explained
  <1> HIDE DEF n
  <1>4. ASSUME NEW i \in 1..(n + l)
        PROVE  t.io[i] = IF t.io[i][1] = "out" THEN <<"out", t.io[i][2], V[t.io[i][2]]>>
                         ELSE <<t.io[i][1], t.io[i][2]>>
    <2>1. CASE i \in 1..n
      BY <1>3, <2>1
    <2>2. CASE i \notin 1..n
      <3>1. i - n \in 1..l /\ n + (i - n) = i
        BY <1>1, <2>2
      <3>2. t.io[n + (i - n)] = <<"text", ps[i - n]>>
        BY <1>2, <3>1
      <3>3. t.io[i] = <<"text", ps[i - n]>>
        BY <3>1, <3>2
      <3> QED BY <3>3
    <2> QED BY <2>1, <2>2
  <1> QED BY <1>2, <1>4 DEF Explained

LEMMA ExplainedDone ==
  ASSUME NEW a, Machine(a), NEW V, Explained(a, V), NEW node, node.op \in InOutOps,
         NEW t, NEW s, Done(a, t, s, node), Due(node.rhs) \in Seq(Nat),
         node.op = "write_e" => V[node.rhs] = a.val[NameOf(node.lhs)]
  PROVE  Explained(s, V)
  <1>1. Prints(a, t, Due(node.rhs), Len(Due(node.rhs)))
    BY DEF Done
  <1>2. Len(Due(node.rhs)) \in Nat
    OBVIOUS
  <1>3. Explained(t, V) /\ Machine(t)
    BY <1>1, <1>2, ExplainedPrints DEF Prints
  <1>4. CASE node.op = "read"
    <2>1. s.io = Append(t.io, <<"in", node.rhs>>)
      BY <1>4 DEF Done
    <2> QED BY <1>3, <2>1, ExplainedMore
  <1>5. CASE node.op = "write_e"
    <2>1. s.io = Append(t.io, <<"out", node.rhs, V[node.rhs]>>)
      BY <1>5 DEF Done
    <2> QED BY <1>3, <2>1, ExplainedMore
  <1> QED BY <1>4, <1>5 DEF InOutOps

\* Machines that have read and printed the same, at the same positions.
LEMMA SameTrace ==
  ASSUME NEW b, Machine(b), NEW a, Machine(a), NEW V, Explained(b, V), Explained(a, V),
         Trace(a) = Trace(b)
  PROVE  a.io = b.io
  <1> DEFINE n == Len(a.io)
  <1>1. /\ n \in Nat /\ Len(b.io) = n
        /\ Trace(a) = [i \in 1..n |-> Happened(a, i)]
        /\ Trace(b) = [i \in 1..Len(b.io) |-> Happened(b, i)]
    BY TraceFacts
  <1>2. /\ a.io = [i \in 1..n |-> a.io[i]] /\ b.io = [i \in 1..Len(b.io) |-> b.io[i]]
    BY SeqFacts DEF Machine
  <1>3. ASSUME NEW i \in 1..n PROVE a.io[i] = b.io[i]
    <2>1. Happened(a, i) = Happened(b, i)
      BY <1>1
    <2>2. a.io[i][1] = b.io[i][1] /\ a.io[i][2] = b.io[i][2]
      BY <2>1 DEF Happened
    <2>3. a.io[i] = IF a.io[i][1] = "out" THEN <<"out", a.io[i][2], V[a.io[i][2]]>>
                    ELSE <<a.io[i][1], a.io[i][2]>>
      BY DEF Explained
    <2>4. b.io[i] = IF b.io[i][1] = "out" THEN <<"out", b.io[i][2], V[b.io[i][2]]>>
                    ELSE <<b.io[i][1], b.io[i][2]>>
      BY <1>1 DEF Explained
    <2> QED BY <2>2, <2>3, <2>4
  <1> HIDE DEF n
  <1> QED BY <1>1, <1>2, <1>3

\* How many inputs there have been.
LEMMA InputsDone ==
  ASSUME NEW a, NEW node, node.op \in InOutOps, NEW t, NEW s, Done(a, t, s, node)
  PROVE  Inputs(s) = Inputs(a) + (IF node.op = "read" THEN 1 ELSE 0)
  <1>1. Inputs(t) = Inputs(a) /\ IsSeq(t.io)
    BY DEF Done, Prints, Machine
  <1>2. CASE node.op = "read"
    <2> DEFINE e == <<"in", node.rhs>>
    <2>1. s.io = Append(t.io, e) /\ e[1] = "in"
      BY <1>2 DEF Done
    <2> HIDE DEF e
    <2>2. Inputs(s) = Inputs(t) + (IF e[1] = "in" THEN 1 ELSE 0)
      BY <1>1, <2>1, InputsGrow
    <2> QED BY <1>1, <1>2, <2>1, <2>2
  <1>3. CASE node.op = "write_e"
    <2> DEFINE e == <<"out", node.rhs, a.val[NameOf(node.lhs)]>>
    <2>1. s.io = Append(t.io, e) /\ e[1] # "in"
      BY <1>3 DEF Done
    <2> HIDE DEF e
    <2>2. Inputs(s) = Inputs(t) + (IF e[1] = "in" THEN 1 ELSE 0)
      BY <1>1, <2>1, InputsGrow
    <2> QED BY <1>1, <1>3, <2>1, <2>2
  <1> QED BY <1>2, <1>3 DEF InOutOps

-------------------------------------------------------------------------------
(* What the nodes compute.                                                 *)

\* The quadruple a node stands for, with the names its operands were made for.
Does(G, k) ==
    Quad(G[k].op, G[k].item.name,
         IF Leaf(G[k]) THEN Zero ELSE G[G[k].lhs].item.name,
         IF Leaf(G[k]) \/ G[k].op \in InOutOps THEN Zero ELSE G[G[k].rhs].item.name,
         G[k].rhs)

LEMMA DoesIs ==
  ASSUME NEW G, NEW k
  PROVE  /\ Does(G, k).op = G[k].op /\ Does(G, k).d = G[k].item.name /\ Does(G, k).no = G[k].rhs
         /\ ~Leaf(G[k]) => Does(G, k).a = G[G[k].lhs].item.name
         /\ ~Leaf(G[k]) /\ G[k].op \notin InOutOps => Does(G, k).b = G[G[k].rhs].item.name
  <1>1. \A op, d, a, b, no : /\ Quad(op, d, a, b, no).op = op /\ Quad(op, d, a, b, no).d = d
                             /\ Quad(op, d, a, b, no).a = a /\ Quad(op, d, a, b, no).b = b
                             /\ Quad(op, d, a, b, no).no = no
    BY DEF Quad
  <1> QED BY <1>1 DEF Does

\* A node that is there stays what it is.
LEMMA DoesKept ==
  ASSUME NEW g, Graph(g), NEW h, Kept(g, h), NEW k \in 1..Len(g.G)
  PROVE  Does(h.G, k) = Does(g.G, k)
  <1> DEFINE G == g.G
             H == h.G
             n == Len(G)
  <1>1. n \in Nat
    BY GraphFacts
  <1>2. \A j \in 1..n : H[j].op = G[j].op /\ H[j].item = G[j].item /\ H[j].lhs = G[j].lhs /\ H[j].rhs = G[j].rhs
    BY DEF Kept
  <1>3. OperandsBelow(G[k], k)
    BY DEF Graph, Wired
  <1> HIDE DEF G, H, n
  <1>4. k \in 1..n
    BY DEF n, G
  <1>5. ~Leaf(G[k]) => G[k].lhs \in 1..n
    BY <1>1, <1>3, <1>4 DEF OperandsBelow
  <1>6. ~Leaf(G[k]) /\ G[k].op \notin InOutOps => G[k].rhs \in 1..n
    BY <1>1, <1>3, <1>4 DEF OperandsBelow
  <1>7. ~Leaf(G[k]) => H[H[k].lhs].item.name = G[G[k].lhs].item.name
    BY <1>2, <1>4, <1>5
  <1>8. ~Leaf(G[k]) /\ G[k].op \notin InOutOps => H[H[k].rhs].item.name = G[G[k].rhs].item.name
    BY <1>2, <1>4, <1>6
  <1>9. H[k].op = G[k].op /\ H[k].item = G[k].item /\ H[k].rhs = G[k].rhs /\ (Leaf(H[k]) <=> Leaf(G[k]))
    BY <1>2, <1>4 DEF Leaf
  <1>10. Does(H, k) = Does(G, k)
    <2>1. CASE Leaf(G[k])
      BY <1>9, <2>1 DEF Does
    <2>2. CASE ~Leaf(G[k]) /\ G[k].op \in InOutOps
      BY <1>7, <1>9, <2>2 DEF Does
    <2>3. CASE ~Leaf(G[k]) /\ G[k].op \notin InOutOps
      BY <1>7, <1>8, <1>9, <2>3 DEF Does
    <2> QED BY <2>1, <2>2, <2>3
  <1> QED BY <1>10 DEF G, H

\* The node of an operation, when it is a new one.
LEMMA NewOperation ==
  ASSUME NEW g, NEW h, NEW op, op # "leaf", op \notin InOutOps, NEW x, NEW l, NEW r, NEW k,
         OperationFor(g, h, op, x, l, r, k), Len(h.G) # Len(g.G)
  PROVE  /\ k = Len(g.G) + 1 /\ Len(h.G) = k
         /\ Does(h.G, k).op = op /\ Does(h.G, k).d = x
         /\ Does(h.G, k).a = g.G[l].item.name /\ Does(h.G, k).b = g.G[r].item.name
  <1>1. /\ Kept(g, h) /\ h.G[k].op = op /\ h.G[k].lhs = l /\ h.G[k].rhs = r
        /\ l \in 1..Len(g.G) /\ r \in 1..Len(g.G)
        /\ k = Len(g.G) + 1 /\ Len(h.G) = k /\ h.G[k].item.name = x
    BY DEF OperationFor
  <1>2. h.G[l].item.name = g.G[l].item.name /\ h.G[r].item.name = g.G[r].item.name
    BY <1>1 DEF Kept
  <1>3. ~Leaf(h.G[k]) /\ h.G[k].op \notin InOutOps
    BY <1>1 DEF Leaf
  <1>4. /\ Does(h.G, k).op = h.G[k].op /\ Does(h.G, k).d = h.G[k].item.name
        /\ Does(h.G, k).a = h.G[h.G[k].lhs].item.name
        /\ Does(h.G, k).b = h.G[h.G[k].rhs].item.name
    BY <1>3 DEF Does, Quad
  <1>5. h.G[h.G[k].lhs] = h.G[l] /\ h.G[h.G[k].rhs] = h.G[r]
    BY <1>1
  <1> QED BY <1>1, <1>2, <1>4, <1>5

\* The node of a read or a write.
LEMMA NewInOut ==
  ASSUME NEW g, NEW h, NEW op \in InOutOps, NEW k, NEW p, NEW n, InOutFor(g, h, op, k, p, n)
  PROVE  /\ Does(h.G, n).op = op /\ Does(h.G, n).a = g.G[k].item.name /\ Does(h.G, n).no = p
  <1>1. /\ Kept(g, h) /\ h.G[n].op = op /\ h.G[n].lhs = k /\ h.G[n].rhs = p /\ k \in 1..Len(g.G)
    BY DEF InOutFor
  <1>2. h.G[k].item.name = g.G[k].item.name
    BY <1>1 DEF Kept
  <1>3. ~Leaf(h.G[n])
    BY <1>1 DEF Leaf, InOutOps
  <1>4. /\ Does(h.G, n).op = h.G[n].op /\ Does(h.G, n).no = h.G[n].rhs
        /\ Does(h.G, n).a = h.G[h.G[n].lhs].item.name
    BY <1>3 DEF Does, Quad
  <1> QED BY <1>1, <1>2, <1>4

-------------------------------------------------------------------------------
(* A block that shares no node.                                            *)

\* What a machine knows when its inputs and outputs are past.
State(s) == [val |-> s.val, ins |-> Inputs(s)]

\* Quadruple q takes state f to e.
Takes(q, f, e) ==
    /\ q.op \in {"leaf", "write_e"} => e = f
    /\ q.op = "read" => e = [val |-> Sets(f, q.a, <<"input", f.ins + 1>>), ins |-> f.ins + 1]
    /\ q.op \notin {"leaf", "write_e", "read"} =>
         e = [val |-> Sets(f, q.d, Result(q.op, f.val[q.d], f.val[q.a], f.val[q.b])), ins |-> f.ins]

\* The nodes, one after the other, go through the states F and print V.
Played(G, F, V) ==
    /\ F[0] = State(Start)
    /\ \A k \in 1..Len(G) :
         /\ Takes(Does(G, k), F[k - 1], F[k])
         /\ Does(G, k).op = "write_e" => V[Does(G, k).no] = F[k].val[Does(G, k).a]

\* A name is recorded for the node that was made for it.
Own(g) ==
    \A x \in DOMAIN g.record : /\ g.G[g.record[x]].op # "write_e"
                               /\ g.G[g.record[x]].item.name = x

LEMMA PlayedSame ==
  ASSUME NEW g, Graph(g), NEW h, Kept(g, h), Len(h.G) = Len(g.G), NEW F, NEW V, Played(g.G, F, V)
  PROVE  Played(h.G, F, V)
  <1>1. \A k \in 1..Len(g.G) : Does(h.G, k) = Does(g.G, k)
    BY DoesKept
  <1> QED BY <1>1 DEF Played

\* One node more.
Extend(F, n, e) == [i \in 0..(n + 1) |-> IF i = n + 1 THEN e ELSE F[i]]

\* From g to h there is one node more, which takes the state after g's to e; V is
\* what g's nodes print and W what h's do.
OneNodeMore(g, h, F, V, W, e) ==
    LET n == Len(g.G)
        q == Does(h.G, n + 1)
    IN /\ Graph(g) /\ Kept(g, h) /\ Len(h.G) = n + 1 /\ Played(g.G, F, V)
       /\ \A k \in 1..n : Does(g.G, k).op = "write_e" => W[Does(g.G, k).no] = V[Does(g.G, k).no]
       /\ Takes(q, F[n], e) /\ (q.op = "write_e" => W[q.no] = e.val[q.a])

LEMMA PlayedOn ==
  ASSUME NEW g, NEW h, NEW F, NEW V, NEW W, NEW e, OneNodeMore(g, h, F, V, W, e)
  PROVE  \E E : Played(h.G, E, W) /\ E[Len(h.G)] = e
  <1> DEFINE n == Len(g.G)
             q == Does(h.G, n + 1)
             E == Extend(F, n, e)
  <1>1. n \in Nat /\ Graph(g) /\ Kept(g, h) /\ Len(h.G) = n + 1 /\ Played(g.G, F, V)
    BY GraphFacts DEF OneNodeMore
  <1>2. E[n + 1] = e /\ \A i \in 0..n : E[i] = F[i]
    <2>1. n + 1 \in 0..(n + 1) /\ \A i \in 0..n : i \in 0..(n + 1) /\ i # n + 1
      BY <1>1
    <2> QED BY <2>1 DEF Extend
  <1>3. \A k \in 1..n : Does(h.G, k) = Does(g.G, k)
    BY <1>1, DoesKept
  <1>4. Takes(q, F[n], e) /\ (q.op = "write_e" => W[q.no] = e.val[q.a])
    BY DEF OneNodeMore
  <1>5. \A k \in 1..n : Does(g.G, k).op = "write_e" => W[Does(g.G, k).no] = V[Does(g.G, k).no]
    BY DEF OneNodeMore
  <1> HIDE DEF E
  <1>6. ASSUME NEW k \in 1..(n + 1)
        PROVE  /\ Takes(Does(h.G, k), E[k - 1], E[k])
               /\ Does(h.G, k).op = "write_e" => W[Does(h.G, k).no] = E[k].val[Does(h.G, k).a]
    <2>1. CASE k \in 1..n
      <3>1. k \in 0..n /\ k - 1 \in 0..n
        BY <1>1, <2>1
      <3>2. E[k] = F[k] /\ E[k - 1] = F[k - 1]
        BY <1>2, <3>1
      <3>3. /\ Takes(Does(g.G, k), F[k - 1], F[k])
            /\ Does(g.G, k).op = "write_e" => V[Does(g.G, k).no] = F[k].val[Does(g.G, k).a]
        BY <1>1, <2>1 DEF Played
      <3> QED BY <1>3, <1>5, <2>1, <3>2, <3>3
    <2>2. CASE k = n + 1
      <3>1. k - 1 = n /\ n \in 0..n
        BY <1>1, <2>2
      <3>2. E[k - 1] = F[n] /\ E[k] = e
        BY <1>2, <2>2, <3>1
      <3> QED BY <1>4, <2>2, <3>2
    <2> QED BY <1>1, <2>1, <2>2
  <1>7. E[0] = State(Start)
    <2>1. 0 \in 0..n
      BY <1>1
    <2> QED BY <1>1, <1>2, <2>1 DEF Played
  <1>8. Played(h.G, E, W)
    BY <1>1, <1>6, <1>7 DEF Played
  <1> QED BY <1>1, <1>2, <1>8

LEMMA PlayedLeaf ==
  ASSUME NEW g, Graph(g), NEW h, Kept(g, h), NEW x, NEW n, HasNode(g, h, x, n),
         NEW F, NEW V, Played(g.G, F, V)
  PROVE  \E E : Played(h.G, E, V) /\ E[Len(h.G)] = F[Len(g.G)]
  <1>1. CASE Len(h.G) = Len(g.G)
    <2>1. Played(h.G, F, V)
      BY <1>1, PlayedSame
    <2> QED BY <1>1, <2>1
  <1>2. CASE Len(h.G) # Len(g.G)
    <2>1. n = Len(g.G) + 1 /\ Len(h.G) = Len(g.G) + 1 /\ h.G[n].op = "leaf"
      BY <1>2 DEF HasNode, Leaf
    <2>2. Does(h.G, Len(g.G) + 1).op = "leaf"
      BY <2>1, DoesIs
    <2>3. Takes(Does(h.G, Len(g.G) + 1), F[Len(g.G)], F[Len(g.G)])
      BY <2>2 DEF Takes
    <2>4. OneNodeMore(g, h, F, V, V, F[Len(g.G)])
      BY <2>1, <2>2, <2>3 DEF OneNodeMore
    <2> QED BY <2>4, PlayedOn
  <1> QED BY <1>1, <1>2

\* The node found for a name was made for it.
LEMMA OwnNode ==
  ASSUME NEW g, Graph(g), Own(g), NEW h, Kept(g, h), NEW x, NEW n, HasNode(g, h, x, n)
  PROVE  h.G[n].item.name = x /\ h.G[n].op # "write_e"
  <1>1. CASE x \in DOMAIN g.record /\ g.record[x] = n
    <2>1. n \in 1..Len(g.G)
      BY <1>1 DEF Graph, Shaped
    <2> QED BY <1>1, <2>1 DEF Own, Kept
  <1>2. CASE Leaf(h.G[n]) /\ h.G[n].item.name = x
    BY <1>2 DEF Leaf
  <1> QED BY <1>1, <1>2 DEF HasNode

LEMMA OwnMaps ==
  ASSUME NEW g, Graph(g), Own(g), NEW h, Kept(g, h), NEW x, NEW n, Maps(g, h, x, n),
         h.G[n].item.name = x, h.G[n].op # "write_e"
  PROVE  Own(h)
  <1> SUFFICES ASSUME NEW y \in DOMAIN h.record
               PROVE  h.G[h.record[y]].op # "write_e" /\ h.G[h.record[y]].item.name = y
    BY DEF Own
  <1>1. CASE y = x
    BY <1>1 DEF Maps
  <1>2. CASE y # x
    <2>1. y \in DOMAIN g.record /\ h.record[y] = g.record[y]
      BY <1>2 DEF Maps
    <2>2. g.record[y] \in 1..Len(g.G)
      BY <2>1 DEF Graph, Shaped
    <2> QED BY <2>1, <2>2 DEF Own, Kept
  <1> QED BY <1>1, <1>2

LEMMA OwnSame ==
  ASSUME NEW g, Graph(g), Own(g), NEW h, Kept(g, h), h.record = g.record PROVE Own(h)
  <1>1. \A y \in DOMAIN g.record : g.record[y] \in 1..Len(g.G)
    BY DEF Graph, Shaped
  <1> QED BY <1>1 DEF Own, Kept

\* What is exported for a node is its quadruple.
LEMMA TakesOnce ==
  ASSUME NEW q, NEW f, NEW d, NEW e, Takes(q, f, d), Takes(q, f, e) PROVE d = e
  <1>1. CASE q.op \in {"leaf", "write_e"}
    BY <1>1 DEF Takes
  <1>2. CASE q.op = "read"
    BY <1>2 DEF Takes
  <1>3. CASE q.op \notin {"leaf", "write_e", "read"}
    BY <1>3 DEF Takes
  <1> QED BY <1>1, <1>2, <1>3

LEMMA ComputedTakes ==
  ASSUME NEW k, NEW node, node = graph.G[k], node.op \notin InOutOps,
         NEW a, NEW s, Computed(a, s, node)
  PROVE  Takes(Does(graph.G, k), State(a), State(s))
  <1> DEFINE q == Does(graph.G, k)
  <1>1. /\ q.op = node.op /\ q.d = node.item.name
        /\ ~Leaf(node) => q.a = NameOf(node.lhs) /\ q.b = NameOf(node.rhs)
    BY DoesIs DEF NameOf
  <1>2. State(a).val = a.val /\ State(a).ins = Inputs(a) /\ State(s) = [val |-> s.val, ins |-> Inputs(s)]
    BY DEF State
  <1>3. Inputs(s) = Inputs(a) /\ (Leaf(node) => s = a)
    BY DEF Computed, Inputs
  <1> HIDE DEF q
  <1>4. q.op # "write_e" /\ q.op # "read"
    BY <1>1 DEF InOutOps
  <1>5. CASE q.op = "leaf"
    <2>1. Leaf(node)
      BY <1>1, <1>5 DEF Leaf
    <2> QED BY <1>3, <1>4, <1>5, <2>1 DEF Takes, q
  <1>6. CASE q.op # "leaf"
    <2>1. ~Leaf(node)
      BY <1>1, <1>6 DEF Leaf
    <2>2. s.val = Sets(a, q.d, Result(q.op, a.val[q.d], a.val[q.a], a.val[q.b]))
      BY <1>1, <2>1 DEF Computed
    <2>3. \A x, v : Sets(State(a), x, v) = Sets(a, x, v)
      BY <1>2 DEF Sets
    <2>4. State(s) = [val |-> Sets(State(a), q.d, Result(q.op, a.val[q.d], a.val[q.a], a.val[q.b])),
                      ins |-> Inputs(a)]
      BY <1>2, <1>3, <2>2, <2>3
    <2>5. Takes(q, State(a), State(s))
      BY <1>2, <1>4, <1>6, <2>4 DEF Takes
    <2> QED BY <2>5 DEF q
  <1> QED BY <1>5, <1>6

LEMMA InputsNat == ASSUME NEW a, Machine(a) PROVE Inputs(a) \in Nat
  <1> DEFINE t == [io |-> Append(a.io, <<0>>)]
  <1>1. IsSeq(a.io) /\ t.io = Append(a.io, <<0>>)
    BY DEF Machine
  <1> HIDE DEF t
  <1> QED BY <1>1, InputsGrow

LEMMA DoneTakes ==
  ASSUME NEW k, NEW node, node = graph.G[k], node.op \in InOutOps,
         NEW a, Machine(a), NEW t, NEW s, Done(a, t, s, node)
  PROVE  Takes(Does(graph.G, k), State(a), State(s))
  <1> DEFINE q == Does(graph.G, k)
  <1>1. q.op = node.op /\ q.a = NameOf(node.lhs)
    <2>1. ~Leaf(node)
      BY DEF Leaf, InOutOps
    <2> QED BY <2>1, DoesIs DEF NameOf
  <1>2. State(a).val = a.val /\ State(a).ins = Inputs(a) /\ State(s) = [val |-> s.val, ins |-> Inputs(s)]
    BY DEF State
  <1>3. Inputs(s) = Inputs(a) + (IF node.op = "read" THEN 1 ELSE 0) /\ Inputs(a) \in Nat
    BY InputsDone, InputsNat
  <1> HIDE DEF q
  <1>4. CASE q.op = "read"
    <2>1. s.val = Sets(a, q.a, <<"input", Inputs(a) + 1>>) /\ Inputs(s) = Inputs(a) + 1
      BY <1>1, <1>3, <1>4 DEF Done
    <2>2. Sets(State(a), q.a, <<"input", Inputs(a) + 1>>) = Sets(a, q.a, <<"input", Inputs(a) + 1>>)
      BY <1>2 DEF Sets
    <2>3. Takes(q, State(a), State(s))
      BY <1>2, <1>4, <2>1, <2>2 DEF Takes
    <2> QED BY <2>3 DEF q
  <1>5. CASE q.op = "write_e"
    <2>1. s.val = a.val /\ Inputs(s) = Inputs(a)
      BY <1>1, <1>3, <1>5 DEF Done
    <2>2. Takes(q, State(a), State(s))
      BY <1>5, <2>1 DEF State, Takes
    <2> QED BY <2>2 DEF q
  <1> QED BY <1>1, <1>4, <1>5 DEF InOutOps

\* The block b with graph g is what the nodes do, one after the other, printing V.
Plays(g, b, V) == \E F : Played(g.G, F, V) /\ F[Len(g.G)] = State(b)

LEMMA StateSame ==
  ASSUME NEW b, NEW c, c.val = b.val, c.io = b.io PROVE State(c) = State(b)
  BY DEF State, Inputs

LEMMA PlaysLeaf ==
  ASSUME NEW g, Graph(g), Own(g), NEW h, Kept(g, h), NEW x, NEW n, HasNode(g, h, x, n),
         NEW b, NEW V, Plays(g, b, V)
  PROVE  Plays(h, b, V)
  <1>1. PICK F : Played(g.G, F, V) /\ F[Len(g.G)] = State(b)
    BY DEF Plays
  <1>2. \E E : Played(h.G, E, V) /\ E[Len(h.G)] = F[Len(g.G)]
    BY <1>1, PlayedLeaf
  <1> QED BY <1>1, <1>2 DEF Plays

LEMMA PlaysUsed ==
  ASSUME NEW g, Own(g), NEW h, NEW x, NEW n, UsedFor(g, h, x, n), NEW b, NEW V, Plays(g, b, V)
  PROVE  Own(h) /\ Plays(h, b, V) /\ h.G[n].item.name = x /\ n \in 1..Len(h.G) /\ Graph(h)
  <1>1. /\ Graph(g) /\ Graph(h) /\ Kept(g, h) /\ n \in 1..Len(h.G)
        /\ HasNode(g, h, x, n) /\ Maps(g, h, x, n)
    BY DEF UsedFor
  <1>2. h.G[n].item.name = x /\ h.G[n].op # "write_e"
    BY <1>1, OwnNode
  <1>3. Own(h)
    BY <1>1, <1>2, OwnMaps
  <1>4. Plays(h, b, V)
    BY <1>1, PlaysLeaf
  <1> QED BY <1>1, <1>2, <1>3, <1>4

\* An operation given a node of its own.
LEMMA PlaysBuilt ==
  ASSUME NEW g, Own(g), NEW h, NEW q, Assigns(q), Built(g, h, q, FALSE),
         NEW b, Machine(b), NEW V, Plays(g, b, V)
  PROVE  Own(h) /\ Plays(h, Exec(b, q), V)
  <1>1. PICK g1, g2, l, r, k :
           /\ UsedFor(g, g1, q.a, l) /\ UsedFor(g1, g2, q.b, r)
           /\ OperationFor(g2, h, q.op, q.d, l, r, k)
           /\ Len(h.G) = Len(g2.G) + 1
    BY DEF Built
  <1>2. Own(g1) /\ Plays(g1, b, V) /\ g1.G[l].item.name = q.a /\ l \in 1..Len(g1.G)
    BY <1>1, PlaysUsed
  <1>3. Own(g2) /\ Plays(g2, b, V) /\ g2.G[r].item.name = q.b /\ Graph(g2)
    BY <1>1, <1>2, PlaysUsed
  <1>4. g2.G[l].item.name = q.a
    BY <1>1, <1>2 DEF UsedFor, Kept
  <1>5. q.op # "leaf" /\ q.op \notin InOutOps /\ Silent(q.op)
    BY DEF Assigns
  <1>6. Len(g2.G) \in Nat
    BY <1>3, GraphFacts
  <1>7. /\ k = Len(g2.G) + 1 /\ Len(h.G) = k
        /\ Does(h.G, k).op = q.op /\ Does(h.G, k).d = q.d
        /\ Does(h.G, k).a = q.a /\ Does(h.G, k).b = q.b
    <2>1. Len(h.G) # Len(g2.G)
      BY <1>1, <1>6
    <2>2. /\ k = Len(g2.G) + 1 /\ Len(h.G) = k
          /\ Does(h.G, k).op = q.op /\ Does(h.G, k).d = q.d
          /\ Does(h.G, k).a = g2.G[l].item.name /\ Does(h.G, k).b = g2.G[r].item.name
      <3>1. OperationFor(g2, h, q.op, q.d, l, r, k)
        BY <1>1
      <3>2. ASSUME NEW op, op # "leaf", op \notin InOutOps, OperationFor(g2, h, op, q.d, l, r, k)
            PROVE  /\ k = Len(g2.G) + 1 /\ Len(h.G) = k
                   /\ Does(h.G, k).op = op /\ Does(h.G, k).d = q.d
                   /\ Does(h.G, k).a = g2.G[l].item.name /\ Does(h.G, k).b = g2.G[r].item.name
        BY <2>1, <3>2, NewOperation
      <3> QED BY <1>5, <3>1, <3>2
    <2> QED BY <1>3, <1>4, <2>2
  <1> DEFINE t == Exec(b, q)
  <1>8. /\ t.io = b.io
        /\ t.val = Sets(b, q.d, Result(q.op, b.val[q.d], b.val[q.a], b.val[q.b]))
    BY <1>5, ExecAssign
  <1>9. State(t) = [val |-> Sets(b, q.d, Result(q.op, b.val[q.d], b.val[q.a], b.val[q.b])),
                    ins |-> Inputs(b)]
    BY <1>8 DEF State, Inputs
  <1> HIDE DEF t
  <1>10. Takes(Does(h.G, k), State(b), State(t))
    <2>1. Does(h.G, k).op \notin {"leaf", "write_e", "read"}
      BY <1>5, <1>7 DEF InOutOps
    <2>2. State(b).val = b.val /\ State(b).ins = Inputs(b)
      BY DEF State
    <2>3. Sets(State(b), q.d, Result(q.op, b.val[q.d], b.val[q.a], b.val[q.b]))
          = Sets(b, q.d, Result(q.op, b.val[q.d], b.val[q.a], b.val[q.b]))
      BY <2>2 DEF Sets
    <2> QED BY <1>7, <1>9, <2>1, <2>2, <2>3 DEF Takes
  <1>11. PICK F : Played(g2.G, F, V) /\ F[Len(g2.G)] = State(b)
    BY <1>3 DEF Plays
  <1>12. Graph(g2) /\ Graph(h) /\ Kept(g2, h) /\ Maps(g2, h, q.d, k) /\ h.G[k].op = q.op
    BY <1>1 DEF OperationFor
  <1>13. OneNodeMore(g2, h, F, V, V, State(t))
    <2>1. Does(h.G, k).op # "write_e"
      BY <1>5, <1>7 DEF InOutOps
    <2> QED BY <1>7, <1>10, <1>11, <1>12, <2>1 DEF OneNodeMore
  <1>14. Plays(h, t, V)
    BY <1>13, PlayedOn DEF Plays
  <1>15. h.G[k].item.name = q.d
    BY <1>7, DoesIs
  <1>16. Own(h)
    <2>1. h.G[k].op # "write_e"
      BY <1>5, <1>12 DEF InOutOps
    <2> QED BY <1>3, <1>12, <1>15, <2>1, OwnMaps
  <1> QED BY <1>14, <1>16 DEF t

\* Only a read is an input.
LEMMA InputsStay ==
  ASSUME NEW b, Machine(b), NEW q, q.op \in {"write_e", "write_s"}
  PROVE  Inputs(Exec(b, q)) = Inputs(b)
  <1> DEFINE t == Exec(b, q)
  <1>1. IsSeq(b.io)
    BY DEF Machine
  <1>2. \E c : c[1] # "in" /\ t.io = Append(b.io, c)
    <2>1. CASE q.op = "write_e"
      <3> DEFINE c == <<"out", q.no, b.val[q.d]>>
      <3>1. t.io = Append(b.io, c) /\ c[1] # "in"
        BY <2>1, ExecWrite
      <3> QED BY <3>1
    <2>2. CASE q.op = "write_s"
      <3> DEFINE c == <<"text", q.no>>
      <3>1. t.io = Append(b.io, c) /\ c[1] # "in"
        BY <2>2, ExecText
      <3> QED BY <3>1
    <2> QED BY <2>1, <2>2
  <1>3. PICK c : c[1] # "in" /\ t.io = Append(b.io, c)
    BY <1>2
  <1> HIDE DEF t
  <1>4. Inputs(b) \in Nat /\ Inputs(t) = Inputs(b) + (IF c[1] = "in" THEN 1 ELSE 0)
    BY <1>1, <1>3, InputsGrow
  <1> QED BY <1>3, <1>4 DEF t

\* Name x has node k in w and is read or written, at position r, by node n of h.
InOutPlace(g, w, h, op, x, k, r, n) ==
    /\ Graph(g) /\ Graph(w) /\ Kept(g, w) /\ Kept(w, h) /\ HasNode(g, w, x, k)
    /\ n = Len(w.G) + 1 /\ Len(h.G) = n /\ Own(w)
    /\ Does(h.G, n).op = op /\ Does(h.G, n).a = x /\ Does(h.G, n).no = r /\ h.G[n].op = op

LEMMA InOutPlaced ==
  ASSUME NEW g, Own(g), NEW w, NEW h, NEW x, NEW k, LeafFor(g, w, x, k),
         NEW op \in InOutOps, NEW r, NEW n, InOutFor(w, h, op, k, r, n)
  PROVE  InOutPlace(g, w, h, op, x, k, r, n)
  <1>1. Graph(g) /\ Graph(w) /\ Kept(g, w) /\ HasNode(g, w, x, k) /\ w.record = g.record
    BY DEF LeafFor
  <1>2. Kept(w, h) /\ n = Len(w.G) + 1 /\ Len(h.G) = n /\ h.G[n].op = op
    BY DEF InOutFor
  <1>3. Own(w) /\ w.G[k].item.name = x
    BY <1>1, OwnSame, OwnNode
  <1>4. /\ Does(h.G, n).op = op /\ Does(h.G, n).a = w.G[k].item.name /\ Does(h.G, n).no = r
    BY NewInOut
  <1> QED BY <1>1, <1>2, <1>3, <1>4 DEF InOutPlace

\* A name read into.
LEMMA PlaysRead ==
  ASSUME NEW g, Own(g), NEW w, NEW h, NEW x, NEW k, LeafFor(g, w, x, k), NEW p, NEW n,
         InOutFor(w, h, "read", k, p, n), h.G[n].item.name = x, Maps(w, h, x, n),
         NEW b, Machine(b), NEW V, Plays(g, b, V), NEW q, q.op = "read", q.d = x
  PROVE  Own(h) /\ Plays(h, Exec(b, q), V)
  <1>1. /\ Graph(g) /\ Graph(w) /\ Kept(g, w) /\ Kept(w, h) /\ HasNode(g, w, x, k)
        /\ n = Len(w.G) + 1 /\ Len(h.G) = n /\ Own(w)
        /\ Does(h.G, n).op = "read" /\ Does(h.G, n).a = x /\ h.G[n].op = "read"
    <2>1. InOutPlace(g, w, h, "read", x, k, p, n)
      BY InOutPlaced DEF InOutOps
    <2> QED BY <2>1 DEF InOutPlace
  <1>2. PICK F : Played(w.G, F, V) /\ F[Len(w.G)] = State(b)
    <2>1. Plays(w, b, V)
      BY <1>1, PlaysLeaf
    <2> QED BY <2>1 DEF Plays
  <1> DEFINE t == Exec(b, q)
             v == <<"input", Inputs(b) + 1>>
             e == <<"in", q.no>>
  <1>3. t.io = Append(b.io, e) /\ e[1] = "in" /\ t.val = Sets(b, x, v)
    BY ExecRead
  <1>4. Inputs(t) = Inputs(b) + 1
    <2>1. IsSeq(b.io)
      BY DEF Machine
    <2> HIDE DEF t, e
    <2>2. Inputs(t) = Inputs(b) + (IF e[1] = "in" THEN 1 ELSE 0)
      BY <1>3, <2>1, InputsGrow
    <2> QED BY <1>3, <2>2
  <1>5. State(t) = [val |-> Sets(b, x, v), ins |-> Inputs(b) + 1]
    BY <1>3, <1>4 DEF State
  <1> HIDE DEF t
  <1>6. Takes(Does(h.G, n), State(b), State(t))
    <2>1. State(b).ins = Inputs(b) /\ Sets(State(b), x, v) = Sets(b, x, v)
      BY DEF State, Sets
    <2> QED BY <1>1, <1>5, <2>1 DEF Takes
  <1>7. OneNodeMore(w, h, F, V, V, State(t))
    BY <1>1, <1>2, <1>6 DEF OneNodeMore
  <1>8. Plays(h, t, V)
    BY <1>7, PlayedOn DEF Plays
  <1>9. Own(h)
    BY <1>1, OwnMaps
  <1> QED BY <1>8, <1>9 DEF t

\* A name written, at position r.
LEMMA PlaysWrite ==
  ASSUME NEW g, Own(g), NEW p \in Nat, Dated(g, p), NEW r \in Nat, p < r,
         NEW w, NEW h, NEW x, NEW k, LeafFor(g, w, x, k), NEW n,
         InOutFor(w, h, "write_e", k, r, n), h.record = w.record,
         NEW b, Machine(b), NEW V, Plays(g, b, V), NEW q, q.op = "write_e",
         NEW W, W[r] = b.val[x], \A i \in Nat : i # r => W[i] = V[i]
  PROVE  Own(h) /\ Plays(h, Exec(b, q), W)
  <1>1. /\ Graph(g) /\ Graph(w) /\ Kept(g, w) /\ Kept(w, h) /\ HasNode(g, w, x, k)
        /\ n = Len(w.G) + 1 /\ Len(h.G) = n /\ Own(w)
        /\ Does(h.G, n).op = "write_e" /\ Does(h.G, n).a = x /\ Does(h.G, n).no = r
    <2>1. InOutPlace(g, w, h, "write_e", x, k, r, n)
      BY InOutPlaced DEF InOutOps
    <2> QED BY <2>1 DEF InOutPlace
  <1>2. PICK F : Played(w.G, F, V) /\ F[Len(w.G)] = State(b)
    <2>1. Plays(w, b, V)
      BY <1>1, PlaysLeaf
    <2> QED BY <2>1 DEF Plays
  <1>3. ASSUME NEW j \in 1..Len(w.G), Does(w.G, j).op = "write_e"
        PROVE  W[Does(w.G, j).no] = V[Does(w.G, j).no]
    <2>1. Dated(w, p)
      <3>1. Quiet(g, w)
        BY <1>1, HasNodeQuiet
      <3> QED BY <3>1, QuietSame
    <2>2. w.G[j].op = "write_e" /\ Does(w.G, j).no = w.G[j].rhs
      BY <1>3, DoesIs
    <2>3. j \in InOuts(w.G, 0)
      BY <2>2 DEF InOuts, InOutOps
    <2>4. w.G[j].rhs \in 1..p
      BY <2>1, <2>3 DEF Dated
    <2>5. w.G[j].rhs \in Nat /\ w.G[j].rhs # r
      BY <2>4
    <2> QED BY <2>2, <2>5
  <1> DEFINE t == Exec(b, q)
  <1>4. State(t) = State(b) /\ State(b).val = b.val
    BY ExecWrite, InputsStay DEF State
  <1> HIDE DEF t
  <1>5. Takes(Does(h.G, n), State(b), State(b))
    BY <1>1 DEF Takes
  <1>6. OneNodeMore(w, h, F, V, W, State(b))
    BY <1>1, <1>2, <1>3, <1>4, <1>5 DEF OneNodeMore
  <1>7. Plays(h, t, W)
    BY <1>4, <1>6, PlayedOn DEF Plays
  <1>8. Own(h)
    BY <1>1, OwnSame
  <1> QED BY <1>7, <1>8 DEF t

-------------------------------------------------------------------------------
(* The invariant of a block that shares no node.                           *)

\* The nodes do what the block b does, and block a has come as far as node m.
Replayed(g, b, a, m) ==
    \E V : /\ V = [i \in Nat |-> V[i]] /\ Explained(b, V) /\ Explained(a, V)
           /\ \E F : /\ Played(g.G, F, V)
                     /\ F[Len(g.G)] = State(b) /\ F[m] = State(a)

SInv == XInv /\ (~shared => Own(graph) /\ Replayed(graph, before, after, Exported))

LEMMA ReplayedPlays ==
  ASSUME NEW g, NEW b
  PROVE  Replayed(g, b, Start, 0)
         <=> \E V : V = [i \in Nat |-> V[i]] /\ Explained(b, V) /\ Plays(g, b, V)
  <1>1. \A V : Explained(Start, V)
    BY ExplainedStart
  <1>2. \A F, V : Played(g.G, F, V) => F[0] = State(Start)
    BY DEF Played
  <1> QED BY <1>1, <1>2 DEF Replayed, Plays

\* A step of building that shares no node.
LEMMA BuildingSInv ==
  ASSUME SInv, XInv', Building,
         ~shared' => /\ ~shared
                     /\ Own(graph) /\ Replayed(graph, before, Start, 0)
                        => Own(graph') /\ Replayed(graph', before', Start, 0)
  PROVE  SInv'
  <1>1. after = Start /\ Exported = 0 /\ after' = Start /\ Exported' = 0
    BY DEF SInv, XInv, Stacked, Building, Exported
  <1> QED BY <1>1 DEF SInv

LEMMA OperationSInv ==
  ASSUME SInv, XInv', Move \/ Arithmetic \/ LoadElem \/ StoreElem PROVE SInv'
  <1>1. XInv /\ IInv
    BY DEF SInv, XInv
  <1>2. PICK q, hit : /\ Building /\ Assigns(q) /\ Built(graph, graph', q, hit)
                      /\ before' = Exec(before, q) /\ (~shared' => ~shared /\ ~hit)
    BY <1>1, OperationStep
  <1>3. Machine(before)
    BY <1>1 DEF XInv, Together
  <1>4. ASSUME ~shared', Own(graph), Replayed(graph, before, Start, 0)
        PROVE  Own(graph') /\ Replayed(graph', before', Start, 0)
    <2>1. PICK V : V = [i \in Nat |-> V[i]] /\ Explained(before, V) /\ Plays(graph, before, V)
      BY <1>4, ReplayedPlays
    <2>2. Built(graph, graph', q, FALSE)
      BY <1>2, <1>4 DEF Built
    <2>3. Own(graph') /\ Plays(graph', before', V)
      BY <1>2, <1>3, <1>4, <2>1, <2>2, PlaysBuilt
    <2>4. before'.io = before.io
      BY <1>2, <1>3, ExecAssign DEF Assigns
    <2>5. Explained(before', V)
      BY <2>1, <2>4, ExplainedSame
    <2> QED BY <2>1, <2>3, <2>5, ReplayedPlays
  <1> QED BY <1>2, <1>4, BuildingSInv

LEMMA ReadSInv == ASSUME SInv, XInv', ReadVar PROVE SInv'
  <1>1. XInv /\ IInv /\ Machine(before)
    BY DEF SInv, XInv, Together
  <1>2. PICK x, q, q2, g, w, k, n, hit :
           /\ Building /\ Assigns(q) /\ q.d = x /\ Built(graph, g, q, hit)
           /\ LeafFor(g, w, x, k) /\ InOutFor(w, graph', "read", k, len + 2, n)
           /\ graph'.G[n].item.name = x /\ Maps(w, graph', x, n)
           /\ q2.op = "read" /\ q2.d = x /\ q2.no = len + 2
           /\ before' = Exec(Exec(before, q), q2)
           /\ (~shared' => ~shared /\ ~hit)
    BY <1>1, ReadStep
  <1> DEFINE c == Exec(before, q)
  <1>3. Machine(c) /\ c.io = before.io
    BY <1>1, <1>2, ExecAssign DEF Assigns
  <1>4. ASSUME ~shared', Own(graph), Replayed(graph, before, Start, 0)
        PROVE  Own(graph') /\ Replayed(graph', before', Start, 0)
    <2>1. PICK V : V = [i \in Nat |-> V[i]] /\ Explained(before, V) /\ Plays(graph, before, V)
      BY <1>4, ReplayedPlays
    <2>2. Built(graph, g, q, FALSE)
      BY <1>2, <1>4 DEF Built
    <2>3. Own(g) /\ Plays(g, c, V)
      BY <1>1, <1>2, <1>4, <2>1, <2>2, PlaysBuilt
    <2>4. before' = Exec(c, q2) /\ Explained(c, V)
      BY <1>2, <1>3, <2>1, ExplainedSame
    <2> HIDE DEF c
    <2>5. Own(graph') /\ Plays(graph', before', V)
      BY <1>2, <1>3, <2>3, <2>4, PlaysRead
    <2>6. before'.io = Append(c.io, <<"in", q2.no>>)
      BY <1>2, <1>3, <2>4, ExecRead
    <2>7. Explained(before', V)
      BY <1>3, <2>4, <2>6, ExplainedMore
    <2> QED BY <2>1, <2>5, <2>7, ReplayedPlays
  <1> QED BY <1>2, <1>4, BuildingSInv

LEMMA WriteSInv == ASSUME SInv, XInv', Write PROVE SInv'
  <1>1. XInv /\ IInv /\ len \in Nat
    BY DEF SInv, XInv, IInv
  <1>2. PICK x, q, w, k, n :
           /\ x \in Value /\ Building /\ LeafFor(graph, w, x, k) /\ InOutFor(w, graph', "write_e", k, len + 1, n)
           /\ graph'.record = w.record
           /\ q.op = "write_e" /\ q.d = x /\ q.no = len + 1
           /\ before' = Exec(before, q) /\ (~shared' => ~shared)
    BY <1>1, WriteStep
  <1>3. Machine(before) /\ InTime(before, len) /\ Dated(graph, len)
    BY <1>1 DEF XInv, Together
  <1>4. ASSUME ~shared', Own(graph), Replayed(graph, before, Start, 0)
        PROVE  Own(graph') /\ Replayed(graph', before', Start, 0)
    <2>1. PICK V : V = [i \in Nat |-> V[i]] /\ Explained(before, V) /\ Plays(graph, before, V)
      BY <1>4, ReplayedPlays
    <2> DEFINE r == len + 1
               W == Later(V, r, before.val[x])
    <2>2. r \in Nat /\ len < r
      BY <1>1
    <2>3. /\ W = [i \in Nat |-> W[i]] /\ W[r] = before.val[x]
          /\ \A i \in Nat : i # r => W[i] = V[i]
      BY <2>1, <2>2, LaterIs
    <2>4. Explained(before, W)
      <3>1. \A i \in 1..Len(before.io) : before.io[i][2] \in 1..len
        BY <1>3 DEF InTime
      <3> QED BY <1>1, <2>1, <2>2, <3>1, ExplainedLater
    <2>5. before'.io = Append(before.io, <<"out", r, before.val[x]>>)
      BY <1>2, <1>3, ExecWrite
    <2>6. InOutFor(w, graph', "write_e", k, r, n)
      BY <1>2
    <2> HIDE DEF W, r
    <2>7. before'.io = Append(before.io, <<"out", r, W[r]>>)
      BY <2>3, <2>5
    <2>8. Explained(before', W)
      BY <1>3, <2>4, <2>7, ExplainedMore
    <2>9. Own(graph') /\ Plays(graph', before', W)
      BY <1>1, <1>2, <1>3, <1>4, <2>1, <2>2, <2>3, <2>6, PlaysWrite
    <2> QED BY <2>3, <2>8, <2>9, ReplayedPlays
  <1> QED BY <1>2, <1>4, BuildingSInv

LEMMA TextSInv == ASSUME SInv, XInv', WriteText PROVE SInv'
  <1>1. XInv /\ IInv /\ Machine(before) /\ Graph(graph)
    BY DEF SInv, XInv, Together, IInv
  <1>2. PICK q : /\ Building /\ graph' = [graph EXCEPT !.IOBuf = Append(@, len + 1)]
                 /\ q.op = "write_s" /\ q.no = len + 1
                 /\ before' = Exec(before, q) /\ (~shared' => ~shared)
    BY <1>1, TextStep
  <1>3. graph'.G = graph.G /\ graph'.record = graph.record
    BY <1>1, <1>2, OtherBuf
  <1>4. ASSUME ~shared', Own(graph), Replayed(graph, before, Start, 0)
        PROVE  Own(graph') /\ Replayed(graph', before', Start, 0)
    <2>1. PICK V : V = [i \in Nat |-> V[i]] /\ Explained(before, V) /\ Plays(graph, before, V)
      BY <1>4, ReplayedPlays
    <2>2. before'.val = before.val /\ before'.io = Append(before.io, <<"text", q.no>>)
      BY <1>1, <1>2, ExecText
    <2>3. State(before') = State(before)
      BY <1>1, <1>2, <2>2, InputsStay DEF State
    <2>4. Explained(before', V)
      BY <1>1, <2>1, <2>2, ExplainedMore
    <2>5. Own(graph') /\ Plays(graph', before', V)
      BY <1>3, <1>4, <2>1, <2>3 DEF Own, Plays
    <2> QED BY <2>1, <2>4, <2>5, ReplayedPlays
  <1> QED BY <1>2, <1>4, BuildingSInv

LEMMA DueStrings ==
  ASSUME NEW p \in Nat, Dated(graph, p), NEW k \in 1..Len(graph.G), NEW node, node = graph.G[k],
         node.op \in InOutOps
  PROVE  Due(node.rhs) \in Seq(Nat)
  <1>1. k \in InOuts(graph.G, 0)
    BY DEF InOuts
  <1>2. node.rhs \in 1..p
    BY <1>1 DEF Dated
  <1>3. graph.IOBuf \in Seq(Nat) /\ Rising(graph.IOBuf) /\ node.rhs \in Nat
    BY <1>2 DEF Dated
  <1> QED BY <1>3, DueSplits DEF Splits

\* Exporting a node goes one state further.
LEMMA ReplayedNode ==
  ASSUME IInv, Own(graph), NEW p \in Nat, Dated(graph, p),
         NEW F, NEW V, Played(graph.G, F, V),
         NEW k \in 1..Len(graph.G), NEW node, node = graph.G[k],
         NEW a, Machine(a), Explained(a, V), F[k - 1] = State(a), NEW s, s = Run(a, Trans(node))
  PROVE  Explained(s, V) /\ F[k] = State(s)
  <1>1. Takes(Does(graph.G, k), State(a), F[k])
    BY DEF Played
  <1>2. /\ node.op \notin InOutOps => Computed(a, s, node)
        /\ node.op \in InOutOps => \E t : Done(a, t, s, node)
    BY ExportedNode
  <1>3. CASE node.op \notin InOutOps
    <2>1. Computed(a, s, node)
      BY <1>2, <1>3
    <2>2. Takes(Does(graph.G, k), State(a), State(s))
      BY <1>3, <2>1, ComputedTakes
    <2>3. s.io = a.io
      BY <2>1 DEF Computed
    <2> QED BY <1>1, <2>2, <2>3, TakesOnce, ExplainedSame
  <1>4. CASE node.op \in InOutOps
    <2>1. PICK t : Done(a, t, s, node)
      BY <1>2, <1>4
    <2>2. Takes(Does(graph.G, k), State(a), State(s))
      BY <1>4, <2>1, DoneTakes
    <2>3. node.op = "write_e" => V[node.rhs] = a.val[NameOf(node.lhs)]
      <3>1. CASE node.op = "write_e"
        <4> DEFINE q == Does(graph.G, k)
        <4>1. q.op = "write_e" /\ q.no = node.rhs /\ q.a = NameOf(node.lhs)
          <5>1. ~Leaf(node)
            BY <3>1 DEF Leaf
          <5> QED BY <3>1, <5>1 DEF Does, Quad, NameOf
        <4>2. V[q.no] = F[k].val[q.a]
          BY <4>1 DEF Played
        <4>3. F[k] = State(a)
          BY <1>1, <4>1 DEF Takes
        <4> QED BY <4>1, <4>2, <4>3 DEF State
      <3> QED BY <3>1
    <2>4. Due(node.rhs) \in Seq(Nat)
      BY <1>4, DueStrings
    <2>5. Explained(s, V)
      BY <1>4, <2>1, <2>3, <2>4, ExplainedDone
    <2> QED BY <1>1, <2>2, <2>5, TakesOnce
  <1> QED BY <1>3, <1>4

\* A node stands for its own name only, and copies it to nowhere.
LEMMA NoCopies ==
  ASSUME IInv, Own(graph), NEW k \in 1..Len(graph.G), NEW node, node = graph.G[k],
         Len(node.items) \in Nat,
         NEW s, Machine(s), NEW u, CopiesDone(s, u, node, Len(node.items))
  PROVE  u.val = s.val /\ u.io = s.io
  <1> DEFINE C == Copied(node, Len(node.items))
  <1>1. C \subseteq Holds(node)
    BY CopiedNames
  <1>2. \A x \in Holds(node) : x = node.item.name /\ x \in Value
    <2>1. Holds(node) = Recorded(graph.record, k) /\ DOMAIN graph.record \subseteq Value
      BY DEF IInv, Graph, Named, Shaped
    <2> QED BY <2>1 DEF Recorded, Own
  <1> HIDE DEF C
  <1>3. node.item.name \in Value \/ C = {}
    BY <1>1, <1>2
  <1>4. /\ \A v \in Value \cap C : u.val[v] = s.val[node.item.name]
        /\ \A v \in Value \ C : u.val[v] = s.val[v]
        /\ Machine(u) /\ u.io = s.io
    BY <1>3 DEF CopiesDone, C
  <1>5. \A v \in Value : u.val[v] = s.val[v]
    BY <1>1, <1>2, <1>4
  <1>6. u.val = [v \in Value |-> u.val[v]] /\ s.val = [v \in Value |-> s.val[v]]
    BY <1>4 DEF Machine
  <1> QED BY <1>4, <1>5, <1>6

LEMMA ExportSInv == ASSUME SInv, XInv', Export PROVE SInv'
  <1>1. XInv /\ IInv /\ len \in Nat /\ Dated(graph, len) /\ Machine(after)
    BY DEF SInv, XInv, IInv, Together
  <1>2. PICK k, node :
           /\ k \in 1..Len(graph.G) /\ Exported = k - 1 /\ Exported' = k /\ node = graph.G[k]
           /\ after' = Run(Run(after, Trans(node)), Copies(node))
           /\ graph'.G = graph.G /\ graph'.record = graph.record
           /\ UNCHANGED <<shared, before>>
    BY <1>1, ExportStep
  <1> DEFINE s == Run(after, Trans(node))
  <1>3. ASSUME ~shared'
        PROVE  Own(graph') /\ Replayed(graph', before', after', Exported')
    <2>1. Own(graph) /\ Replayed(graph, before, after, Exported)
      BY <1>2, <1>3 DEF SInv
    <2>2. PICK V, F : /\ V = [i \in Nat |-> V[i]] /\ Explained(before, V) /\ Explained(after, V)
                      /\ Played(graph.G, F, V)
                      /\ F[Len(graph.G)] = State(before) /\ F[Exported] = State(after)
      BY <2>1 DEF Replayed
    <2>3. PICK a : a = after
      OBVIOUS
    <2>4. s = Run(a, Trans(node)) /\ Machine(a)
      BY <1>1, <2>3
    <2>5. Explained(s, V) /\ F[k] = State(s)
      BY <1>1, <1>2, <2>1, <2>2, <2>3, <2>4, ReplayedNode
    <2>6. Machine(s) /\ Len(node.items) \in Nat /\ CopiesDone(s, after', node, Len(node.items))
      BY <1>1, <1>2, <2>3, <2>4, ExportedNode
    <2> HIDE DEF s
    <2>7. after'.val = s.val /\ after'.io = s.io
      <3>1. PICK u : u = after'
        OBVIOUS
      <3>2. u.val = s.val /\ u.io = s.io
        BY <1>1, <1>2, <2>1, <2>6, <3>1, NoCopies
      <3> QED BY <3>1, <3>2
    <2>8. Explained(after', V) /\ F[k] = State(after')
      BY <2>5, <2>7, ExplainedSame, StateSame
    <2>9. Own(graph')
      BY <1>2, <2>1 DEF Own
    <2>10. Replayed(graph', before', after', Exported')
      BY <1>2, <2>2, <2>8 DEF Replayed
    <2> QED BY <2>9, <2>10
  <1> QED BY <1>3 DEF SInv

LEMMA EndExportSInv == ASSUME SInv, XInv', EndExport PROVE SInv'
  <1>1. /\ phase = "export" /\ stack = <<>> /\ phase' = "end" /\ stack' = stack
        /\ after' = Run(after, Texts(graph.IOBuf)) /\ graph' = [graph EXCEPT !.IOBuf = <<>>]
        /\ UNCHANGED <<shared, before>>
    BY DEF EndExport
  <1>2. Graph(graph) /\ graph.IOBuf \in Seq(Nat) /\ Machine(after)
    BY DEF SInv, XInv, IInv, Together, Dated
  <1>3. graph'.G = graph.G /\ graph'.record = graph.record
    BY <1>1, <1>2, OtherBuf
  <1>4. Exported' = Exported
    BY <1>1, <1>3 DEF Exported
  <1>5. Prints(after, after', graph.IOBuf, Len(graph.IOBuf)) /\ Len(graph.IOBuf) \in Nat
    BY <1>1, <1>2, TextsRun
  <1>6. State(after') = State(after)
    BY <1>5 DEF Prints, State
  <1>7. \A V : Explained(after, V) => Explained(after', V)
    BY <1>2, <1>5, ExplainedPrints
  <1>8. ASSUME ~shared'
        PROVE  Own(graph') /\ Replayed(graph', before', after', Exported')
    <2>1. Own(graph) /\ Replayed(graph, before, after, Exported)
      BY <1>1, <1>8 DEF SInv
    <2>2. Own(graph')
      BY <1>3, <2>1 DEF Own
    <2>3. Replayed(graph', before', after', Exported')
      BY <1>1, <1>3, <1>4, <1>6, <1>7, <2>1 DEF Replayed
    <2> QED BY <2>2, <2>3
  <1> QED BY <1>8 DEF SInv

LEMMA NothingExported ==
  ASSUME XInv, EndBuild \/ Pick \/ EndOrder \/ UNCHANGED vars PROVE Exported' = Exported
  <1>1. CASE EndBuild \/ Pick
    BY <1>1 DEF EndBuild, Pick, Exported
  <1>2. CASE EndOrder
    <2>1. phase = "order" /\ phase' = "export" /\ graph' = graph /\ stack' = stack /\ nodes = <<>>
      BY <1>2, EndOrderIInv DEF EndOrder, XInv, IInv
    <2>2. Len(stack) = Len(graph.G) /\ Len(graph.G) \in Nat
      <3>1. Ordering /\ Len(nodes) = 0
        BY <2>1 DEF XInv, IInv
      <3>2. Len(stack) \in Nat /\ Len(graph.G) \in Nat
        BY <3>1, GraphFacts DEF Ordering, XInv, IInv
      <3> QED BY <3>1, <3>2 DEF Ordering
    <2> QED BY <2>1, <2>2 DEF Exported
  <1>3. CASE UNCHANGED vars
    BY <1>3 DEF vars, Exported
  <1> QED BY <1>1, <1>2, <1>3

LEMMA OrderSInv ==
  ASSUME SInv, XInv', EndBuild \/ Pick \/ EndOrder \/ UNCHANGED vars PROVE SInv'
  <1>1. UNCHANGED <<graph, before, after, shared>>
    BY DEF EndBuild, Pick, EndOrder, vars
  <1>2. Exported' = Exported
    BY NothingExported DEF SInv
  <1> QED BY <1>1, <1>2 DEF SInv

\* A block of no quadruples.
LEMMA NothingReplayed == Own(Empty) /\ Replayed(Empty, Start, Start, 0)
  <1>1. Own(Empty)
    BY DEF Own, Empty
  <1>2. Len(Empty.G) = 0
    BY DEF Empty
  <1> DEFINE V == [i \in Nat |-> 0]
             F == [i \in 0..0 |-> State(Start)]
  <1>3. V = [i \in Nat |-> V[i]] /\ F[0] = State(Start)
    OBVIOUS
  <1> HIDE DEF V, F
  <1>4. Explained(Start, V)
    BY ExplainedStart
  <1>5. Played(Empty.G, F, V)
    BY <1>2, <1>3 DEF Played
  <1> QED BY <1>1, <1>2, <1>3, <1>4, <1>5 DEF Replayed

LEMMA NextBlockSInv == ASSUME SInv, XInv', NextBlock PROVE SInv'
  <1>1. graph' = Empty /\ before' = Start /\ after' = Start /\ phase' = "build"
    BY DEF NextBlock
  <1>2. Exported' = 0
    BY <1>1 DEF Exported
  <1> QED BY <1>1, <1>2, NothingReplayed DEF SInv

LEMMA InitSInv == Init => SInv
  <1> SUFFICES ASSUME Init PROVE SInv
    OBVIOUS
  <1>1. graph = Empty /\ before = Start /\ after = Start /\ phase = "build"
    BY DEF Init
  <1>2. Exported = 0
    BY <1>1 DEF Exported
  <1> QED BY <1>1, <1>2, NothingReplayed, InitXInv DEF SInv

LEMMA NextSInv == SInv /\ [Next]_vars => SInv'
  <1> SUFFICES ASSUME SInv, [Next]_vars PROVE SInv'
    OBVIOUS
  <1>1. XInv'
    BY NextXInv DEF SInv
  <1>2. CASE Move \/ Arithmetic \/ LoadElem \/ StoreElem
    BY <1>1, <1>2, OperationSInv
  <1>3. CASE ReadVar
    BY <1>1, <1>3, ReadSInv
  <1>4. CASE Write
    BY <1>1, <1>4, WriteSInv
  <1>5. CASE WriteText
    BY <1>1, <1>5, TextSInv
  <1>6. CASE EndBuild \/ Pick \/ EndOrder \/ UNCHANGED vars
    BY <1>1, <1>6, OrderSInv
  <1>7. CASE Export
    BY <1>1, <1>7, ExportSInv
  <1>8. CASE EndExport
    BY <1>1, <1>8, EndExportSInv
  <1>9. CASE NextBlock
    BY <1>1, <1>9, NextBlockSInv
  <1> QED BY <1>2, <1>3, <1>4, <1>5, <1>6, <1>7, <1>8, <1>9 DEF Next

\* A block that shares no node: its nodes, one after the other, do what the
\* block does.
THEOREM UnsharedInvariant == Spec => []SInv
  BY InitSInv, NextSInv, PTL DEF Spec

-------------------------------------------------------------------------------
(* A block that gives no name a new value.                                 *)

\* Neither a leaf nor read nor written.
Plain(node) == node.op \notin {"leaf", "read", "write_e", "[]="}

\* Node k has a name of its own, a leaf the name it was made for.  A block in
\* state b has given the name of an operation the result for the names of its
\* operands, and has printed what a node prints.
NodeOnce(g, b, N, V, k) ==
    LET node == g.G[k]
        x == node.item.name
        q == Does(g.G, k)
    IN /\ node.op \notin {"read", "[]="}
       /\ node.op # "write_e" => x \in N
       /\ Leaf(node) /\ x \in DOMAIN g.record => Leaf(g.G[g.record[x]])
       /\ Plain(node) => /\ x \in DOMAIN g.record /\ g.record[x] = k
                         /\ b.val[x] = Result(node.op, Zero, b.val[q.a], b.val[q.b])
                         /\ g.G[node.rhs].op # "write_e"
       /\ node.op = "write_e" => V[node.rhs] = b.val[q.a]
       /\ ~Leaf(node) => g.G[node.lhs].op # "write_e"

\* A name recorded for a node has the value of the node's own name.
NameOnce(g, b, N, x) ==
    LET node == g.G[g.record[x]]
    IN /\ x \in N /\ node.op # "write_e" /\ (x = Zero => Leaf(node))
       /\ b.val[x] = b.val[node.item.name]

\* N are the names mentioned.
Once(g, b, N, V) ==
    /\ N \subseteq Value
    /\ \A k \in 1..Len(g.G) : NodeOnce(g, b, N, V, k)
    /\ \A x \in DOMAIN g.record : NameOnce(g, b, N, x)

\* The names of the first m nodes and of leaves have the values they have in b,
\* and so have those no node stands for.
Restored(g, b, a, m) ==
    \A v \in Value :
        v \notin DOMAIN g.record \/ Leaf(g.G[g.record[v]]) \/ g.record[v] \in 1..m
        => a.val[v] = b.val[v]

\* Whatever h adds to g, what g has recorded stays recorded, and what is new is
\* recorded for a leaf of that name.
Extends(g, h) ==
    /\ Graph(g) /\ Graph(h) /\ Kept(g, h) /\ Len(g.G) <= Len(h.G)
    /\ \A y \in DOMAIN g.record : y \in DOMAIN h.record /\ h.record[y] = g.record[y]
    /\ \A y \in DOMAIN h.record \ DOMAIN g.record :
         Leaf(h.G[h.record[y]]) /\ h.G[h.record[y]].item.name = y

LEMMA NodeOnceStays ==
  ASSUME NEW g, NEW h, Extends(g, h), NEW b, NEW N, NEW M, N \subseteq M, NEW V, NEW W,
         NEW k \in 1..Len(g.G), NodeOnce(g, b, N, V, k),
         g.G[k].op = "write_e" => W[g.G[k].rhs] = V[g.G[k].rhs]
  PROVE  NodeOnce(h, b, M, W, k)
  <1> DEFINE n == Len(g.G)
             node == g.G[k]
             new == h.G[k]
  <1>1. /\ \A j \in 1..n : /\ h.G[j].op = g.G[j].op /\ h.G[j].item = g.G[j].item
                           /\ h.G[j].lhs = g.G[j].lhs /\ h.G[j].rhs = g.G[j].rhs
        /\ Graph(g) /\ Kept(g, h)
    BY DEF Extends, Kept
  <1>2. OperandsBelow(node, k) /\ n \in Nat
    BY <1>1, GraphFacts DEF Graph, Wired
  <1>3. /\ ~Leaf(node) => node.lhs \in 1..n
        /\ Plain(node) => node.rhs \in 1..n
    BY <1>2 DEF OperandsBelow, InOutOps, Leaf, Plain
  <1>4. Does(h.G, k) = Does(g.G, k)
    BY <1>1, DoesKept
  <1>5. /\ new.op = node.op /\ new.item = node.item /\ new.lhs = node.lhs /\ new.rhs = node.rhs
        /\ (Leaf(new) <=> Leaf(node)) /\ (Plain(new) <=> Plain(node))
    BY <1>1 DEF Leaf, Plain
  <1>6. /\ ~Leaf(node) => h.G[node.lhs].op = g.G[node.lhs].op
        /\ Plain(node) => h.G[node.rhs].op = g.G[node.rhs].op
    BY <1>1, <1>3
  <1> DEFINE x == node.item.name
  <1>7. Leaf(node) /\ x \in DOMAIN h.record => Leaf(h.G[h.record[x]])
    <2> SUFFICES ASSUME Leaf(node), x \in DOMAIN h.record PROVE Leaf(h.G[h.record[x]])
      OBVIOUS
    <2>1. CASE x \in DOMAIN g.record
      <3>1. Leaf(g.G[g.record[x]]) /\ h.record[x] = g.record[x] /\ g.record[x] \in 1..n
        BY <1>1, <2>1 DEF NodeOnce, Extends, Graph, Shaped
      <3> QED BY <1>1, <3>1 DEF Leaf
    <2>2. CASE x \notin DOMAIN g.record
      BY <2>2 DEF Extends
    <2> QED BY <2>1, <2>2
  <1>8. /\ node.op \notin {"read", "[]="} /\ (node.op # "write_e" => x \in M)
        /\ (node.op = "write_e" => W[node.rhs] = b.val[Does(g.G, k).a])
        /\ ~Leaf(node) => g.G[node.lhs].op # "write_e"
    BY DEF NodeOnce
  <1>9. Plain(node) => /\ x \in DOMAIN h.record /\ h.record[x] = k
                       /\ b.val[x] = Result(node.op, Zero, b.val[Does(g.G, k).a], b.val[Does(g.G, k).b])
                       /\ g.G[node.rhs].op # "write_e"
    BY DEF NodeOnce, Extends
  <1> HIDE DEF node, new
  <1> QED BY <1>4, <1>5, <1>6, <1>7, <1>8, <1>9 DEF NodeOnce, new, x

LEMMA NameOnceStays ==
  ASSUME NEW g, NEW h, Extends(g, h), NEW b, NEW N, NEW M, N \subseteq M,
         NEW x \in DOMAIN g.record, NameOnce(g, b, N, x)
  PROVE  NameOnce(h, b, M, x)
  <1> DEFINE k == g.record[x]
  <1>1. k \in 1..Len(g.G) /\ h.record[x] = k
    BY DEF Extends, Graph, Shaped
  <1>2. h.G[k].op = g.G[k].op /\ h.G[k].item = g.G[k].item
    BY <1>1 DEF Extends, Kept
  <1> QED BY <1>1, <1>2 DEF NameOnce, Leaf

LEMMA RestoredStays ==
  ASSUME NEW g, NEW h, Extends(g, h), NEW b, NEW a, Restored(g, b, a, 0)
  PROVE  Restored(h, b, a, 0)
  <1> SUFFICES ASSUME NEW v \in Value, v \notin DOMAIN h.record \/ Leaf(h.G[h.record[v]])
               PROVE  a.val[v] = b.val[v]
    <2>1. \A i : i \notin 1..0
      OBVIOUS
    <2> QED BY <2>1 DEF Restored
  <1>1. CASE v \notin DOMAIN g.record
    BY <1>1 DEF Restored
  <1>2. CASE v \in DOMAIN g.record
    <2>1. v \in DOMAIN h.record /\ h.record[v] = g.record[v] /\ g.record[v] \in 1..Len(g.G)
      BY <1>2 DEF Extends, Graph, Shaped
    <2>2. Leaf(g.G[g.record[v]])
      BY <2>1 DEF Extends, Kept, Leaf
    <2> QED BY <2>2 DEF Restored
  <1> QED BY <1>1, <1>2

LEMMA ExtendsIs ==
  ASSUME NEW g, Graph(g), NEW h, Graph(h), Kept(g, h), NEW x, NEW n, HasNode(g, h, x, n),
         Maps(g, h, x, n) \/ h.record = g.record
  PROVE  Extends(g, h)
  <1>1. Len(g.G) \in Nat /\ Len(g.G) <= Len(h.G)
    BY GraphFacts DEF HasNode
  <1>2. CASE x \in DOMAIN g.record /\ g.record[x] = n
    <2>1. \A y \in DOMAIN g.record : y \in DOMAIN h.record /\ h.record[y] = g.record[y]
      BY <1>2 DEF Maps
    <2>2. DOMAIN h.record \ DOMAIN g.record = {}
      BY <1>2 DEF Maps
    <2> QED BY <1>1, <2>1, <2>2 DEF Extends
  <1>3. CASE x \notin DOMAIN g.record /\ Leaf(h.G[n]) /\ h.G[n].item.name = x
    <2>1. \A y \in DOMAIN g.record : y \in DOMAIN h.record /\ h.record[y] = g.record[y]
      BY <1>3 DEF Maps
    <2>2. \A y \in DOMAIN h.record \ DOMAIN g.record : y = x /\ h.record[y] = n
      BY <1>3 DEF Maps
    <2> QED BY <1>1, <1>3, <2>1, <2>2 DEF Extends
  <1> QED BY <1>2, <1>3 DEF HasNode

\* Name x is looked up, and has node n in h.
Looked(g, h, x, n) ==
    /\ Graph(g) /\ Graph(h) /\ Kept(g, h) /\ n \in 1..Len(h.G) /\ HasNode(g, h, x, n)
    /\ Maps(g, h, x, n) \/ h.record = g.record

Found(g, h, x, n, b, N, V) ==
    /\ Once(h, b, N \cup {x}, V) /\ Extends(g, h)
    /\ n \in 1..Len(h.G) /\ h.G[n].op # "write_e" /\ b.val[x] = b.val[h.G[n].item.name]

LEMMA OnceLooked ==
  ASSUME NEW g, NEW h, NEW x \in Value, NEW n, Looked(g, h, x, n), NEW b, NEW N, NEW V, Once(g, b, N, V)
  PROVE  Found(g, h, x, n, b, N, V)
  <1> DEFINE M == N \cup {x}
  <1>0. /\ Graph(g) /\ Graph(h) /\ Kept(g, h) /\ n \in 1..Len(h.G) /\ HasNode(g, h, x, n)
        /\ Maps(g, h, x, n) \/ h.record = g.record
    BY DEF Looked
  <1>1. Extends(g, h) /\ Len(g.G) \in Nat /\ Len(h.G) \in Nat
    BY <1>0, ExtendsIs, GraphFacts
  <1>2. \A k \in 1..Len(g.G) : NodeOnce(h, b, M, V, k)
    BY <1>1, NodeOnceStays DEF Once
  <1>3. \A y \in DOMAIN g.record : NameOnce(h, b, M, y)
    BY <1>1, NameOnceStays DEF Once
  <1>4. CASE Len(h.G) = Len(g.G) /\ x \in DOMAIN g.record /\ g.record[x] = n
    <2>1. DOMAIN h.record = DOMAIN g.record /\ h.record[x] = n
      BY <1>0, <1>4 DEF Maps
    <2>2. Once(h, b, M, V)
      BY <1>2, <1>3, <1>4, <2>1 DEF Once
    <2> QED BY <1>0, <1>1, <1>3, <1>4, <2>1, <2>2 DEF NameOnce, Found
  <1>5. CASE /\ x \notin DOMAIN g.record /\ n = Len(g.G) + 1 /\ Len(h.G) = n
             /\ Leaf(h.G[n]) /\ h.G[n].item.name = x
    <2>1. \A y \in DOMAIN h.record : y \in DOMAIN g.record \/ (y = x /\ h.record[y] = n)
      BY <1>0 DEF Maps
    <2>2. x \in DOMAIN h.record => Leaf(h.G[h.record[x]]) /\ h.record[x] = n
      BY <1>5, <2>1
    <2>3. h.G[n].op = "leaf"
      BY <1>5 DEF Leaf
    <2>4. NodeOnce(h, b, M, V, n)
      BY <1>5, <2>2, <2>3 DEF NodeOnce, Plain
    <2>5. x \in DOMAIN h.record => NameOnce(h, b, M, x)
      BY <1>5, <2>2, <2>3 DEF NameOnce
    <2>6. \A k \in 1..Len(h.G) : k \in 1..Len(g.G) \/ k = n
      BY <1>1, <1>5
    <2>7. Once(h, b, M, V)
      BY <1>2, <1>3, <2>1, <2>4, <2>5, <2>6 DEF Once
    <2> QED BY <1>0, <1>1, <1>5, <2>3, <2>7 DEF Found
  <1> QED BY <1>0, <1>4, <1>5 DEF HasNode

LEMMA OnceUsed ==
  ASSUME NEW g, NEW h, NEW x \in Value, NEW n, UsedFor(g, h, x, n), NEW b, NEW N, NEW V, Once(g, b, N, V)
  PROVE  Found(g, h, x, n, b, N, V)
  <1>1. Looked(g, h, x, n)
    BY DEF UsedFor, Looked
  <1> QED BY <1>1, OnceLooked

LEMMA OnceLeaf ==
  ASSUME NEW g, NEW h, NEW x \in Value, NEW n, LeafFor(g, h, x, n), NEW b, NEW N, NEW V, Once(g, b, N, V)
  PROVE  Found(g, h, x, n, b, N, V)
  <1>1. Looked(g, h, x, n)
    BY DEF LeafFor, Looked
  <1> QED BY <1>1, OnceLooked

\* Names that keep their values.
Agree(b, c, N) == \A x \in N : c.val[x] = b.val[x]

\* Names are added, and values of other names change.
LEMMA OnceAgrees ==
  ASSUME NEW g, Graph(g), NEW b, NEW N, NEW V, Once(g, b, N, V), NEW c, Agree(b, c, N),
         NEW M, N \subseteq M, M \subseteq Value
  PROVE  Once(g, c, M, V)
  <1>1. ASSUME NEW k \in 1..Len(g.G), ~Leaf(g.G[k])
        PROVE  /\ c.val[Does(g.G, k).a] = b.val[Does(g.G, k).a]
               /\ Plain(g.G[k]) => c.val[Does(g.G, k).b] = b.val[Does(g.G, k).b]
    <2> DEFINE node == g.G[k]
    <2>1. NodeOnce(g, b, N, V, k) /\ OperandsBelow(node, k) /\ k \in Nat /\ k <= Len(g.G) /\ Len(g.G) \in Nat
      BY GraphFacts DEF Once, Graph, Wired
    <2>2. node.lhs \in 1..Len(g.G) /\ g.G[node.lhs].op # "write_e"
      BY <1>1, <2>1 DEF OperandsBelow, NodeOnce
    <2>3. Plain(node) => node.rhs \in 1..Len(g.G) /\ g.G[node.rhs].op # "write_e"
      BY <1>1, <2>1 DEF OperandsBelow, NodeOnce, Plain, InOutOps
    <2>4. \A j \in 1..Len(g.G) : g.G[j].op # "write_e" => g.G[j].item.name \in N
      BY DEF Once, NodeOnce
    <2>5. /\ Does(g.G, k).a = g.G[node.lhs].item.name
          /\ Plain(node) => Does(g.G, k).b = g.G[node.rhs].item.name
      BY <1>1, DoesIs DEF Plain, InOutOps
    <2>6. c.val[g.G[node.lhs].item.name] = b.val[g.G[node.lhs].item.name]
      BY <2>2, <2>4 DEF Agree
    <2>7. Plain(node) => c.val[g.G[node.rhs].item.name] = b.val[g.G[node.rhs].item.name]
      BY <2>3, <2>4 DEF Agree
    <2> QED BY <2>5, <2>6, <2>7
  <1>2. ASSUME NEW k \in 1..Len(g.G) PROVE NodeOnce(g, c, M, V, k)
    <2> DEFINE node == g.G[k]
               q == Does(g.G, k)
               x == node.item.name
    <2>1. NodeOnce(g, b, N, V, k)
      BY DEF Once
    <2>2. Leaf(node) <=> node.op = "leaf"
      BY DEF Leaf
    <2>3. Plain(node) => ~Leaf(node) /\ node.op # "write_e"
      BY DEF Plain, Leaf
    <2>4. Plain(node) => c.val[x] = b.val[x] /\ c.val[q.a] = b.val[q.a] /\ c.val[q.b] = b.val[q.b]
      BY <1>1, <2>1, <2>3 DEF NodeOnce, Agree
    <2>5. node.op = "write_e" => c.val[q.a] = b.val[q.a]
      BY <1>1, <2>2
    <2> QED BY <2>1, <2>4, <2>5 DEF NodeOnce
  <1>3. ASSUME NEW x \in DOMAIN g.record PROVE NameOnce(g, c, M, x)
    <2>1. NameOnce(g, b, N, x) /\ g.record[x] \in 1..Len(g.G)
      BY DEF Once, Graph, Shaped
    <2>2. g.G[g.record[x]].item.name \in N /\ x \in N
      BY <2>1 DEF Once, NodeOnce, NameOnce
    <2> QED BY <2>1, <2>2 DEF NameOnce, Agree
  <1> QED BY <1>2, <1>3 DEF Once

\* A name not mentioned before is given an operation's node.
OnceOperation(g, h, op, x, l, r, k, b, c) ==
    /\ OperationFor(g, h, op, x, l, r, k) /\ x \in Value /\ x # Zero
    /\ op \notin {"leaf", "read", "write_e", "[]="}
    /\ g.G[l].op # "write_e" /\ g.G[r].op # "write_e"
    /\ Len(g.G) \in Nat
    /\ c.val = Sets(b, x, Result(op, b.val[x], b.val[g.G[l].item.name], b.val[g.G[r].item.name]))

LEMMA OnceOperationIs ==
  ASSUME NEW g, NEW h, NEW op, NEW x, NEW l, NEW r, NEW k, NEW b, NEW c,
         OnceOperation(g, h, op, x, l, r, k, b, c), NEW N, NEW V, Once(g, b, N, V), x \notin N
  PROVE  Once(h, c, N \cup {x}, V)
  <1> DEFINE M == N \cup {x}
             n == Len(g.G)
             A == g.G[l].item.name
             B == g.G[r].item.name
  <1>1. /\ Graph(g) /\ Graph(h) /\ Kept(g, h) /\ Maps(g, h, x, k) /\ k \in 1..Len(h.G)
        /\ h.G[k].op = op /\ h.G[k].lhs = l /\ h.G[k].rhs = r /\ l \in 1..n /\ r \in 1..n
        /\ Len(h.G) = n \/ (k = n + 1 /\ Len(h.G) = k /\ h.G[k].item.name = x)
        /\ x \in Value /\ x # Zero /\ g.G[l].op # "write_e" /\ g.G[r].op # "write_e" /\ n \in Nat
        /\ op \notin {"leaf", "read", "write_e", "[]="}
    BY DEF OnceOperation, OperationFor
  <1>2. N \subseteq Value /\ A \in N /\ B \in N
    BY <1>1 DEF Once, NodeOnce
  <1>3. c.val[x] = Result(op, Zero, b.val[A], b.val[B]) /\ Agree(b, c, N)
    <2>1. c.val[x] = Result(op, b.val[x], b.val[A], b.val[B])
      BY <1>1 DEF OnceOperation, Sets
    <2>2. Result(op, b.val[x], b.val[A], b.val[B]) = Result(op, Zero, b.val[A], b.val[B])
      <3>1. op # "[]="
        BY <1>1
      <3> QED BY <3>1 DEF Result
    <2>3. Agree(b, c, N)
      BY <1>2 DEF OnceOperation, Sets, Agree
    <2> QED BY <2>1, <2>2, <2>3
  <1>4. Once(g, c, M, V)
    BY <1>1, <1>2, <1>3, OnceAgrees
  <1>5. /\ Does(h.G, k).a = A /\ Does(h.G, k).b = B /\ c.val[A] = b.val[A] /\ c.val[B] = b.val[B]
    <2>1. ~Leaf(h.G[k]) /\ h.G[k].op \notin InOutOps
      BY <1>1 DEF Leaf, InOutOps
    <2>2. Does(h.G, k).a = h.G[l].item.name /\ Does(h.G, k).b = h.G[r].item.name
      <3>1. Does(h.G, k).a = h.G[h.G[k].lhs].item.name /\ Does(h.G, k).b = h.G[h.G[k].rhs].item.name
        BY <2>1 DEF Does, Quad
      <3>2. h.G[k].lhs = l /\ h.G[k].rhs = r
        BY <1>1
      <3> QED BY <3>1, <3>2
    <2>3. h.G[l].item.name = A /\ h.G[r].item.name = B
      BY <1>1 DEF Kept
    <2> QED BY <1>2, <1>3, <2>2, <2>3 DEF Agree
  <1>6. \A y \in DOMAIN g.record : y # x /\ y \in DOMAIN h.record /\ h.record[y] = g.record[y]
    <2>1. \A y \in DOMAIN g.record : y \in N
      BY DEF Once, NameOnce
    <2> QED BY <1>1, <2>1 DEF Maps
  <1>7. x \in DOMAIN h.record /\ h.record[x] = k
    BY <1>1 DEF Maps
  <1>8. \A j \in 1..n : /\ h.G[j].op = g.G[j].op /\ h.G[j].item = g.G[j].item
                        /\ h.G[j].lhs = g.G[j].lhs /\ h.G[j].rhs = g.G[j].rhs
                        /\ Does(h.G, j) = Does(g.G, j)
    BY <1>1, DoesKept DEF Kept
  <1> HIDE DEF M, n, A, B
  <1>9. ASSUME NEW j \in 1..n PROVE NodeOnce(h, c, M, V, j)
    <2> DEFINE node == g.G[j]
               y == node.item.name
    <2>1. NodeOnce(g, c, M, V, j) /\ OperandsBelow(node, j) /\ j \in Nat /\ j <= n
      BY <1>1, <1>4 DEF Once, Graph, Wired, n
    <2>2. /\ ~Leaf(node) => node.lhs \in 1..n
          /\ Plain(node) => node.rhs \in 1..n
      BY <1>1, <2>1 DEF OperandsBelow, InOutOps, Leaf, Plain
    <2>3. node.op # "write_e" => y \in N
      BY DEF Once, NodeOnce, n
    <2>4. ASSUME Leaf(node), y \in DOMAIN h.record PROVE Leaf(h.G[h.record[y]])
      <3>1. y # x
        <4>1. y \in N
          BY <2>3, <2>4 DEF Leaf
        <4> QED BY <4>1
      <3>2. y \in DOMAIN g.record
        BY <1>1, <2>4, <3>1 DEF Maps
      <3>3. Leaf(g.G[g.record[y]]) /\ g.record[y] \in 1..n /\ h.record[y] = g.record[y]
        BY <1>1, <1>6, <2>1, <2>4, <3>2 DEF NodeOnce, Graph, Shaped, n
      <3> QED BY <1>8, <3>3 DEF Leaf
    <2>5. /\ h.G[j].op = node.op /\ h.G[j].item = node.item /\ h.G[j].lhs = node.lhs
          /\ h.G[j].rhs = node.rhs /\ Does(h.G, j) = Does(g.G, j)
          /\ (Leaf(h.G[j]) <=> Leaf(node)) /\ (Plain(h.G[j]) <=> Plain(node))
      BY <1>8 DEF Leaf, Plain
    <2>6. /\ ~Leaf(node) => h.G[node.lhs].op = g.G[node.lhs].op
          /\ Plain(node) => h.G[node.rhs].op = g.G[node.rhs].op
      BY <1>8, <2>2
    <2>7. Plain(node) => y \in DOMAIN h.record /\ h.record[y] = j
      BY <1>6, <2>1 DEF NodeOnce
    <2> QED BY <2>1, <2>4, <2>5, <2>6, <2>7 DEF NodeOnce
  <1>10. ASSUME NEW y \in DOMAIN g.record PROVE NameOnce(h, c, M, y)
    <2>1. NameOnce(g, c, M, y) /\ g.record[y] \in 1..n /\ h.record[y] = g.record[y]
      BY <1>1, <1>4, <1>6 DEF Once, Graph, Shaped, n
    <2>2. h.G[g.record[y]].op = g.G[g.record[y]].op /\ h.G[g.record[y]].item = g.G[g.record[y]].item
      BY <1>8, <2>1
    <2> QED BY <2>1, <2>2 DEF NameOnce, Leaf
  <1>11. Plain(h.G[k]) /\ ~Leaf(h.G[k]) /\ h.G[k].op # "write_e" /\ h.G[l].op # "write_e" /\ h.G[r].op # "write_e"
    BY <1>1, <1>8 DEF Plain, Leaf
  <1>12. x \in M
    BY DEF M
  <1>13. CASE Len(h.G) = n
    <2>1. NodeOnce(h, c, M, V, k) /\ k \in 1..n
      BY <1>1, <1>9, <1>13
    <2>2. c.val[h.G[k].item.name] = Result(op, Zero, b.val[A], b.val[B])
      BY <1>1, <1>5, <1>11, <2>1 DEF NodeOnce
    <2>3. NameOnce(h, c, M, x)
      BY <1>1, <1>3, <1>7, <1>11, <1>12, <2>2 DEF NameOnce
    <2>4. \A y \in DOMAIN h.record : y \in DOMAIN g.record \/ y = x
      BY <1>1 DEF Maps
    <2>5. M \subseteq Value
      BY <1>4 DEF Once
    <2> QED BY <1>9, <1>10, <1>13, <2>3, <2>4, <2>5 DEF Once, M
  <1>14. CASE k = n + 1 /\ Len(h.G) = k /\ h.G[k].item.name = x
    <2>1. NodeOnce(h, c, M, V, k)
      BY <1>1, <1>3, <1>5, <1>7, <1>11, <1>12, <1>14 DEF NodeOnce
    <2>2. NameOnce(h, c, M, x)
      BY <1>1, <1>7, <1>11, <1>12, <1>14 DEF NameOnce
    <2>3. \A y \in DOMAIN h.record : y \in DOMAIN g.record \/ y = x
      BY <1>1 DEF Maps
    <2>4. M \subseteq Value /\ \A j \in 1..Len(h.G) : j \in 1..n \/ j = k
      BY <1>1, <1>4, <1>14 DEF Once
    <2> QED BY <1>9, <1>10, <2>1, <2>2, <2>3, <2>4 DEF Once, M
  <1> QED BY <1>1, <1>13, <1>14

LEMMA RestoredOperation ==
  ASSUME NEW g, NEW h, NEW op, NEW x, NEW l, NEW r, NEW k, NEW b, NEW c,
         OnceOperation(g, h, op, x, l, r, k, b, c), NEW a, Restored(g, b, a, 0)
  PROVE  Restored(h, c, a, 0)
  <1> SUFFICES ASSUME NEW v \in Value, v \notin DOMAIN h.record \/ Leaf(h.G[h.record[v]])
               PROVE  a.val[v] = c.val[v]
    <2>1. \A i : i \notin 1..0
      OBVIOUS
    <2> QED BY <2>1 DEF Restored
  <1>1. /\ Graph(g) /\ Kept(g, h) /\ Maps(g, h, x, k) /\ h.G[k].op # "leaf"
    BY DEF OnceOperation, OperationFor
  <1>2. v # x
    BY <1>1 DEF Maps, Leaf
  <1>3. c.val[v] = b.val[v]
    BY <1>2 DEF OnceOperation, Sets
  <1>4. CASE v \notin DOMAIN g.record
    BY <1>3, <1>4 DEF Restored
  <1>5. CASE v \in DOMAIN g.record
    <2>1. v \in DOMAIN h.record /\ h.record[v] = g.record[v] /\ g.record[v] \in 1..Len(g.G)
      BY <1>1, <1>2, <1>5 DEF Maps, Graph, Shaped
    <2>2. Leaf(g.G[g.record[v]])
      BY <1>1, <2>1 DEF Kept, Leaf
    <2> QED BY <1>3, <2>2 DEF Restored
  <1> QED BY <1>4, <1>5

\* A quadruple that gives a name not mentioned before its value.
LEMMA OnceBuilt ==
  ASSUME NEW g, NEW h, NEW q, Assigns(q), q.op # "[]=", NEW hit, Built(g, h, q, hit),
         NEW b, Machine(b), NEW N, NEW V, Once(g, b, N, V), q.d \notin N \cup {q.a, q.b},
         NEW a, Restored(g, b, a, 0)
  PROVE  /\ Once(h, Exec(b, q), N \cup {q.d, q.a, q.b}, V)
         /\ Restored(h, Exec(b, q), a, 0)
  <1>1. PICK g1, g2, l, r, k :
           /\ UsedFor(g, g1, q.a, l) /\ UsedFor(g1, g2, q.b, r)
           /\ OperationFor(g2, h, q.op, q.d, l, r, k)
    BY DEF Built
  <1>2. q.a \in Value /\ q.b \in Value /\ q.d \in Value /\ q.d # Zero
    BY DEF Assigns
  <1> DEFINE N1 == N \cup {q.a}
             N2 == N1 \cup {q.b}
  <1>3. /\ Once(g1, b, N1, V) /\ Restored(g1, b, a, 0) /\ g1.G[l].op # "write_e"
        /\ b.val[q.a] = b.val[g1.G[l].item.name] /\ l \in 1..Len(g1.G)
    <2>1. Found(g, g1, q.a, l, b, N, V)
      BY <1>1, <1>2, OnceUsed
    <2>2. Restored(g1, b, a, 0)
      BY <2>1, RestoredStays DEF Found
    <2> QED BY <2>1, <2>2 DEF Found
  <1> HIDE DEF N1
  <1>4. /\ Once(g2, b, N2, V) /\ Restored(g2, b, a, 0) /\ g2.G[r].op # "write_e"
        /\ b.val[q.b] = b.val[g2.G[r].item.name] /\ Len(g2.G) \in Nat
    <2>1. Found(g1, g2, q.b, r, b, N1, V)
      BY <1>1, <1>2, <1>3, OnceUsed
    <2>2. Restored(g2, b, a, 0)
      BY <1>3, <2>1, RestoredStays DEF Found
    <2> QED BY <2>1, <2>2, GraphFacts DEF Found, Extends
  <1>5. g2.G[l].op = g1.G[l].op /\ g2.G[l].item = g1.G[l].item
    BY <1>1, <1>3 DEF UsedFor, Kept
  <1> DEFINE c == Exec(b, q)
  <1>6. c.val = Sets(b, q.d, Result(q.op, b.val[q.d], b.val[q.a], b.val[q.b]))
    BY ExecAssign DEF Assigns
  <1> HIDE DEF c
  <1>7. c.val = Sets(b, q.d, Result(q.op, b.val[q.d], b.val[g2.G[l].item.name],
                                    b.val[g2.G[r].item.name]))
    BY <1>3, <1>4, <1>5, <1>6
  <1>8. OnceOperation(g2, h, q.op, q.d, l, r, k, b, c)
    <2>1. q.op \notin {"leaf", "read", "write_e", "[]="}
      BY DEF Assigns, InOutOps
    <2> QED BY <1>1, <1>2, <1>3, <1>4, <1>5, <1>7, <2>1 DEF OnceOperation
  <1>9. q.d \notin N2 /\ N2 \cup {q.d} = N \cup {q.d, q.a, q.b}
    BY DEF N1
  <1> HIDE DEF N2
  <1>10. Once(h, c, N2 \cup {q.d}, V)
    BY <1>4, <1>8, <1>9, OnceOperationIs
  <1>11. Restored(h, c, a, 0)
    BY <1>4, <1>8, RestoredOperation
  <1> QED BY <1>9, <1>10, <1>11 DEF c

\* A name written, at position r.
LEMMA OnceWrite ==
  ASSUME NEW g, NEW p \in Nat, Dated(g, p), NEW r \in Nat, p < r,
         NEW w, NEW h, NEW x \in Value, NEW k, LeafFor(g, w, x, k), NEW n,
         InOutFor(w, h, "write_e", k, r, n), h.record = w.record,
         NEW b, NEW N, NEW V, Once(g, b, N, V), NEW a, Restored(g, b, a, 0),
         NEW W, W[r] = b.val[x], \A i \in Nat : i # r => W[i] = V[i]
  PROVE  Once(h, b, N \cup {x}, W) /\ Restored(h, b, a, 0)
  <1> DEFINE M == N \cup {x}
  <1>1. Graph(g) /\ Graph(w) /\ Kept(g, w) /\ HasNode(g, w, x, k) /\ k \in 1..Len(w.G)
    BY DEF LeafFor
  <1>2. /\ Graph(h) /\ Kept(w, h) /\ n = Len(w.G) + 1 /\ Len(h.G) = n
        /\ h.G[n].op = "write_e" /\ h.G[n].lhs = k /\ h.G[n].rhs = r
    BY DEF InOutFor
  <1>3. Found(g, w, x, k, b, N, V)
    BY OnceLeaf
  <1>4. /\ Once(w, b, M, V) /\ w.G[k].op # "write_e" /\ b.val[x] = b.val[w.G[k].item.name]
        /\ Extends(g, w)
    BY <1>3 DEF Found
  <1> HIDE DEF M
  <1>5. Extends(w, h) /\ Len(w.G) \in Nat
    BY <1>1, <1>2, GraphFacts DEF Extends
  <1>6. Restored(h, b, a, 0)
    BY <1>4, <1>5, RestoredStays
  <1>7. Dated(w, p)
    <2>1. Quiet(g, w)
      BY <1>1, HasNodeQuiet
    <2> QED BY <2>1, QuietSame
  <1>8. ASSUME NEW j \in 1..Len(w.G) PROVE NodeOnce(h, b, M, W, j)
    <2>1. ASSUME w.G[j].op = "write_e" PROVE W[w.G[j].rhs] = V[w.G[j].rhs]
      <3>1. j \in InOuts(w.G, 0)
        BY <2>1 DEF InOuts, InOutOps
      <3>2. w.G[j].rhs \in 1..p
        BY <1>7, <3>1 DEF Dated
      <3>3. w.G[j].rhs \in Nat /\ w.G[j].rhs # r
        BY <3>2
      <3> QED BY <3>3
    <2>2. NodeOnce(w, b, M, V, j)
      BY <1>4 DEF Once
    <2> QED BY <1>5, <2>1, <2>2, NodeOnceStays
  <1>9. NodeOnce(h, b, M, W, n)
    <2>1. ~Leaf(h.G[n]) /\ ~Plain(h.G[n])
      BY <1>2 DEF Leaf, Plain
    <2>2. h.G[k].op = w.G[k].op /\ h.G[k].item = w.G[k].item
      BY <1>1, <1>2 DEF Kept
    <2>3. Does(h.G, n).a = h.G[h.G[n].lhs].item.name
      BY <2>1 DEF Does, Quad
    <2> QED BY <1>2, <1>4, <2>1, <2>2, <2>3 DEF NodeOnce
  <1>10. \A y \in DOMAIN h.record : NameOnce(h, b, M, y)
    BY <1>4, <1>5, NameOnceStays DEF Once
  <1>11. \A j \in 1..Len(h.G) : j \in 1..Len(w.G) \/ j = n
    BY <1>2, <1>5
  <1>12. Once(h, b, M, W)
    BY <1>4, <1>8, <1>9, <1>10, <1>11 DEF Once
  <1> QED BY <1>6, <1>12 DEF M

\* The operands of the nodes to come are restored.
LEMMA OperandRestored ==
  ASSUME NEW g, NEW b, NEW N, NEW V, Once(g, b, N, V), NEW k \in 1..Len(g.G), NEW a,
         Restored(g, b, a, k - 1), NEW j \in 1..(k - 1), j \in 1..Len(g.G), g.G[j].op # "write_e"
  PROVE  a.val[g.G[j].item.name] = b.val[g.G[j].item.name]
  <1> DEFINE x == g.G[j].item.name
  <1>1. NodeOnce(g, b, N, V, j) /\ N \subseteq Value
    BY DEF Once
  <1>2. x \in Value
    BY <1>1 DEF NodeOnce
  <1>3. CASE Leaf(g.G[j])
    <2>1. x \notin DOMAIN g.record \/ Leaf(g.G[g.record[x]])
      BY <1>1, <1>3 DEF NodeOnce
    <2> QED BY <1>2, <2>1 DEF Restored
  <1>4. CASE Plain(g.G[j])
    <2>1. g.record[x] \in 1..(k - 1)
      BY <1>1, <1>4 DEF NodeOnce
    <2> QED BY <1>2, <2>1 DEF Restored
  <1> QED BY <1>1, <1>3, <1>4 DEF NodeOnce, Leaf, Plain

\* What the copies of node k give, when its name has the value v.
LEMMA CopiesRestore ==
  ASSUME IInv, NEW b, NEW N, NEW V, Once(graph, b, N, V), NEW k \in 1..Len(graph.G),
         NEW node, node = graph.G[k], Len(node.items) \in Nat, Plain(node),
         NEW a, Restored(graph, b, a, k - 1), NEW s,
         s.val[node.item.name] = b.val[node.item.name],
         \A v \in Value : v # node.item.name => s.val[v] = a.val[v],
         NEW u, CopiesDone(s, u, node, Len(node.items))
  PROVE  Restored(graph, b, u, k)
  <1> DEFINE x == node.item.name
             C == Copied(node, Len(node.items))
             R == graph.record
  <1>1. Holds(node) = Recorded(R, k) /\ Len(graph.G) \in Nat
    BY GraphFacts DEF IInv, Graph, Named
  <1>2. C \subseteq Holds(node) \ {Zero} /\ Holds(node) \subseteq C \cup {Zero, x}
    BY CopiedNames
  <1>3. /\ x \in Value /\ x \in DOMAIN R /\ R[x] = k /\ ~Leaf(node)
    <2>1. NodeOnce(graph, b, N, V, k) /\ N \subseteq Value
      BY DEF Once
    <2> QED BY <2>1 DEF NodeOnce, Plain, Leaf
  <1>4. /\ \A v \in Value \cap C : u.val[v] = s.val[x]
        /\ \A v \in Value \ C : u.val[v] = s.val[v]
    BY <1>3 DEF CopiesDone
  <1>5. \A v \in DOMAIN R : R[v] = k => v # Zero /\ b.val[v] = b.val[x]
    BY <1>3 DEF Once, NameOnce
  <1> HIDE DEF C
  <1>6. ASSUME NEW v \in Value, v \in DOMAIN R, R[v] = k PROVE u.val[v] = b.val[v]
    <2>1. v \in Holds(node) /\ v # Zero
      BY <1>1, <1>5, <1>6 DEF Recorded
    <2>2. CASE v \in C
      BY <1>4, <1>5, <1>6, <2>2
    <2>3. CASE v \notin C
      <3>1. v = x
        BY <1>2, <2>1, <2>3
      <3> QED BY <1>4, <2>3, <3>1
    <2> QED BY <2>2, <2>3
  <1>7. ASSUME NEW v \in Value, ~(v \in DOMAIN R /\ R[v] = k) PROVE u.val[v] = a.val[v]
    <2>1. v \notin C /\ v # x
      BY <1>1, <1>2, <1>3, <1>7 DEF Recorded
    <2> QED BY <1>4, <2>1
  <1> SUFFICES ASSUME NEW v \in Value, v \notin DOMAIN R \/ Leaf(graph.G[R[v]]) \/ R[v] \in 1..k
               PROVE  u.val[v] = b.val[v]
    BY DEF Restored
  <1>8. CASE v \in DOMAIN R /\ R[v] = k
    BY <1>6, <1>8
  <1>9. CASE ~(v \in DOMAIN R /\ R[v] = k)
    <2>1. v \notin DOMAIN R \/ Leaf(graph.G[R[v]]) \/ R[v] \in 1..(k - 1)
      BY <1>1, <1>9
    <2> QED BY <1>7, <1>9, <2>1 DEF Restored
  <1> QED BY <1>8, <1>9

\* A node no name but its own, or none, stands for changes nothing.
LEMMA NothingRestored ==
  ASSUME NEW g, Graph(g), NEW b, NEW k \in 1..Len(g.G), NEW a, Restored(g, b, a, k - 1),
         \/ Leaf(g.G[k])
         \/ \A x \in DOMAIN g.record : g.record[x] # k,
         NEW u, \A v \in Value : u.val[v] = a.val[v]
  PROVE  Restored(g, b, u, k)
  <1> SUFFICES ASSUME NEW v \in Value,
                      v \notin DOMAIN g.record \/ Leaf(g.G[g.record[v]]) \/ g.record[v] \in 1..k
               PROVE  u.val[v] = b.val[v]
    BY DEF Restored
  <1>1. Len(g.G) \in Nat
    BY GraphFacts
  <1>2. v \notin DOMAIN g.record \/ Leaf(g.G[g.record[v]]) \/ g.record[v] \in 1..(k - 1)
    BY <1>1
  <1> QED BY <1>2 DEF Restored

\* Exporting node k, with its copies.
LEMMA RestoredNode ==
  ASSUME IInv, NEW p \in Nat, Dated(graph, p),
         NEW b, NEW N, NEW V, Once(graph, b, N, V),
         NEW k \in 1..Len(graph.G), NEW node, node = graph.G[k],
         NEW a, Machine(a), Explained(a, V), Restored(graph, b, a, k - 1),
         NEW s, s = Run(a, Trans(node)), NEW u, u = Run(s, Copies(node))
  PROVE  Restored(graph, b, u, k) /\ Explained(u, V)
  <1>1. /\ node.op \notin InOutOps => Computed(a, s, node)
        /\ node.op \in InOutOps => \E t : Done(a, t, s, node)
        /\ Machine(s) /\ Len(node.items) \in Nat
        /\ CopiesDone(s, u, node, Len(node.items))
    BY ExportedNode
  <1>2. NodeOnce(graph, b, N, V, k) /\ N \subseteq Value /\ Graph(graph)
    BY DEF Once, IInv
  <1>3. OperandsBelow(node, k) /\ Len(graph.G) \in Nat
    BY <1>2, GraphFacts DEF Graph, Wired
  <1>4. \A j \in 1..(k - 1) : j \in 1..Len(graph.G)
    BY <1>3
  <1>5. \A j \in 1..(k - 1) : graph.G[j].op # "write_e" => a.val[NameOf(j)] = b.val[NameOf(j)]
    BY <1>4, OperandRestored DEF NameOf
  <1>6. Machine(u) /\ u.io = s.io
    BY <1>1 DEF CopiesDone
  <1> DEFINE C == Copied(node, Len(node.items))
  <1>7. Holds(node) = Recorded(graph.record, k) /\ C \subseteq Holds(node)
    BY <1>1, <1>2, CopiedNames DEF Graph, Named
  <1>8. CASE Leaf(node)
    <2>1. s = a
      BY <1>1, <1>8 DEF Computed, Leaf, InOutOps
    <2>2. Holds(node) \subseteq {node.item.name} /\ node.item.name \in Value
      BY <1>2, <1>8 DEF Graph, Named, NodeOnce, Leaf
    <2>3. /\ \A v \in Value \cap C : u.val[v] = s.val[node.item.name]
          /\ \A v \in Value \ C : u.val[v] = s.val[v]
      BY <1>1, <2>2 DEF CopiesDone
    <2> HIDE DEF C
    <2>4. \A v \in Value : u.val[v] = a.val[v]
      BY <1>7, <2>1, <2>2, <2>3
    <2>5. Restored(graph, b, u, k)
      BY <1>2, <1>8, <2>4, NothingRestored
    <2>6. Explained(u, V)
      BY <1>6, <2>1, ExplainedSame
    <2> QED BY <2>5, <2>6
  <1>9. CASE Plain(node)
    <2> DEFINE x == node.item.name
               q == Does(graph.G, k)
    <2>1. Computed(a, s, node) /\ ~Leaf(node) /\ node.op \notin InOutOps /\ node.op # "[]="
      BY <1>1, <1>9 DEF Plain, Leaf, InOutOps
    <2>2. node.lhs \in 1..(k - 1) /\ node.rhs \in 1..(k - 1)
      BY <1>3, <2>1 DEF OperandsBelow
    <2>3. q.a = NameOf(node.lhs) /\ q.b = NameOf(node.rhs)
      BY <2>1 DEF Does, Quad, NameOf
    <2>4. /\ graph.G[node.lhs].op # "write_e" /\ graph.G[node.rhs].op # "write_e"
          /\ b.val[x] = Result(node.op, Zero, b.val[q.a], b.val[q.b]) /\ x \in Value
      BY <1>2, <1>9, <2>1 DEF NodeOnce, Plain
    <2>5. a.val[NameOf(node.lhs)] = b.val[q.a] /\ a.val[NameOf(node.rhs)] = b.val[q.b]
      BY <1>5, <2>2, <2>3, <2>4
    <2>6. s.val = Sets(a, x, Result(node.op, a.val[x], a.val[NameOf(node.lhs)], a.val[NameOf(node.rhs)]))
      BY <2>1 DEF Computed
    <2>7. Result(node.op, a.val[x], b.val[q.a], b.val[q.b]) = Result(node.op, Zero, b.val[q.a], b.val[q.b])
      <3>1. node.op # "[]="
        BY <2>1
      <3> QED BY <3>1 DEF Result
    <2>8. s.val[x] = b.val[x] /\ \A v \in Value : v # x => s.val[v] = a.val[v]
      <3>1. s.val = Sets(a, x, b.val[x])
        <4> HIDE DEF x, q, C
        <4> QED BY <2>4, <2>5, <2>6, <2>7
      <3> HIDE DEF x, q, C
      <3> QED BY <2>4, <3>1 DEF Sets
    <2>9. Restored(graph, b, u, k)
      <3>1. CopiesDone(s, u, node, Len(node.items)) /\ Len(node.items) \in Nat
        BY <1>1
      <3> HIDE DEF x, q, C
      <3> QED BY <1>9, <2>8, <3>1, CopiesRestore DEF x
    <2>10. Explained(u, V)
      <3>1. u.io = a.io
        BY <1>6, <2>1 DEF Computed
      <3> QED BY <3>1, ExplainedSame
    <2> QED BY <2>9, <2>10
  <1>10. CASE node.op = "write_e"
    <2>1. PICK t : Done(a, t, s, node)
      BY <1>1, <1>10 DEF InOutOps
    <2>2. s.val = a.val
      BY <1>10, <2>1 DEF Done
    <2>3. \A x \in DOMAIN graph.record : graph.record[x] # k
      BY <1>10 DEF Once, NameOnce
    <2>4. C = {}
      BY <1>7, <2>3 DEF Recorded
    <2>5. \A v \in Value : u.val[v] = a.val[v]
      BY <1>1, <2>2, <2>4 DEF CopiesDone
    <2>6. Restored(graph, b, u, k)
      BY <1>2, <2>3, <2>5, NothingRestored
    <2>7. V[node.rhs] = a.val[NameOf(node.lhs)]
      <3>1. ~Leaf(node)
        BY <1>10 DEF Leaf
      <3>2. node.lhs \in 1..(k - 1) /\ graph.G[node.lhs].op # "write_e"
        BY <1>2, <1>3, <3>1 DEF OperandsBelow, NodeOnce
      <3>3. V[node.rhs] = b.val[Does(graph.G, k).a]
        BY <1>2, <1>10 DEF NodeOnce
      <3>4. Does(graph.G, k).a = NameOf(node.lhs)
        BY <3>1 DEF Does, Quad, NameOf
      <3> QED BY <1>5, <3>2, <3>3, <3>4
    <2>8. Explained(s, V)
      <3>1. node.op \in InOutOps
        BY <1>10 DEF InOutOps
      <3>2. Due(node.rhs) \in Seq(Nat)
        BY <3>1, DueStrings
      <3> QED BY <2>1, <2>7, <3>1, <3>2, ExplainedDone
    <2>9. Explained(u, V)
      BY <1>6, <2>8, ExplainedSame
    <2> QED BY <2>6, <2>9
  <1>11. Leaf(node) \/ Plain(node) \/ node.op = "write_e"
    BY <1>2 DEF NodeOnce, Leaf, Plain
  <1> HIDE DEF C
  <1> QED BY <1>8, <1>9, <1>10, <1>11, Zenon

\* The strings left are no part of it.
LEMMA OnceSame ==
  ASSUME NEW g, NEW h, h.G = g.G, h.record = g.record, NEW b, NEW N, NEW V, Once(g, b, N, V)
  PROVE  Once(h, b, N, V)
  <1>1. \A k : NodeOnce(h, b, N, V, k) <=> NodeOnce(g, b, N, V, k)
    <2> TAKE k
    <2>1. Does(h.G, k) = Does(g.G, k)
      OBVIOUS
    <2> QED BY <2>1 DEF NodeOnce
  <1>2. \A x : NameOnce(h, b, N, x) <=> NameOnce(g, b, N, x)
    BY DEF NameOnce
  <1> QED BY <1>1, <1>2 DEF Once

\* A block that gives no name a new value, exported as far as node m.
Rebuilt(g, b, N, a, m) ==
    \E V : /\ V = [i \in Nat |-> V[i]] /\ Explained(b, V) /\ Explained(a, V)
           /\ Once(g, b, N, V) /\ Restored(g, b, a, m)

UInv == XInv /\ (~rebound => Rebuilt(graph, before, seen, after, Exported))

\* A step of building that gives no name a new value.
LEMMA BuildingUInv ==
  ASSUME UInv, XInv', Building,
         ~rebound' => /\ ~rebound
                      /\ Rebuilt(graph, before, seen, Start, 0)
                         => Rebuilt(graph', before', seen', Start, 0)
  PROVE  UInv'
  <1>1. after = Start /\ Exported = 0 /\ after' = Start /\ Exported' = 0
    BY DEF UInv, XInv, Stacked, Building, Exported
  <1> QED BY <1>1 DEF UInv

LEMMA OperationUInv ==
  ASSUME UInv, XInv', Move \/ Arithmetic \/ LoadElem \/ StoreElem PROVE UInv'
  <1>1. XInv /\ IInv /\ Machine(before)
    BY DEF UInv, XInv, Together
  <1>2. PICK q, hit : /\ Building /\ Assigns(q) /\ Built(graph, graph', q, hit)
                      /\ before' = Exec(before, q) /\ seen' = seen \cup {q.d, q.a, q.b}
                      /\ ~rebound' => ~rebound /\ q.d \notin seen \cup {q.a, q.b} /\ q.op # "[]="
    BY <1>1, OperationStep
  <1>3. ASSUME ~rebound', Rebuilt(graph, before, seen, Start, 0)
        PROVE  Rebuilt(graph', before', seen', Start, 0)
    <2>1. PICK V : /\ V = [i \in Nat |-> V[i]] /\ Explained(before, V) /\ Explained(Start, V)
                   /\ Once(graph, before, seen, V) /\ Restored(graph, before, Start, 0)
      BY <1>3 DEF Rebuilt
    <2>2. PICK h, c : h = graph' /\ c = before'
      OBVIOUS
    <2>3. /\ Once(h, Exec(before, q), seen \cup {q.d, q.a, q.b}, V)
          /\ Restored(h, Exec(before, q), Start, 0)
      BY <1>1, <1>2, <1>3, <2>1, <2>2, OnceBuilt
    <2>4. Once(graph', before', seen', V) /\ Restored(graph', before', Start, 0)
      BY <1>2, <2>2, <2>3
    <2>5. Explained(before', V)
      <3>1. before'.io = before.io
        BY <1>1, <1>2, ExecAssign DEF Assigns
      <3> QED BY <2>1, <3>1, ExplainedSame
    <2> QED BY <2>1, <2>4, <2>5 DEF Rebuilt
  <1> QED BY <1>2, <1>3, BuildingUInv

LEMMA ReadUInv == ASSUME UInv, XInv', ReadVar PROVE UInv'
  <1>1. rebound'
    BY ReadStep DEF UInv, XInv
  <1> QED BY <1>1 DEF UInv

LEMMA WriteUInv == ASSUME UInv, XInv', Write PROVE UInv'
  <1>1. XInv /\ IInv /\ len \in Nat /\ Graph(graph)
    BY DEF UInv, XInv, IInv
  <1>2. PICK x, q, w, k, n :
           /\ x \in Value /\ Building /\ LeafFor(graph, w, x, k) /\ InOutFor(w, graph', "write_e", k, len + 1, n)
           /\ graph'.record = w.record
           /\ q.op = "write_e" /\ q.d = x /\ q.no = len + 1
           /\ before' = Exec(before, q) /\ seen' = seen \cup {x, Zero} /\ (~rebound' => ~rebound)
    BY <1>1, WriteStep
  <1>3. Machine(before) /\ InTime(before, len) /\ Dated(graph, len)
    BY <1>1 DEF XInv, Together
  <1>4. ASSUME ~rebound', Rebuilt(graph, before, seen, Start, 0)
        PROVE  Rebuilt(graph', before', seen', Start, 0)
    <2>1. PICK V : /\ V = [i \in Nat |-> V[i]] /\ Explained(before, V) /\ Explained(Start, V)
                   /\ Once(graph, before, seen, V) /\ Restored(graph, before, Start, 0)
      BY <1>4 DEF Rebuilt
    <2> DEFINE r == len + 1
               W == Later(V, r, before.val[x])
    <2>2. r \in Nat /\ len < r
      BY <1>1
    <2>3. /\ W = [i \in Nat |-> W[i]] /\ W[r] = before.val[x]
          /\ \A i \in Nat : i # r => W[i] = V[i]
      BY <2>1, <2>2, LaterIs
    <2>4. Explained(before, W)
      <3>1. \A i \in 1..Len(before.io) : before.io[i][2] \in 1..len
        BY <1>3 DEF InTime
      <3> QED BY <1>1, <2>1, <2>2, <3>1, ExplainedLater
    <2>5. before'.io = Append(before.io, <<"out", r, before.val[x]>>) /\ before'.val = before.val
      BY <1>2, <1>3, ExecWrite
    <2>6. InOutFor(w, graph', "write_e", k, r, n)
      BY <1>2
    <2> HIDE DEF W, r
    <2>7. before'.io = Append(before.io, <<"out", r, W[r]>>)
      BY <2>3, <2>5
    <2>8. Explained(before', W)
      BY <1>3, <2>4, <2>7, ExplainedMore
    <2>9. Once(graph', before, seen \cup {x}, W) /\ Restored(graph', before, Start, 0)
      <3>1. PICK h : h = graph'
        OBVIOUS
      <3>2. Once(h, before, seen \cup {x}, W) /\ Restored(h, before, Start, 0)
        BY <1>1, <1>2, <1>3, <2>1, <2>2, <2>3, <2>6, <3>1, OnceWrite
      <3> QED BY <3>1, <3>2
    <2>10. Once(graph', before', seen', W) /\ Restored(graph', before', Start, 0)
      <3>1. Agree(before, before', seen \cup {x})
        BY <2>5 DEF Agree
      <3>2. Graph(graph') /\ seen \cup {x} \subseteq seen'
        BY <1>2 DEF InOutFor
      <3>3. seen' \subseteq Value
        BY <1>2, <2>9 DEF Once, Value
      <3>4. PICK h, c, M : h = graph' /\ c = before' /\ M = seen'
        OBVIOUS
      <3>5. Once(h, c, M, W)
        BY <2>9, <3>1, <3>2, <3>3, <3>4, OnceAgrees
      <3>6. Restored(graph', before', Start, 0)
        BY <2>5, <2>9 DEF Restored
      <3> QED BY <3>4, <3>5, <3>6
    <2>11. Explained(Start, W)
      BY ExplainedStart
    <2> QED BY <2>3, <2>8, <2>10, <2>11 DEF Rebuilt
  <1> QED BY <1>2, <1>4, BuildingUInv

LEMMA TextUInv == ASSUME UInv, XInv', WriteText PROVE UInv'
  <1>1. XInv /\ IInv /\ Machine(before) /\ Graph(graph)
    BY DEF UInv, XInv, Together, IInv
  <1>2. PICK q : /\ Building /\ graph' = [graph EXCEPT !.IOBuf = Append(@, len + 1)]
                 /\ q.op = "write_s" /\ q.no = len + 1
                 /\ before' = Exec(before, q) /\ seen' = seen \cup {Zero} /\ (~rebound' => ~rebound)
    BY <1>1, TextStep
  <1>3. graph'.G = graph.G /\ graph'.record = graph.record
    BY <1>1, <1>2, OtherBuf
  <1>4. before'.val = before.val /\ before'.io = Append(before.io, <<"text", q.no>>)
    BY <1>1, <1>2, ExecText
  <1>5. ASSUME ~rebound', Rebuilt(graph, before, seen, Start, 0)
        PROVE  Rebuilt(graph', before', seen', Start, 0)
    <2>1. PICK V : /\ V = [i \in Nat |-> V[i]] /\ Explained(before, V) /\ Explained(Start, V)
                   /\ Once(graph, before, seen, V) /\ Restored(graph, before, Start, 0)
      BY <1>5 DEF Rebuilt
    <2>2. Explained(before', V)
      BY <1>1, <1>4, <2>1, ExplainedMore
    <2>3. Once(graph, before', seen', V)
      <3>1. Agree(before, before', seen) /\ seen \subseteq seen' /\ seen' \subseteq Value
        BY <1>2, <1>4, <2>1 DEF Agree, Once, Value
      <3>2. PICK c, M : c = before' /\ M = seen'
        OBVIOUS
      <3>3. Once(graph, c, M, V)
        BY <1>1, <2>1, <3>1, <3>2, OnceAgrees
      <3> QED BY <3>2, <3>3
    <2>4. Once(graph', before', seen', V)
      <3>1. PICK h, c, M : h = graph' /\ c = before' /\ M = seen'
        OBVIOUS
      <3>2. Once(h, c, M, V)
        BY <1>3, <2>3, <3>1, OnceSame
      <3> QED BY <3>1, <3>2
    <2>5. Restored(graph', before', Start, 0)
      BY <1>3, <1>4, <2>1 DEF Restored
    <2> QED BY <2>1, <2>2, <2>4, <2>5 DEF Rebuilt
  <1> QED BY <1>2, <1>5, BuildingUInv

LEMMA ExportUInv == ASSUME UInv, XInv', Export PROVE UInv'
  <1>1. XInv /\ IInv /\ len \in Nat /\ Dated(graph, len) /\ Machine(after)
    BY DEF UInv, XInv, IInv, Together
  <1>2. PICK k, node :
           /\ k \in 1..Len(graph.G) /\ Exported = k - 1 /\ Exported' = k /\ node = graph.G[k]
           /\ after' = Run(Run(after, Trans(node)), Copies(node))
           /\ graph'.G = graph.G /\ graph'.record = graph.record
           /\ UNCHANGED <<seen, rebound, before>>
    BY <1>1, ExportStep
  <1>3. ASSUME ~rebound'
        PROVE  Rebuilt(graph', before', seen', after', Exported')
    <2>1. PICK V : /\ V = [i \in Nat |-> V[i]] /\ Explained(before, V) /\ Explained(after, V)
                   /\ Once(graph, before, seen, V) /\ Restored(graph, before, after, k - 1)
      BY <1>2, <1>3 DEF UInv, Rebuilt
    <2>2. PICK a, s, u : a = after /\ s = Run(a, Trans(node)) /\ u = Run(s, Copies(node))
      OBVIOUS
    <2>3. Restored(graph, before, u, k) /\ Explained(u, V)
      BY <1>1, <1>2, <2>1, <2>2, RestoredNode
    <2>4. u = after'
      BY <1>2, <2>2
    <2>5. Once(graph', before', seen', V)
      <3>1. PICK h : h = graph'
        OBVIOUS
      <3>2. Once(h, before, seen, V)
        BY <1>2, <2>1, <3>1, OnceSame
      <3> QED BY <1>2, <3>1, <3>2
    <2>6. Restored(graph', before', after', Exported')
      BY <1>2, <2>3, <2>4 DEF Restored
    <2> QED BY <1>2, <2>1, <2>3, <2>4, <2>5, <2>6 DEF Rebuilt
  <1> QED BY <1>3 DEF UInv

LEMMA EndExportUInv == ASSUME UInv, XInv', EndExport PROVE UInv'
  <1>1. /\ phase = "export" /\ stack = <<>> /\ phase' = "end" /\ stack' = stack
        /\ after' = Run(after, Texts(graph.IOBuf)) /\ graph' = [graph EXCEPT !.IOBuf = <<>>]
        /\ UNCHANGED <<seen, rebound, before>>
    BY DEF EndExport
  <1>2. Graph(graph) /\ graph.IOBuf \in Seq(Nat) /\ Machine(after)
    BY DEF UInv, XInv, IInv, Together, Dated
  <1>3. graph'.G = graph.G /\ graph'.record = graph.record
    BY <1>1, <1>2, OtherBuf
  <1>4. Exported' = Exported
    BY <1>1, <1>3 DEF Exported
  <1>5. Prints(after, after', graph.IOBuf, Len(graph.IOBuf)) /\ Len(graph.IOBuf) \in Nat
    BY <1>1, <1>2, TextsRun
  <1>6. after'.val = after.val
    BY <1>5 DEF Prints
  <1>7. \A V : Explained(after, V) => Explained(after', V)
    BY <1>2, <1>5, ExplainedPrints
  <1>8. ASSUME ~rebound'
        PROVE  Rebuilt(graph', before', seen', after', Exported')
    <2>1. PICK V : /\ V = [i \in Nat |-> V[i]] /\ Explained(before, V) /\ Explained(after, V)
                   /\ Once(graph, before, seen, V) /\ Restored(graph, before, after, Exported)
      BY <1>1, <1>8 DEF UInv, Rebuilt
    <2>2. Once(graph', before', seen', V)
      <3>1. PICK h : h = graph'
        OBVIOUS
      <3>2. Once(h, before, seen, V)
        BY <1>3, <2>1, <3>1, OnceSame
      <3> QED BY <1>1, <3>1, <3>2
    <2>3. Restored(graph', before', after', Exported')
      BY <1>1, <1>3, <1>4, <1>6, <2>1 DEF Restored
    <2> QED BY <1>1, <1>7, <2>1, <2>2, <2>3 DEF Rebuilt
  <1> QED BY <1>8 DEF UInv

LEMMA OrderUInv ==
  ASSUME UInv, XInv', EndBuild \/ Pick \/ EndOrder \/ UNCHANGED vars PROVE UInv'
  <1>1. UNCHANGED <<graph, before, after, seen, rebound>>
    BY DEF EndBuild, Pick, EndOrder, vars
  <1>2. Exported' = Exported
    BY NothingExported DEF UInv
  <1> QED BY <1>1, <1>2 DEF UInv

LEMMA NothingRebuilt == Rebuilt(Empty, Start, {}, Start, 0)
  <1> DEFINE V == [i \in Nat |-> 0]
  <1>1. V = [i \in Nat |-> V[i]]
    OBVIOUS
  <1> HIDE DEF V
  <1>2. Explained(Start, V)
    BY ExplainedStart
  <1>3. Once(Empty, Start, {}, V)
    BY DEF Empty, Once
  <1>4. Restored(Empty, Start, Start, 0)
    BY DEF Restored
  <1> QED BY <1>1, <1>2, <1>3, <1>4 DEF Rebuilt

LEMMA NextBlockUInv == ASSUME UInv, XInv', NextBlock PROVE UInv'
  <1>1. graph' = Empty /\ before' = Start /\ after' = Start /\ seen' = {} /\ phase' = "build"
    BY DEF NextBlock
  <1>2. Exported' = 0
    BY <1>1 DEF Exported
  <1> QED BY <1>1, <1>2, NothingRebuilt DEF UInv

LEMMA InitUInv == Init => UInv
  <1> SUFFICES ASSUME Init PROVE UInv
    OBVIOUS
  <1>1. graph = Empty /\ before = Start /\ after = Start /\ seen = {} /\ phase = "build"
    BY DEF Init
  <1>2. Exported = 0
    BY <1>1 DEF Exported
  <1> QED BY <1>1, <1>2, NothingRebuilt, InitXInv DEF UInv

LEMMA NextUInv == UInv /\ [Next]_vars => UInv'
  <1> SUFFICES ASSUME UInv, [Next]_vars PROVE UInv'
    OBVIOUS
  <1>1. XInv'
    BY NextXInv DEF UInv
  <1>2. CASE Move \/ Arithmetic \/ LoadElem \/ StoreElem
    BY <1>1, <1>2, OperationUInv
  <1>3. CASE ReadVar
    BY <1>1, <1>3, ReadUInv
  <1>4. CASE Write
    BY <1>1, <1>4, WriteUInv
  <1>5. CASE WriteText
    BY <1>1, <1>5, TextUInv
  <1>6. CASE EndBuild \/ Pick \/ EndOrder \/ UNCHANGED vars
    BY <1>1, <1>6, OrderUInv
  <1>7. CASE Export
    BY <1>1, <1>7, ExportUInv
  <1>8. CASE EndExport
    BY <1>1, <1>8, EndExportUInv
  <1>9. CASE NextBlock
    BY <1>1, <1>9, NextBlockUInv
  <1> QED BY <1>2, <1>3, <1>4, <1>5, <1>6, <1>7, <1>8, <1>9 DEF Next

\* A block that gives no name a new value: every node, however many names share
\* it, has its value under a name of its own from when it is exported on.
THEOREM NamedOnceInvariant == Spec => []UInv
  BY InitUInv, NextUInv, PTL DEF Spec

-------------------------------------------------------------------------------
(* The exported block does what the block did.                             *)

\* Blocks that read and print in the same order, the same values, and leave the
\* same values are the same.
LEMMA SameBlock ==
  ASSUME NEW b, Machine(b), NEW a, Machine(a), NEW V, Explained(b, V), Explained(a, V),
         Trace(a) = Trace(b), a.val = b.val
  PROVE  a = b
  <1>1. a.io = b.io
    BY SameTrace
  <1> QED BY <1>1 DEF Machine

LEMMA EndFacts ==
  ASSUME XInv, phase = "end"
  PROVE  /\ Exported = Len(graph.G) /\ Len(graph.G) \in Nat /\ Graph(graph)
         /\ Machine(before) /\ Machine(after)
  <1>1. stack = <<>> /\ Graph(graph)
    BY DEF XInv, Stacked, IInv
  <1>2. Exported = Len(graph.G) /\ Len(graph.G) \in Nat
    BY <1>1, GraphFacts DEF Exported
  <1> QED BY <1>1, <1>2 DEF XInv, Together

LEMMA SameUnshared ==
  ASSUME SInv, InOutInOrder, phase = "end", ~shared PROVE after = before
  <1>1. XInv
    BY DEF SInv
  <1>2. PICK V, F : /\ Explained(before, V) /\ Explained(after, V)
                    /\ F[Len(graph.G)] = State(before) /\ F[Exported] = State(after)
    BY DEF SInv, Replayed
  <1>3. State(after) = State(before)
    BY <1>1, <1>2, EndFacts
  <1>4. after.val = before.val
    BY <1>3 DEF State
  <1>5. Trace(after) = Trace(before)
    BY DEF InOutInOrder
  <1> QED BY <1>1, <1>2, <1>4, <1>5, EndFacts, SameBlock

LEMMA SameUnbound ==
  ASSUME UInv, InOutInOrder, phase = "end", ~rebound PROVE after = before
  <1>1. XInv
    BY DEF UInv
  <1>2. PICK V : /\ Explained(before, V) /\ Explained(after, V)
                 /\ Restored(graph, before, after, Exported)
    BY DEF UInv, Rebuilt
  <1>3. \A v \in DOMAIN graph.record : graph.record[v] \in 1..Exported
    BY <1>1, EndFacts DEF Graph, Shaped
  <1>4. \A v \in Value : after.val[v] = before.val[v]
    BY <1>2, <1>3 DEF Restored
  <1>5. after.val = before.val
    <2>1. /\ after.val = [x \in Value |-> after.val[x]]
          /\ before.val = [x \in Value |-> before.val[x]]
      BY <1>1, EndFacts DEF Machine
    <2> QED BY <1>4, <2>1
  <1>6. Trace(after) = Trace(before)
    BY DEF InOutInOrder
  <1> QED BY <1>1, <1>2, <1>5, <1>6, EndFacts, SameBlock

\* A block in which equal operations share a node, or one in which a name is
\* assigned again, is exported as a block that leaves every name and every
\* array the value it had and reads and prints the same values; only a block
\* that does both may differ.
THEOREM SameWithoutBoth == Spec => []SameUnlessBoth
  <1>1. SInv /\ UInv /\ InOutInOrder => SameUnlessBoth
    <2> SUFFICES ASSUME SInv, UInv, InOutInOrder, ~(rebound /\ shared), phase = "end"
                 PROVE  after = before
      BY DEF SameUnlessBoth, SameBehaviour
    <2>1. ~shared \/ ~rebound
      OBVIOUS
    <2> QED BY <2>1, SameUnshared, SameUnbound
  <1> QED BY <1>1, UnsharedInvariant, NamedOnceInvariant, ReadsAndPrintsInOrder, PTL
===============================================================================
