------------------------------ MODULE DagProofs ------------------------------
(***************************************************************************)
(* Proofs about the graph of a basic block, for every block of any length. *)
(* A node's operands were made before it and it knows how many fathers it  *)
(* has, so that the graph is taken apart from its last node to its first   *)
(* and never has a circle; each name stands in the list of one node.       *)
(***************************************************************************)
EXTENDS DagBlock, NumberFacts, FiniteSetTheorems, SequenceTheorems, TLAPS

Ops == Op \cup {"leaf", "=", "=[]", "[]=", "read", "write_e"}
InOutOps == {"read", "write_e"}
NodeType == [op : Ops, item : Pointer, items : Seq(Pointer), lhs : Nat, rhs : Nat, fa : Nat]

\* The second operand; a read or a write has its position in its place.
Second(node) == IF node.op \in InOutOps THEN 0 ELSE node.rhs

\* How often node k is an operand of the first m nodes.
Fathers(G, k, m) ==
    Cardinality({j \in 1..m : G[j].lhs = k}) + Cardinality({j \in 1..m : Second(G[j]) = k})

OperandsBelow(node, k) ==
    /\ Leaf(node) => node.lhs = 0 /\ node.rhs = 0
    /\ ~Leaf(node) => node.lhs \in 1..(k - 1)
    /\ ~Leaf(node) /\ node.op \notin InOutOps => node.rhs \in 1..(k - 1)

\* Operands come before the node, and fa counts the fathers.
Wired(G) ==
    \A k \in 1..Len(G) : OperandsBelow(G[k], k) /\ G[k].fa = Fathers(G, k, Len(G))

\* The names a node stands for are those recorded for it; a leaf stands for the
\* name it was made for or for none.
Names(items) == {items[i].name : i \in 1..Len(items)}
Holds(node) == Names(node.items)
Recorded(record, k) == {x \in DOMAIN record : record[x] = k}
Named(g) ==
    \A k \in 1..Len(g.G) :
        /\ Holds(g.G[k]) = Recorded(g.record, k)
        /\ Leaf(g.G[k]) => Holds(g.G[k]) \subseteq {g.G[k].item.name}

Shaped(g) ==
    /\ g = [G |-> g.G, record |-> g.record, IOBuf |-> g.IOBuf]
    /\ g.G \in Seq(NodeType)
    /\ DOMAIN g.record \subseteq Value
    /\ \A x \in DOMAIN g.record : g.record[x] \in 1..Len(g.G)

Graph(g) == Shaped(g) /\ Wired(g.G) /\ Named(g)

-------------------------------------------------------------------------------
(* Counting fathers.                                                       *)

LEMMA OneMore ==
  ASSUME NEW m \in Nat, NEW A \in SUBSET (1..m)
  PROVE  /\ IsFiniteSet(A) /\ Cardinality(A) \in Nat
         /\ Cardinality(A \cup {m + 1}) = Cardinality(A) + 1
  <1>1. IsFiniteSet(1..m)
    BY FS_Interval
  <1>2. IsFiniteSet(A)
    BY <1>1, FS_Subset
  <1>3. m + 1 \notin A
    OBVIOUS
  <1> QED BY <1>2, <1>3, FS_AddElement, FS_CardinalityType

\* A node adds itself to the fathers of its operands.
LEMMA FathersGrow ==
  ASSUME NEW G, NEW m \in Nat, NEW n, n = m + 1, NEW k
  PROVE  /\ Fathers(G, k, m) \in Nat
         /\ Fathers(G, k, n) = Fathers(G, k, m) + (IF G[n].lhs = k THEN 1 ELSE 0)
                                                + (IF Second(G[n]) = k THEN 1 ELSE 0)
  <1> DEFINE A == {j \in 1..m : G[j].lhs = k}
             B == {j \in 1..n : G[j].lhs = k}
             C == {j \in 1..m : Second(G[j]) = k}
             D == {j \in 1..n : Second(G[j]) = k}
  <1>1. A \in SUBSET (1..m) /\ B = IF G[n].lhs = k THEN A \cup {m + 1} ELSE A
    OBVIOUS
  <1>2. C \in SUBSET (1..m) /\ D = IF Second(G[n]) = k THEN C \cup {m + 1} ELSE C
    OBVIOUS
  <1>3. Fathers(G, k, m) = Cardinality(A) + Cardinality(C)
    BY DEF Fathers
  <1>4. Fathers(G, k, n) = Cardinality(B) + Cardinality(D)
    BY DEF Fathers
  <1> HIDE DEF A, B, C, D
  <1>5. Cardinality(A) \in Nat /\ Cardinality(A \cup {m + 1}) = Cardinality(A) + 1
    BY <1>1, OneMore
  <1>6. Cardinality(C) \in Nat /\ Cardinality(C \cup {m + 1}) = Cardinality(C) + 1
    BY <1>2, OneMore
  <1>7. Cardinality(B) = Cardinality(A) + IF G[n].lhs = k THEN 1 ELSE 0
    BY <1>1, <1>5
  <1>8. Cardinality(D) = Cardinality(C) + IF Second(G[n]) = k THEN 1 ELSE 0
    BY <1>2, <1>6
  <1> QED BY <1>3, <1>4, <1>5, <1>6, <1>7, <1>8

\* Who is whose father is a matter of operands only.
LEMMA FathersSame ==
  ASSUME NEW G, NEW H, NEW m \in Nat, NEW k,
         \A j \in 1..m : H[j].op = G[j].op /\ H[j].lhs = G[j].lhs /\ H[j].rhs = G[j].rhs
  PROVE  Fathers(H, k, m) = Fathers(G, k, m)
  <1>1. {j \in 1..m : H[j].lhs = k} = {j \in 1..m : G[j].lhs = k}
    OBVIOUS
  <1>2. \A j \in 1..m : Second(H[j]) = Second(G[j])
    BY DEF Second
  <1>3. {j \in 1..m : Second(H[j]) = k} = {j \in 1..m : Second(G[j]) = k}
    BY <1>2
  <1> QED BY <1>1, <1>3 DEF Fathers

\* Nodes from k up have no father among the first m <= k.
LEMMA NoFather ==
  ASSUME NEW G, NEW m \in Nat, NEW k \in Nat \ {0}, m <= k,
         \A j \in 1..m : OperandsBelow(G[j], j)
  PROVE  Fathers(G, k, m) = 0
  <1>1. ASSUME NEW j \in 1..m PROVE G[j].lhs # k /\ Second(G[j]) # k
    BY DEF OperandsBelow, Second
  <1>2. {j \in 1..m : G[j].lhs = k} = {} /\ {j \in 1..m : Second(G[j]) = k} = {}
    BY <1>1
  <1>3. Cardinality({}) = 0
    BY FS_EmptySet
  <1>4. Fathers(G, k, m) = Cardinality({}) + Cardinality({})
    BY <1>2, Zenon DEF Fathers
  <1> QED BY <1>3, <1>4

\* A node added after the others, whose operands it gives a father.
LEMMA NewNode ==
  ASSUME NEW G \in Seq(NodeType), Wired(G), NEW H \in Seq(NodeType), NEW n \in Nat,
         Len(H) = n, n = Len(G) + 1,
         \A k \in 1..Len(G) :
           /\ H[k].op = G[k].op /\ H[k].lhs = G[k].lhs /\ H[k].rhs = G[k].rhs
           /\ H[k].fa = G[k].fa + (IF H[n].lhs = k THEN 1 ELSE 0)
                                + (IF Second(H[n]) = k THEN 1 ELSE 0),
         OperandsBelow(H[n], n), H[n].fa = 0
  PROVE  Wired(H)
  <1> DEFINE m == Len(G)
  <1>1. m \in Nat /\ n = m + 1 /\ n \in Nat \ {0} /\ n <= n
    OBVIOUS
  <1> HIDE DEF m
  <1>2. \A k \in 1..m : /\ H[k].op = G[k].op /\ H[k].lhs = G[k].lhs /\ H[k].rhs = G[k].rhs
                        /\ H[k].fa = G[k].fa + (IF H[n].lhs = k THEN 1 ELSE 0)
                                             + (IF Second(H[n]) = k THEN 1 ELSE 0)
    BY DEF m
  <1>3. \A k \in 1..m : OperandsBelow(G[k], k) /\ G[k].fa = Fathers(G, k, m)
    BY DEF m, Wired
  <1>4. ASSUME NEW k \in 1..n PROVE OperandsBelow(H[k], k)
    <2>1. CASE k \in 1..m
      <3>1. OperandsBelow(G[k], k)
        BY <1>3, <2>1
      <3>2. H[k].op = G[k].op /\ H[k].lhs = G[k].lhs /\ H[k].rhs = G[k].rhs
        BY <1>2, <2>1
      <3> QED BY <3>1, <3>2 DEF OperandsBelow, Leaf
    <2>2. CASE k = n
      BY <2>2
    <2> QED BY <1>1, <2>1, <2>2
  <1>5. ASSUME NEW k \in 1..n PROVE H[k].fa = Fathers(H, k, n)
    <2>1. CASE k \in 1..m
      <3>1. Fathers(H, k, m) = Fathers(G, k, m)
        BY <1>1, <1>2, FathersSame
      <3>2. Fathers(H, k, n) = Fathers(H, k, m) + (IF H[n].lhs = k THEN 1 ELSE 0)
                                                + (IF Second(H[n]) = k THEN 1 ELSE 0)
        <4>1. m \in Nat /\ n = m + 1
          BY <1>1
        <4> QED BY <4>1, FathersGrow, SMTT(30)
      <3> QED BY <1>2, <1>3, <2>1, <3>1, <3>2
    <2>2. CASE k = n
      <3>1. Fathers(H, n, n) = 0
        BY <1>1, <1>4, NoFather
      <3> QED BY <2>2, <3>1
    <2> QED BY <1>1, <2>1, <2>2
  <1> QED BY <1>4, <1>5 DEF Wired

\* Values and numbers of lists may change; operators and operands may not.
LEMMA StaysWired ==
  ASSUME NEW G \in Seq(NodeType), Wired(G), NEW H \in Seq(NodeType), Len(H) = Len(G),
         \A k \in 1..Len(G) : /\ H[k].op = G[k].op /\ H[k].lhs = G[k].lhs
                              /\ H[k].rhs = G[k].rhs /\ H[k].fa = G[k].fa
  PROVE  Wired(H)
  <1> DEFINE m == Len(G)
  <1>1. m \in Nat /\ Len(H) = m
    OBVIOUS
  <1>2. \A k \in 1..m : OperandsBelow(G[k], k) /\ G[k].fa = Fathers(G, k, m)
    BY DEF Wired
  <1>3. \A k \in 1..m : /\ H[k].op = G[k].op /\ H[k].lhs = G[k].lhs
                        /\ H[k].rhs = G[k].rhs /\ H[k].fa = G[k].fa
    OBVIOUS
  <1> HIDE DEF m
  <1>4. ASSUME NEW k \in 1..m PROVE OperandsBelow(H[k], k) /\ H[k].fa = Fathers(H, k, m)
    <2>1. Fathers(H, k, m) = Fathers(G, k, m)
      BY <1>1, <1>3, FathersSame
    <2>2. OperandsBelow(H[k], k)
      BY <1>2, <1>3 DEF OperandsBelow, Leaf
    <2> QED BY <1>2, <1>3, <2>1, <2>2
  <1> QED BY <1>1, <1>4 DEF Wired

-------------------------------------------------------------------------------
(* The names of a list without one of them.                                *)

KeptNext(f, s, n, i) ==
    IF i = 0 THEN <<>>
    ELSE IF s[i].name = n THEN f[i - 1] ELSE Append(f[i - 1], s[i])
Keeps(f, s, n, l) == f = [i \in 0..l |-> KeptNext(f, s, n, i)]

\* The function in the definition of Without exists, for lists of any length.
LEMMA KeptExists ==
  ASSUME NEW s, NEW n, NEW l \in Nat
  PROVE  \E f : Keeps(f, s, n, l)
  <1> DEFINE bad == {m \in Nat : ~ \E f : Keeps(f, s, n, m)}
  <1>1. ASSUME bad # {} PROVE FALSE
    <2>1. PICK m \in bad : \A k \in bad : m <= k
      <3>1. bad \in SUBSET Nat
        OBVIOUS
      <3> HIDE DEF bad
      <3> QED BY <1>1, <3>1, Least
    <2>2. CASE m = 0
      <3> DEFINE f == [i \in 0..0 |-> <<>>]
      <3>1. f = [i \in 0..0 |-> KeptNext(f, s, n, i)]
        BY DEF KeptNext
      <3>2. Keeps(f, s, n, 0)
        BY <3>1 DEF Keeps
      <3> QED BY <2>1, <2>2, <3>2
    <2>3. CASE m # 0
      <3>1. m - 1 \in Nat /\ m - 1 \notin bad /\ m \in Nat \ {0}
        BY <2>1, <2>3
      <3>2. PICK f : f = [i \in 0..(m - 1) |-> KeptNext(f, s, n, i)]
        BY <3>1 DEF Keeps
      <3> DEFINE g == [i \in 0..m |-> IF i < m THEN f[i] ELSE KeptNext(f, s, n, m)]
                 h == [i \in 0..m |-> KeptNext(g, s, n, i)]
      <3>3. ASSUME NEW i \in 0..m PROVE g[i] = h[i]
        <4>1. i # 0 => i - 1 \in 0..m /\ i - 1 < m
          BY <3>1
        <4>2. i # 0 => g[i - 1] = f[i - 1]
          BY <4>1
        <4>3. KeptNext(g, s, n, i) = KeptNext(f, s, n, i)
          BY <4>2 DEF KeptNext
        <4>4. CASE i < m
          <5>1. i \in 0..(m - 1)
            BY <3>1, <4>4
          <5>2. f[i] = KeptNext(f, s, n, i)
            BY <3>2, <5>1
          <5> QED BY <4>3, <4>4, <5>2
        <4>5. CASE i = m
          BY <3>1, <4>3, <4>5
        <4> QED BY <3>1, <4>4, <4>5
      <3>4. g = h
        BY <3>3
      <3>5. Keeps(g, s, n, m)
        BY <3>4 DEF Keeps
      <3> HIDE DEF g
      <3> QED BY <2>1, <3>5
    <2> QED BY <2>2, <2>3
  <1>2. l \notin bad
    BY <1>1
  <1> QED BY <1>2

LEMMA NamesAppend ==
  ASSUME NEW t \in Seq(Pointer), NEW v \in Pointer
  PROVE  Append(t, v) \in Seq(Pointer) /\ Names(Append(t, v)) = Names(t) \cup {v.name}
  <1> DEFINE u == Append(t, v)
  <1>1. /\ u \in Seq(Pointer) /\ Len(u) = Len(t) + 1 /\ Len(t) \in Nat
        /\ u[Len(t) + 1] = v /\ \A i \in 1..Len(t) : u[i] = t[i]
    OBVIOUS
  <1> HIDE DEF u
  <1>2. Names(u) \subseteq Names(t) \cup {v.name}
    BY <1>1 DEF Names
  <1>3. Names(t) \subseteq Names(u)
    BY <1>1 DEF Names
  <1>4. v.name \in Names(u)
    <2>1. Len(t) + 1 \in 1..Len(u) /\ u[Len(t) + 1].name = v.name
      BY <1>1
    <2> QED BY <2>1 DEF Names
  <1> QED BY <1>1, <1>2, <1>3, <1>4 DEF u

\* Without keeps a list of values and takes one name from it.
LEMMA WithoutIs ==
  ASSUME NEW s \in Seq(Pointer), NEW n
  PROVE  Without(s, n) \in Seq(Pointer) /\ Names(Without(s, n)) = Names(s) \ {n}
  <1> DEFINE l == Len(s)
             kept == CHOOSE f : Keeps(f, s, n, l)
             good(i) == /\ kept[i] \in Seq(Pointer)
                        /\ Names(kept[i]) = {s[j].name : j \in 1..i} \ {n}
  <1>1. l \in Nat /\ \A i \in 1..l : s[i] \in Pointer
    OBVIOUS
  <1>2. Without(s, n) = kept[l]
    BY DEF Without, Keeps, KeptNext
  <1>3. kept = [i \in 0..l |-> KeptNext(kept, s, n, i)]
    <2>1. l \in Nat
      BY <1>1
    <2> HIDE DEF l
    <2>2. \E f : Keeps(f, s, n, l)
      BY <2>1, KeptExists
    <2>3. Keeps(kept, s, n, l)
      BY <2>2, Zenon
    <2> QED BY <2>3 DEF Keeps
  <1> HIDE DEF kept, l
  <1>4. \A i \in 0..l : kept[i] = KeptNext(kept, s, n, i)
    BY <1>3
  <1> DEFINE bad == {i \in 0..l : ~good(i)}
  <1>5. ASSUME bad # {} PROVE FALSE
    <2>1. PICK m \in bad : \A k \in bad : m <= k
      <3>1. bad \in SUBSET Nat
        OBVIOUS
      <3> HIDE DEF bad
      <3> QED BY <1>5, <3>1, Least
    <2>2. m \in 0..l /\ ~good(m)
      BY <2>1
    <2>3. CASE m = 0
      <3>1. kept[0] = <<>>
        <4>1. 0 \in 0..l /\ kept[0] = KeptNext(kept, s, n, 0)
          BY <1>1, <1>4
        <4> QED BY <4>1 DEF KeptNext
      <3>2. <<>> \in Seq(Pointer) /\ Names(<<>>) = {}
        BY DEF Names
      <3>3. {s[j].name : j \in 1..0} = {}
        OBVIOUS
      <3> QED BY <2>2, <2>3, <3>1, <3>2, <3>3
    <2>4. CASE m # 0
      <3> DEFINE p == m - 1
                 t == kept[p]
      <3>1. p \in Nat /\ p \in 0..l /\ m = p + 1 /\ m \in 1..l
        BY <1>1, <2>2, <2>4
      <3>2. p \notin bad
        <4> HIDE DEF bad, p
        <4> QED BY <1>1, <2>1, <2>2, <3>1
      <3>3. t \in Seq(Pointer) /\ Names(t) = {s[j].name : j \in 1..p} \ {n}
        BY <3>1, <3>2
      <3>4. kept[m] = IF s[m].name = n THEN t ELSE Append(t, s[m])
        BY <1>4, <2>2, <2>4 DEF KeptNext
      <3>5. {s[j].name : j \in 1..m} = {s[j].name : j \in 1..p} \cup {s[m].name}
        <4> HIDE DEF p
        <4> QED BY <3>1
      <3>6. s[m] \in Pointer
        BY <1>1, <3>1
      <3> HIDE DEF p, t
      <3>7. /\ Append(t, s[m]) \in Seq(Pointer)
            /\ Names(Append(t, s[m])) = Names(t) \cup {s[m].name}
        BY <3>3, <3>6, NamesAppend
      <3>8. good(m)
        BY <3>3, <3>4, <3>5, <3>7
      <3> QED BY <2>2, <3>8
    <2> QED BY <2>3, <2>4
  <1>6. good(l)
    <2>1. l \in 0..l
      BY <1>1
    <2> HIDE DEF good
    <2> QED BY <1>5, <2>1
  <1>7. Names(s) = {s[j].name : j \in 1..l}
    BY DEF Names, l
  <1> QED BY <1>2, <1>6, <1>7

-------------------------------------------------------------------------------
(* The graph after each call that builds it.                               *)

Fields(g) == g = [G |-> g.G, record |-> g.record, IOBuf |-> g.IOBuf]

LEMMA NewNodes ==
  ASSUME NEW g, Fields(g), NEW H
  PROVE  /\ Fields([g EXCEPT !.G = H]) /\ [g EXCEPT !.G = H].G = H
         /\ [g EXCEPT !.G = H].record = g.record
         /\ [g EXCEPT !.G = H].IOBuf = g.IOBuf
  BY DEF Fields

Remapped(g, R, H) == [g EXCEPT !.record = R, !.G = H]

LEMMA NewRecord ==
  ASSUME NEW g, Fields(g), NEW R, NEW H
  PROVE  /\ Fields(Remapped(g, R, H)) /\ Remapped(g, R, H).record = R
         /\ Remapped(g, R, H).G = H /\ Remapped(g, R, H).IOBuf = g.IOBuf
  <1> DEFINE r == [g EXCEPT !.record = R]
             h == Remapped(g, R, H)
  <1>1. g = [G |-> g.G, record |-> g.record, IOBuf |-> g.IOBuf]
    BY DEF Fields
  <1>2. r = [G |-> g.G, record |-> R, IOBuf |-> g.IOBuf]
    BY <1>1
  <1>3. h = [r EXCEPT !.G = H]
    BY <1>1 DEF Remapped
  <1> HIDE DEF r, h
  <1>4. h = [G |-> H, record |-> R, IOBuf |-> g.IOBuf]
    BY <1>2, <1>3
  <1>5. Fields(h) /\ h.record = R /\ h.G = H /\ h.IOBuf = g.IOBuf
    BY <1>4 DEF Fields
  <1> QED BY <1>5 DEF h

\* The nodes there were keep their operation and their operands, and the
\* strings to print are the same.
Kept(g, h) ==
    /\ h.IOBuf = g.IOBuf
    /\ \A k \in 1..Len(g.G) : /\ h.G[k].op = g.G[k].op /\ h.G[k].item = g.G[k].item
                              /\ h.G[k].lhs = g.G[k].lhs /\ h.G[k].rhs = g.G[k].rhs

\* Name x is recorded for node n.
Maps(g, h, x, n) ==
    /\ DOMAIN h.record = DOMAIN g.record \cup {x} /\ h.record[x] = n
    /\ \A y \in DOMAIN g.record : y # x => h.record[y] = g.record[y]

LEMMA EmptyGraph == Graph(Empty)
  <1>1. Fields(Empty) /\ Empty.G = <<>> /\ DOMAIN Empty.record = {}
    BY DEF Empty, Fields
  <1>2. Empty.G \in Seq(NodeType) /\ Len(Empty.G) = 0
    BY <1>1
  <1> QED BY <1>1, <1>2 DEF Graph, Shaped, Wired, Named, Fields

\* A node added for which no name stands yet.
OneAdded(g, h) ==
    LET n == Len(g.G) + 1
        new == h.G[n]
    IN /\ Fields(h) /\ h.record = g.record /\ h.G \in Seq(NodeType) /\ Len(h.G) = n
       /\ \A k \in 1..Len(g.G) :
            /\ h.G[k].op = g.G[k].op /\ h.G[k].lhs = g.G[k].lhs /\ h.G[k].rhs = g.G[k].rhs
            /\ h.G[k].item = g.G[k].item /\ h.G[k].items = g.G[k].items
            /\ h.G[k].fa = g.G[k].fa + (IF new.lhs = k THEN 1 ELSE 0)
                                     + (IF Second(new) = k THEN 1 ELSE 0)
       /\ OperandsBelow(new, n) /\ new.fa = 0 /\ new.items = <<>>

LEMMA Added == ASSUME NEW g, Graph(g), NEW h, OneAdded(g, h) PROVE Graph(h)
  <1> DEFINE G == g.G
             H == h.G
             m == Len(g.G)
             n == m + 1
  <1>1. /\ G \in Seq(NodeType) /\ Wired(G) /\ m \in Nat /\ m = Len(G)
        /\ DOMAIN g.record \subseteq Value
        /\ \A x \in DOMAIN g.record : g.record[x] \in 1..m
    BY DEF Graph, Shaped
  <1>2. \A k \in 1..m : /\ Holds(G[k]) = Recorded(g.record, k)
                        /\ Leaf(G[k]) => Holds(G[k]) \subseteq {G[k].item.name}
    BY DEF Graph, Named
  <1>3. /\ H \in Seq(NodeType) /\ Len(H) = n /\ n = m + 1
        /\ OperandsBelow(H[n], n) /\ H[n].fa = 0 /\ H[n].items = <<>>
        /\ Fields(h) /\ h.record = g.record
    BY DEF OneAdded
  <1>4. \A k \in 1..m :
           /\ H[k].op = G[k].op /\ H[k].lhs = G[k].lhs /\ H[k].rhs = G[k].rhs
           /\ H[k].item = G[k].item /\ H[k].items = G[k].items
           /\ H[k].fa = G[k].fa + (IF H[n].lhs = k THEN 1 ELSE 0)
                                + (IF Second(H[n]) = k THEN 1 ELSE 0)
    BY DEF OneAdded
  <1> HIDE DEF G, H, m, n
  <1>5. Wired(H)
    BY <1>1, <1>3, <1>4, NewNode
  <1>6. ASSUME NEW k \in 1..n
        PROVE  /\ Holds(H[k]) = Recorded(g.record, k)
               /\ Leaf(H[k]) => Holds(H[k]) \subseteq {H[k].item.name}
    <2>1. CASE k \in 1..m
      <3>1. Holds(H[k]) = Holds(G[k]) /\ H[k].item = G[k].item /\ (Leaf(H[k]) <=> Leaf(G[k]))
        BY <1>4, <2>1 DEF Holds, Leaf
      <3> QED BY <1>2, <2>1, <3>1
    <2>2. CASE k = n
      <3>1. Holds(H[k]) = {}
        BY <1>3, <2>2 DEF Holds, Names
      <3>2. Recorded(g.record, k) = {}
        BY <1>1, <1>3, <2>2 DEF Recorded
      <3> QED BY <3>1, <3>2
    <2> QED BY <1>1, <1>3, <2>1, <2>2
  <1>7. Named(h)
    BY <1>3, <1>6 DEF Named, H
  <1>8. Shaped(h)
    BY <1>1, <1>3 DEF Shaped, Fields, H
  <1> QED BY <1>5, <1>7, <1>8 DEF Graph, H

\* findNode(v), before v is recorded.
LEMMA LeafAdded ==
  ASSUME NEW g, Graph(g), NEW v \in Pointer
  PROVE  LET h == [g EXCEPT !.G = Append(@, Node("leaf", v, 0, 0))]
             n == Len(g.G) + 1
         IN /\ Graph(h) /\ Len(h.G) = n /\ n \in 1..n /\ h.G[n] = Node("leaf", v, 0, 0)
            /\ h.record = g.record /\ Kept(g, h)
  <1> DEFINE h == [g EXCEPT !.G = Append(@, Node("leaf", v, 0, 0))]
             n == Len(g.G) + 1
             leaf == Node("leaf", v, 0, 0)
             G == g.G
  <1>1. G \in Seq(NodeType) /\ Len(G) \in Nat /\ Fields(g) /\ n = Len(G) + 1 /\ Wired(G)
    BY DEF Graph, Shaped, Fields
  <1>2. /\ leaf \in NodeType /\ leaf.op = "leaf" /\ leaf.lhs = 0 /\ leaf.rhs = 0 /\ leaf.fa = 0
        /\ leaf.items = <<>>
    <2>1. <<>> \in Seq(Pointer)
      OBVIOUS
    <2> QED BY <2>1 DEF NodeType, Node, Ops
  <1>3. Fields(h) /\ h.G = Append(G, leaf) /\ h.record = g.record /\ h.IOBuf = g.IOBuf
    BY <1>1, NewNodes
  <1> DEFINE H == Append(G, leaf)
  <1> HIDE DEF leaf, G, n
  <1>4. /\ H \in Seq(NodeType) /\ Len(H) = n /\ n \in Nat /\ n \in 1..n /\ H[n] = leaf
        /\ \A k \in 1..Len(G) : H[k] = G[k]
    <2>0. G \in Seq(NodeType) /\ leaf \in NodeType
      BY <1>1, <1>2
    <2>1. H \in Seq(NodeType)
      BY <2>0
    <2>2. Len(H) = Len(G) + 1
      BY <2>0
    <2>3. H[Len(G) + 1] = leaf
      BY <2>0
    <2>4. \A k \in 1..Len(G) : H[k] = G[k]
      BY <2>0
    <2> HIDE DEF H
    <2> QED BY <1>1, <2>1, <2>2, <2>3, <2>4
  <1> HIDE DEF H, h
  <1>5. OperandsBelow(leaf, n) /\ Second(leaf) = 0
    BY <1>2 DEF OperandsBelow, Leaf, Second, InOutOps
  <1>6. \A k \in 1..Len(G) : G[k].fa = G[k].fa + (IF leaf.lhs = k THEN 1 ELSE 0)
                                              + (IF Second(leaf) = k THEN 1 ELSE 0)
    <2> SUFFICES ASSUME NEW k \in 1..Len(G)
                 PROVE  G[k].fa = G[k].fa + (IF leaf.lhs = k THEN 1 ELSE 0)
                                          + (IF Second(leaf) = k THEN 1 ELSE 0)
      OBVIOUS
    <2>1. G[k] \in NodeType /\ k # 0
      BY <1>1
    <2>2. G[k].fa \in Nat
      BY <2>1 DEF NodeType
    <2>3. leaf.lhs # k /\ Second(leaf) # k
      BY <1>2, <1>5, <2>1
    <2> QED BY <2>2, <2>3
  <1>7. h.G = H
    BY <1>3 DEF H
  <1>8. OneAdded(g, h)
    <2>1. /\ OperandsBelow(H[n], n) /\ H[n].fa = 0 /\ H[n].items = <<>>
          /\ H[n].lhs = leaf.lhs /\ Second(H[n]) = Second(leaf)
      BY <1>2, <1>4, <1>5
    <2>2. ASSUME NEW k \in 1..Len(G)
          PROVE  /\ H[k].op = G[k].op /\ H[k].lhs = G[k].lhs /\ H[k].rhs = G[k].rhs
                 /\ H[k].item = G[k].item /\ H[k].items = G[k].items
                 /\ H[k].fa = G[k].fa + (IF H[n].lhs = k THEN 1 ELSE 0)
                                      + (IF Second(H[n]) = k THEN 1 ELSE 0)
      BY <1>4, <1>6, <2>1
    <2> QED BY <1>3, <1>4, <1>7, <2>1, <2>2 DEF OneAdded, n, G
  <1>9. Kept(g, h)
    BY <1>3, <1>4, <1>7 DEF Kept, G
  <1>10. Graph(h)
    BY <1>8, Added
  <1> QED BY <1>3, <1>4, <1>7, <1>9, <1>10 DEF G, leaf, h, n

LEMMA GraphFacts ==
  ASSUME NEW g, Graph(g)
  PROVE  g.G \in Seq(NodeType) /\ Len(g.G) \in Nat /\ Fields(g)
  BY DEF Graph, Shaped, Fields

\* One more father for node k.
LEMMA FatherAdded ==
  ASSUME NEW G \in Seq(NodeType), NEW k \in 1..Len(G)
  PROVE  /\ AddFather(G, k) \in Seq(NodeType) /\ Len(AddFather(G, k)) = Len(G)
         /\ \A j \in 1..Len(G) :
              LET node == AddFather(G, k)[j]
              IN /\ node.op = G[j].op /\ node.lhs = G[j].lhs /\ node.rhs = G[j].rhs
                 /\ node.item = G[j].item /\ node.items = G[j].items
                 /\ node.fa = G[j].fa + (IF k = j THEN 1 ELSE 0)
  <1> DEFINE H == AddFather(G, k)
             more == [G[k] EXCEPT !.fa = @ + 1]
  <1>1. G[k] \in NodeType
    OBVIOUS
  <1>2. /\ more \in NodeType /\ more.fa = G[k].fa + 1
        /\ more.op = G[k].op /\ more.lhs = G[k].lhs /\ more.rhs = G[k].rhs
        /\ more.item = G[k].item /\ more.items = G[k].items
    <2>1. /\ G[k] = [op |-> G[k].op, item |-> G[k].item, items |-> G[k].items,
                     lhs |-> G[k].lhs, rhs |-> G[k].rhs, fa |-> G[k].fa]
          /\ G[k].fa + 1 \in Nat
      BY <1>1 DEF NodeType
    <2>2. more = [op |-> G[k].op, item |-> G[k].item, items |-> G[k].items,
                  lhs |-> G[k].lhs, rhs |-> G[k].rhs, fa |-> G[k].fa + 1]
      BY <2>1
    <2> HIDE DEF more
    <2>3. more \in NodeType
      BY <1>1, <2>1, <2>2 DEF NodeType
    <2> QED BY <2>2, <2>3
  <1>3. H = [G EXCEPT ![k] = more]
    BY DEF AddFather
  <1> HIDE DEF H, more
  <1>4. H \in Seq(NodeType) /\ Len(H) = Len(G)
    BY <1>2, <1>3
  <1>5. \A j \in 1..Len(G) : H[j] = IF j = k THEN more ELSE G[j]
    BY <1>3
  <1>6. ASSUME NEW j \in 1..Len(G)
        PROVE  /\ H[j].op = G[j].op /\ H[j].lhs = G[j].lhs /\ H[j].rhs = G[j].rhs
               /\ H[j].item = G[j].item /\ H[j].items = G[j].items
               /\ H[j].fa = G[j].fa + (IF k = j THEN 1 ELSE 0)
    <2>1. CASE j = k
      <3>1. H[j] = more
        BY <1>5, <2>1
      <3> QED BY <1>2, <2>1, <3>1
    <2>2. CASE j # k
      <3>1. H[j] = G[j] /\ G[j] \in NodeType
        BY <1>5, <2>2
      <3>2. G[j].fa \in Nat
        BY <3>1 DEF NodeType
      <3> QED BY <2>2, <3>1, <3>2
    <2> QED BY <2>1, <2>2
  <1> QED BY <1>4, <1>6 DEF H

LEMMA NodeAppended ==
  ASSUME NEW G \in Seq(NodeType), NEW node \in NodeType
  PROVE  /\ Append(G, node) \in Seq(NodeType) /\ Len(Append(G, node)) = Len(G) + 1
         /\ Append(G, node)[Len(G) + 1] = node
         /\ \A k \in 1..Len(G) : Append(G, node)[k] = G[k]
  BY AppendProperties

\* A read or a write of node l.
LEMMA InOutAdded ==
  ASSUME NEW g, Graph(g), NEW op \in InOutOps, NEW item \in Pointer, NEW l \in 1..Len(g.G),
         NEW p \in Nat
  PROVE  LET h == [g EXCEPT !.G = AddFather(Append(@, Node(op, item, l, p)), l)]
             n == Len(g.G) + 1
         IN /\ Graph(h) /\ Len(h.G) = n /\ h.record = g.record /\ Kept(g, h)
            /\ h.G[n].op = op /\ h.G[n].item = item /\ h.G[n].lhs = l /\ h.G[n].rhs = p
  <1> DEFINE G == g.G
             node == Node(op, item, l, p)
             A == Append(G, node)
             H == AddFather(A, l)
             h == [g EXCEPT !.G = H]
             n == Len(G) + 1
  <1>1. /\ G \in Seq(NodeType) /\ Len(G) \in Nat /\ Fields(g) /\ l \in 1..Len(G)
        /\ l \in Nat
    <2>1. G \in Seq(NodeType) /\ Len(G) \in Nat /\ Fields(g)
      BY GraphFacts
    <2> QED BY <2>1
  <1>2. /\ node \in NodeType /\ node.op = op /\ node.lhs = l /\ node.rhs = p /\ node.fa = 0
        /\ node.items = <<>> /\ node.item = item
    <2>1. <<>> \in Seq(Pointer)
      OBVIOUS
    <2> QED BY <1>1, <2>1 DEF NodeType, Node, Ops, InOutOps
  <1>3. Fields(h) /\ h.G = H /\ h.record = g.record /\ h.IOBuf = g.IOBuf
    BY <1>1, NewNodes
  <1> HIDE DEF node, G, n, h
  <1>4. /\ A \in Seq(NodeType) /\ Len(A) = n /\ A[n] = node
        /\ \A k \in 1..Len(G) : A[k] = G[k]
    BY <1>1, <1>2, NodeAppended DEF n
  <1>5. l \in 1..Len(A) /\ n \in 1..Len(A) /\ l # n
    BY <1>1, <1>4 DEF n
  <1> HIDE DEF A
  <1>6. /\ H \in Seq(NodeType) /\ Len(H) = n
        /\ \A j \in 1..n :
              /\ H[j].op = A[j].op /\ H[j].lhs = A[j].lhs /\ H[j].rhs = A[j].rhs
              /\ H[j].item = A[j].item /\ H[j].items = A[j].items
              /\ H[j].fa = A[j].fa + (IF l = j THEN 1 ELSE 0)
    BY <1>4, <1>5, FatherAdded
  <1> HIDE DEF H
  <1>7. /\ H[n].op = op /\ H[n].lhs = l /\ H[n].rhs = p /\ H[n].fa = 0 /\ H[n].items = <<>>
        /\ H[n].item = item
    BY <1>2, <1>4, <1>5, <1>6
  <1>8. OperandsBelow(H[n], n) /\ Second(H[n]) = 0
    <2>1. op # "leaf" /\ op \in InOutOps
      BY DEF InOutOps
    <2>2. l \in 1..(n - 1)
      BY <1>1 DEF n
    <2> QED BY <1>7, <2>1, <2>2 DEF OperandsBelow, Leaf, Second
  <1>9. ASSUME NEW k \in 1..Len(G)
        PROVE  /\ H[k].op = G[k].op /\ H[k].lhs = G[k].lhs /\ H[k].rhs = G[k].rhs
               /\ H[k].item = G[k].item /\ H[k].items = G[k].items
               /\ H[k].fa = G[k].fa + (IF H[n].lhs = k THEN 1 ELSE 0)
                                    + (IF Second(H[n]) = k THEN 1 ELSE 0)
    <2>1. k \in 1..n /\ k # 0 /\ A[k] = G[k] /\ G[k] \in NodeType
      BY <1>1, <1>4 DEF n
    <2>2. G[k].fa \in Nat
      BY <2>1 DEF NodeType
    <2>3. H[k].fa = G[k].fa + (IF l = k THEN 1 ELSE 0)
      BY <1>6, <2>1
    <2>4. H[k].fa = G[k].fa + (IF H[n].lhs = k THEN 1 ELSE 0)
                            + (IF Second(H[n]) = k THEN 1 ELSE 0)
      BY <1>7, <1>8, <2>1, <2>2, <2>3
    <2> QED BY <1>6, <2>1, <2>4
  <1>10. OneAdded(g, h)
    BY <1>3, <1>6, <1>7, <1>8, <1>9 DEF OneAdded, n, G
  <1>11. Graph(h)
    BY <1>10, Added
  <1>12. Kept(g, h)
    BY <1>3, <1>9 DEF Kept, G
  <1> QED BY <1>3, <1>6, <1>7, <1>11, <1>12 DEF G, node, A, H, h, n

\* An operation on nodes l and r, which may be one node.
LEMMA OperationAdded ==
  ASSUME NEW g, Graph(g), NEW op \in Ops, op # "leaf", op \notin InOutOps,
         NEW item \in Pointer, NEW l \in 1..Len(g.G), NEW r \in 1..Len(g.G)
  PROVE  LET h == [g EXCEPT !.G = AddFather(AddFather(Append(@, Node(op, item, l, r)), l), r)]
             n == Len(g.G) + 1
         IN /\ Graph(h) /\ Len(h.G) = n /\ h.record = g.record /\ Kept(g, h)
            /\ h.G[n].op = op /\ h.G[n].item = item /\ h.G[n].lhs = l /\ h.G[n].rhs = r
  <1> DEFINE G == g.G
             node == Node(op, item, l, r)
             A == Append(G, node)
             B == AddFather(A, l)
             H == AddFather(B, r)
             h == [g EXCEPT !.G = H]
             n == Len(G) + 1
  <1>1. /\ G \in Seq(NodeType) /\ Len(G) \in Nat /\ Fields(g) /\ l \in 1..Len(G)
        /\ r \in 1..Len(G) /\ l \in Nat /\ r \in Nat
    <2>1. G \in Seq(NodeType) /\ Len(G) \in Nat /\ Fields(g)
      BY GraphFacts
    <2> QED BY <2>1
  <1>2. /\ node \in NodeType /\ node.op = op /\ node.lhs = l /\ node.rhs = r /\ node.fa = 0
        /\ node.items = <<>> /\ node.item = item
    <2>1. <<>> \in Seq(Pointer)
      OBVIOUS
    <2> QED BY <1>1, <2>1 DEF NodeType, Node
  <1>3. Fields(h) /\ h.G = H /\ h.record = g.record /\ h.IOBuf = g.IOBuf
    BY <1>1, NewNodes
  <1> HIDE DEF node, G, n, h
  <1>4. /\ A \in Seq(NodeType) /\ Len(A) = n /\ A[n] = node
        /\ \A k \in 1..Len(G) : A[k] = G[k]
    BY <1>1, <1>2, NodeAppended DEF n
  <1>5. /\ l \in 1..n /\ r \in 1..n /\ n \in 1..n /\ l # n /\ r # n /\ n \in Nat
        /\ l \in 1..(n - 1) /\ r \in 1..(n - 1) /\ Len(G) = n - 1
    <2> HIDE DEF A, B, H
    <2> QED BY <1>1 DEF n
  <1> HIDE DEF A
  <1>6. /\ B \in Seq(NodeType) /\ Len(B) = n
        /\ \A j \in 1..n :
              /\ B[j].op = A[j].op /\ B[j].lhs = A[j].lhs /\ B[j].rhs = A[j].rhs
              /\ B[j].item = A[j].item /\ B[j].items = A[j].items
              /\ B[j].fa = A[j].fa + (IF l = j THEN 1 ELSE 0)
    BY <1>4, <1>5, FatherAdded
  <1> HIDE DEF B
  <1>7. /\ H \in Seq(NodeType) /\ Len(H) = n
        /\ \A j \in 1..n :
              /\ H[j].op = B[j].op /\ H[j].lhs = B[j].lhs /\ H[j].rhs = B[j].rhs
              /\ H[j].item = B[j].item /\ H[j].items = B[j].items
              /\ H[j].fa = B[j].fa + (IF r = j THEN 1 ELSE 0)
    BY <1>5, <1>6, FatherAdded
  <1> HIDE DEF H
  <1>8. /\ H[n].op = op /\ H[n].lhs = l /\ H[n].rhs = r /\ H[n].fa = 0 /\ H[n].items = <<>>
        /\ H[n].item = item
    <2>1. /\ B[n].op = A[n].op /\ B[n].lhs = A[n].lhs /\ B[n].rhs = A[n].rhs
          /\ B[n].item = A[n].item /\ B[n].items = A[n].items /\ B[n].fa = A[n].fa + 0
      BY <1>5, <1>6
    <2>2. /\ H[n].op = B[n].op /\ H[n].lhs = B[n].lhs /\ H[n].rhs = B[n].rhs
          /\ H[n].item = B[n].item /\ H[n].items = B[n].items /\ H[n].fa = B[n].fa + 0
      BY <1>5, <1>7
    <2> QED BY <1>2, <1>4, <2>1, <2>2
  <1>9. OperandsBelow(H[n], n) /\ Second(H[n]) = r
    BY <1>5, <1>8 DEF OperandsBelow, Leaf, Second
  <1>10. ASSUME NEW k \in 1..Len(G)
         PROVE  /\ H[k].op = G[k].op /\ H[k].lhs = G[k].lhs /\ H[k].rhs = G[k].rhs
                /\ H[k].item = G[k].item /\ H[k].items = G[k].items
                /\ H[k].fa = G[k].fa + (IF H[n].lhs = k THEN 1 ELSE 0)
                                     + (IF Second(H[n]) = k THEN 1 ELSE 0)
    <2>1. k \in 1..n /\ A[k] = G[k]
      BY <1>4, <1>5
    <2>2. H[k].fa = G[k].fa + (IF l = k THEN 1 ELSE 0) + (IF r = k THEN 1 ELSE 0)
      <3>1. B[k].fa = G[k].fa + (IF l = k THEN 1 ELSE 0)
        BY <1>6, <2>1
      <3>2. H[k].fa = B[k].fa + (IF r = k THEN 1 ELSE 0)
        BY <1>7, <2>1
      <3> QED BY <3>1, <3>2
    <2>3. H[k].fa = G[k].fa + (IF H[n].lhs = k THEN 1 ELSE 0)
                            + (IF Second(H[n]) = k THEN 1 ELSE 0)
      BY <1>8, <1>9, <2>2
    <2> QED BY <1>6, <1>7, <2>1, <2>3
  <1>11. OneAdded(g, h)
    BY <1>3, <1>7, <1>8, <1>9, <1>10 DEF OneAdded, n, G
  <1>12. Graph(h)
    BY <1>11, Added
  <1>13. Kept(g, h)
    BY <1>3, <1>10 DEF Kept, G
  <1> QED BY <1>3, <1>7, <1>8, <1>12, <1>13 DEF G, node, A, B, H, h, n

\* A node with another list.
LEMMA Relisted ==
  ASSUME NEW node \in NodeType, NEW list \in Seq(Pointer)
  PROVE  LET new == [node EXCEPT !.items = list]
         IN /\ new \in NodeType /\ new.items = list /\ new.op = node.op /\ new.item = node.item
            /\ new.lhs = node.lhs /\ new.rhs = node.rhs /\ new.fa = node.fa
  <1> DEFINE new == [node EXCEPT !.items = list]
  <1>1. node = [op |-> node.op, item |-> node.item, items |-> node.items,
                lhs |-> node.lhs, rhs |-> node.rhs, fa |-> node.fa]
    BY DEF NodeType
  <1>2. new = [op |-> node.op, item |-> node.item, items |-> list,
               lhs |-> node.lhs, rhs |-> node.rhs, fa |-> node.fa]
    BY <1>1
  <1> HIDE DEF new
  <1>3. new \in NodeType
    BY <1>2 DEF NodeType
  <1> QED BY <1>2, <1>3 DEF new

\* setMap(v, n) leaves the graph as it is but for the lists of two nodes.
SameNodes(g, h) == Len(h.G) = Len(g.G) /\ Kept(g, h)

LEMMA MapSet ==
  ASSUME NEW g, Graph(g), NEW v \in Pointer, v.name \in Value, NEW n \in 1..Len(g.G),
         Leaf(g.G[n]) => g.G[n].item.name = v.name
  PROVE  /\ Graph(SetMap(g, v, n)) /\ SameNodes(g, SetMap(g, v, n))
         /\ Maps(g, SetMap(g, v, n), v.name, n)
  <1> DEFINE early == v.name \in DOMAIN g.record /\ g.record[v.name] = n
             G == g.G
             m == Len(G)
             R == [x \in DOMAIN g.record \cup {v.name} |-> IF x = v.name THEN n ELSE g.record[x]]
             kept(k) == IF v.name \in DOMAIN g.record /\ g.record[v.name] = k
                        THEN Without(G[k].items, v.name) ELSE G[k].items
             list(k) == IF k = n THEN Append(kept(k), v) ELSE kept(k)
             H == [k \in DOMAIN G |-> [G[k] EXCEPT !.items = list(k)]]
             h == Remapped(g, R, H)
  <1>1. CASE early
    <2>1. SetMap(g, v, n) = g
      BY <1>1 DEF SetMap
    <2> QED BY <1>1, <2>1 DEF SameNodes, Kept, Maps
  <1>2. CASE ~early
    <2>1. SetMap(g, v, n) = h
      BY <1>2 DEF SetMap, Remapped
    <2> HIDE DEF early
    <2>2. G \in Seq(NodeType) /\ m \in Nat /\ Fields(g) /\ Wired(G) /\ DOMAIN G = 1..m /\ n \in 1..m
      BY GraphFacts DEF Graph
    <2>3. /\ DOMAIN g.record \subseteq Value
          /\ \A x \in DOMAIN g.record : g.record[x] \in 1..m
      BY DEF Graph, Shaped
    <2>4. \A k \in 1..m : /\ Holds(G[k]) = Recorded(g.record, k)
                          /\ Leaf(G[k]) => Holds(G[k]) \subseteq {G[k].item.name}
      BY DEF Graph, Named
    <2>5. Fields(h) /\ h.record = R /\ h.G = H /\ h.IOBuf = g.IOBuf
      <3> HIDE DEF R, H
      <3> QED BY <2>2, NewRecord
    <2>6. /\ DOMAIN R = DOMAIN g.record \cup {v.name} /\ R[v.name] = n
          /\ \A x \in DOMAIN g.record : x # v.name => R[x] = g.record[x]
      OBVIOUS
    <2>7. Leaf(G[n]) => G[n].item.name = v.name
      OBVIOUS
    <2> HIDE DEF R, G, m, h
    <2>8. ASSUME NEW k \in 1..m
          PROVE  kept(k) \in Seq(Pointer) /\ Names(kept(k)) = Holds(G[k]) \ {v.name}
      <3>1. G[k].items \in Seq(Pointer)
        <4>1. G[k] \in NodeType
          BY <2>2
        <4> QED BY <4>1 DEF NodeType
      <3>2. CASE v.name \in DOMAIN g.record /\ g.record[v.name] = k
        <4>1. /\ Without(G[k].items, v.name) \in Seq(Pointer)
              /\ Names(Without(G[k].items, v.name)) = Names(G[k].items) \ {v.name}
          BY <3>1, WithoutIs
        <4>2. kept(k) = Without(G[k].items, v.name)
          BY <3>2
        <4> HIDE DEF kept
        <4> QED BY <4>1, <4>2 DEF Holds
      <3>3. CASE ~(v.name \in DOMAIN g.record /\ g.record[v.name] = k)
        <4>1. v.name \notin Holds(G[k])
          BY <2>4, <3>3 DEF Recorded
        <4>2. kept(k) = G[k].items
          BY <3>3
        <4> HIDE DEF kept
        <4> QED BY <3>1, <4>1, <4>2 DEF Holds
      <3> QED BY <3>2, <3>3
    <2> HIDE DEF kept
    <2>9. ASSUME NEW k \in 1..m
          PROVE  /\ list(k) \in Seq(Pointer)
                 /\ Names(list(k)) = IF k = n THEN (Holds(G[k]) \ {v.name}) \cup {v.name}
                                              ELSE Holds(G[k]) \ {v.name}
      <3>1. kept(k) \in Seq(Pointer) /\ Names(kept(k)) = Holds(G[k]) \ {v.name}
        BY <2>8
      <3>2. CASE k = n
        <4>1. list(k) = Append(kept(k), v)
          BY <3>2
        <4>2. /\ Append(kept(k), v) \in Seq(Pointer)
              /\ Names(Append(kept(k), v)) = Names(kept(k)) \cup {v.name}
          BY <3>1, NamesAppend
        <4> HIDE DEF list
        <4> QED BY <3>1, <3>2, <4>1, <4>2
      <3>3. CASE k # n
        BY <3>1, <3>3
      <3> QED BY <3>2, <3>3
    <2> HIDE DEF list
    <2>10. ASSUME NEW k \in 1..m
           PROVE  /\ H[k] \in NodeType /\ H[k].items = list(k) /\ H[k].op = G[k].op
                  /\ H[k].item = G[k].item /\ H[k].lhs = G[k].lhs /\ H[k].rhs = G[k].rhs
                  /\ H[k].fa = G[k].fa
      <3>1. G[k] \in NodeType /\ list(k) \in Seq(Pointer) /\ k \in DOMAIN G
        BY <2>2, <2>9
      <3> DEFINE new == [G[k] EXCEPT !.items = list(k)]
      <3>2. H[k] = new
        BY <3>1
      <3>3. /\ new \in NodeType /\ new.items = list(k) /\ new.op = G[k].op
            /\ new.item = G[k].item /\ new.lhs = G[k].lhs /\ new.rhs = G[k].rhs
            /\ new.fa = G[k].fa
        BY <3>1, Relisted
      <3> HIDE DEF new, H
      <3> QED BY <3>2, <3>3
    <2>11. H \in Seq(NodeType) /\ Len(H) = m
      <3>1. DOMAIN H = 1..m /\ H = [k \in 1..m |-> H[k]]
        BY <2>2
      <3> HIDE DEF H
      <3> QED BY <2>2, <2>10, <3>1
    <2> HIDE DEF H
    <2>12. Wired(H)
      <3>1. /\ Len(H) = Len(G)
            /\ \A k \in 1..Len(G) : /\ H[k].op = G[k].op /\ H[k].lhs = G[k].lhs
                                    /\ H[k].rhs = G[k].rhs /\ H[k].fa = G[k].fa
        BY <2>10, <2>11 DEF m
      <3> QED BY <2>2, <2>11, <3>1, StaysWired
    <2>13. ASSUME NEW k \in 1..m
           PROVE  /\ Holds(H[k]) = Recorded(R, k)
                  /\ Leaf(H[k]) => Holds(H[k]) \subseteq {H[k].item.name}
      <3>1. /\ Holds(H[k]) = IF k = n THEN (Holds(G[k]) \ {v.name}) \cup {v.name}
                                      ELSE Holds(G[k]) \ {v.name}
            /\ H[k].item = G[k].item /\ (Leaf(H[k]) <=> Leaf(G[k]))
        BY <2>9, <2>10 DEF Holds, Leaf
      <3>2. Recorded(R, k) = IF k = n THEN (Recorded(g.record, k) \ {v.name}) \cup {v.name}
                                      ELSE Recorded(g.record, k) \ {v.name}
        BY <2>6 DEF Recorded
      <3>3. /\ Holds(G[k]) = Recorded(g.record, k)
            /\ Leaf(G[k]) => Holds(G[k]) \subseteq {G[k].item.name}
        BY <2>4
      <3> QED BY <2>7, <3>1, <3>2, <3>3
    <2>14. Named(h)
      BY <2>5, <2>11, <2>13 DEF Named
    <2>15. /\ DOMAIN R \subseteq Value
           /\ \A x \in DOMAIN R : R[x] \in 1..m
      BY <2>2, <2>3, <2>6
    <2>16. Shaped(h)
      BY <2>5, <2>11, <2>15 DEF Shaped, Fields
    <2>17. Graph(h)
      BY <2>5, <2>12, <2>14, <2>16 DEF Graph
    <2>18. SameNodes(g, h)
      BY <2>5, <2>10, <2>11 DEF SameNodes, Kept, G, m
    <2>19. Maps(g, h, v.name, n)
      BY <2>5, <2>6 DEF Maps
    <2> QED BY <2>1, <2>17, <2>18, <2>19
  <1> QED BY <1>1, <1>2

\* An operand found and recorded.
LEMMA Used ==
  ASSUME NEW g, Graph(g), NEW v \in Pointer, v.name \in Value
  PROVE  /\ Graph(Use(g, v)) /\ Find(g, v) \in 1..Len(Use(g, v).G)
         /\ Len(g.G) <= Len(Use(g, v).G) /\ Len(g.G) \in Nat /\ Len(Use(g, v).G) \in Nat
  <1> DEFINE n == Find(g, v)
             w == WithNode(g, v)
  <1>1. Len(g.G) \in Nat
    BY GraphFacts
  <1>2. CASE v.name \in DOMAIN g.record
    <2>1. n = g.record[v.name] /\ w = g
      BY <1>2 DEF Find, WithNode
    <2>2. Use(g, v) = g
      BY <1>2, <2>1 DEF Use, SetMap
    <2>3. n \in 1..Len(g.G)
      BY <1>2, <2>1 DEF Graph, Shaped
    <2> QED BY <1>1, <2>2, <2>3
  <1>3. CASE v.name \notin DOMAIN g.record
    <2>1. n = Len(g.G) + 1 /\ w = [g EXCEPT !.G = Append(@, Node("leaf", v, 0, 0))]
      BY <1>3 DEF Find, WithNode
    <2> HIDE DEF n, w
    <2>2. Graph(w) /\ Len(w.G) = n /\ n \in 1..n /\ w.G[n] = Node("leaf", v, 0, 0)
      BY <2>1, LeafAdded
    <2>3. Leaf(w.G[n]) => w.G[n].item.name = v.name
      BY <2>2 DEF Node
    <2>4. Graph(SetMap(w, v, n)) /\ SameNodes(w, SetMap(w, v, n))
      BY <2>2, <2>3, MapSet
    <2>5. Use(g, v) = SetMap(w, v, n)
      BY DEF Use, n, w
    <2>6. Len(Use(g, v).G) = n
      BY <2>2, <2>4, <2>5 DEF SameNodes
    <2> QED BY <1>1, <2>1, <2>2, <2>4, <2>5, <2>6 DEF n
  <1> QED BY <1>2, <1>3

LEMMA FirstSame ==
  ASSUME NEW n \in Nat, NEW S \in SUBSET (1..n), S # {}
  PROVE  Min(S) \in S
  <1>1. \E x \in S : \A y \in S : x <= y
    <2>1. S \in SUBSET Nat
      OBVIOUS
    <2> QED BY <2>1, Least
  <1> QED BY <1>1 DEF Min

\* The branch of buildDAG for operations.
LEMMA OperationBuilt ==
  ASSUME NEW g, Graph(g), NEW q, NEW p \in Nat,
         q.op \in Ops, q.op # "leaf", q.op \notin InOutOps,
         q.d \in Value, q.a \in Value, q.b \in Value
  PROVE  Graph(Operation(g, q, p).graph)
  <1> DEFINE a == Ptr(q.a, p)
             b == Ptr(q.b, p)
             d == Ptr(q.d, p)
             l == Find(g, a)
             g1 == Use(g, a)
             r == Find(g1, b)
             g2 == Use(g1, b)
             same == Same(g2, q.op, l, r)
             k == FindOp(g2, q.op, l, r)
             g3 == WithOp(g2, q.op, d, l, r)
  <1>1. /\ a \in Pointer /\ b \in Pointer /\ d \in Pointer
        /\ a.name \in Value /\ b.name \in Value /\ d.name \in Value
    BY DEF Ptr, Pointer
  <1>2. Operation(g, q, p).graph = SetMap(g3, d, k)
    BY DEF Operation
  <1> HIDE DEF a, b, d
  <1>3. Graph(g1) /\ l \in 1..Len(g1.G) /\ Len(g1.G) \in Nat
    BY <1>1, Used
  <1> HIDE DEF g1, l
  <1>4. Graph(g2) /\ r \in 1..Len(g2.G) /\ Len(g1.G) <= Len(g2.G) /\ Len(g2.G) \in Nat
    BY <1>1, <1>3, Used
  <1> HIDE DEF g2, r
  <1>5. l \in 1..Len(g2.G)
    BY <1>3, <1>4
  <1>6. Graph(g3) /\ k \in 1..Len(g3.G) /\ g3.G[k].op = q.op
    <2>1. CASE same = {}
      <3>1. /\ k = Len(g2.G) + 1
            /\ g3 = [g2 EXCEPT !.G = AddFather(AddFather(Append(@, Node(q.op, d, l, r)), l), r)]
        BY <2>1 DEF FindOp, WithOp
      <3> HIDE DEF k, g3
      <3>2. Graph(g3) /\ Len(g3.G) = Len(g2.G) + 1 /\ g3.G[Len(g2.G) + 1].op = q.op
        BY <1>1, <1>4, <1>5, <3>1, OperationAdded
      <3> QED BY <1>4, <3>1, <3>2
    <2>2. CASE same # {}
      <3>1. k = Min(same) /\ g3 = g2
        BY <2>2 DEF FindOp, WithOp
      <3>2. same \in SUBSET (1..Len(g2.G)) /\ \A j \in same : g2.G[j].op = q.op
        <4>1. DOMAIN g2.G = 1..Len(g2.G)
          BY <1>4, GraphFacts
        <4> QED BY <4>1 DEF Same
      <3> HIDE DEF same, k, g3
      <3>3. k \in same
        BY <1>4, <2>2, <3>1, <3>2, FirstSame
      <3> QED BY <1>4, <3>1, <3>2, <3>3
    <2> QED BY <2>1, <2>2
  <1> HIDE DEF g3, k
  <1>7. ~Leaf(g3.G[k])
    BY <1>6 DEF Leaf
  <1>8. Graph(SetMap(g3, d, k))
    BY <1>1, <1>6, <1>7, MapSet
  <1> QED BY <1>2, <1>8

\* The branches for read and write_e.
LEMMA InOutBuilt ==
  ASSUME NEW g, Graph(g), NEW op \in InOutOps, NEW v \in Pointer, v.name \in Value,
         NEW item \in Pointer, NEW p \in Nat
  PROVE  LET h == InOut(g, op, v, item, p)
         IN Graph(h) /\ Len(h.G) \in 1..Len(h.G) /\ ~Leaf(h.G[Len(h.G)])
  <1> DEFINE k == Find(g, v)
             w == WithNode(g, v)
             h == [w EXCEPT !.G = AddFather(Append(@, Node(op, item, k, p)), k)]
  <1>1. InOut(g, op, v, item, p) = h
    BY DEF InOut
  <1>2. Graph(w) /\ k \in 1..Len(w.G)
    <2>1. CASE v.name \in DOMAIN g.record
      <3>1. k = g.record[v.name] /\ w = g
        BY <2>1 DEF Find, WithNode
      <3>2. k \in 1..Len(g.G)
        BY <2>1, <3>1 DEF Graph, Shaped
      <3> QED BY <3>1, <3>2
    <2>2. CASE v.name \notin DOMAIN g.record
      <3>1. k = Len(g.G) + 1 /\ w = [g EXCEPT !.G = Append(@, Node("leaf", v, 0, 0))]
        BY <2>2 DEF Find, WithNode
      <3> HIDE DEF k, w
      <3>2. Graph(w) /\ Len(w.G) = k /\ k \in 1..k
        BY <3>1, LeafAdded
      <3> QED BY <3>2
    <2> QED BY <2>1, <2>2
  <1> HIDE DEF k, w
  <1>3. Len(w.G) \in Nat
    BY <1>2, GraphFacts
  <1>4. Graph(h) /\ Len(h.G) = Len(w.G) + 1 /\ h.G[Len(w.G) + 1].op = op
    BY <1>2, InOutAdded
  <1> HIDE DEF h
  <1>5. Len(h.G) \in 1..Len(h.G) /\ h.G[Len(h.G)].op = op
    BY <1>3, <1>4
  <1>6. ~Leaf(h.G[Len(h.G)])
    BY <1>5 DEF Leaf, InOutOps
  <1> QED BY <1>1, <1>4, <1>5, <1>6

-------------------------------------------------------------------------------
(* The inductive invariant.                                                *)

\* The first nodes are left, each with the fathers left; the others have been
\* taken, the last node first.
Ordering ==
    LET m == Len(nodes)
    IN /\ nodes \in Seq([no : Nat, fa : Int]) /\ stack \in Seq(Nat)
       /\ m + Len(stack) = Len(graph.G)
       /\ \A k \in 1..m : nodes[k].no = k /\ nodes[k].fa = Fathers(graph.G, k, m)
       /\ \A i \in 1..Len(stack) : stack[i] = Len(graph.G) + 1 - i

IInv ==
    /\ phase \in {"build", "order", "export", "end"} /\ len \in Nat
    /\ Graph(graph)
    /\ phase = "build" => stack = <<>>
    /\ phase = "order" => Ordering
    /\ phase \in {"export", "end"} => nodes = <<>>

LEMMA InitIInv == Init => IInv
  BY EmptyGraph DEF Init, IInv

\* A quadruple is added.
LEMMA StaysBuilt ==
  ASSUME IInv, phase' = "build", stack' = stack, phase = "build",
         Graph(graph'), len' \in Nat
  PROVE  IInv'
  BY DEF IInv

LEMMA AddOperationIInv ==
  ASSUME IInv, NEW op \in Ops, op # "leaf", op \notin InOutOps,
         NEW d \in Value, NEW a \in Value, NEW b \in Value, AddOperation(op, d, a, b)
  PROVE  IInv'
  <1> DEFINE q == Quad(op, d, a, b, len + 1)
             p == len + 1
  <1>1. q.op = op /\ q.d = d /\ q.a = a /\ q.b = b
    BY DEF Quad
  <1>2. /\ phase = "build" /\ phase' = "build" /\ stack' = stack
        /\ graph' = Operation(graph, q, p).graph /\ len' = len + Len(<<q>>)
    BY DEF AddOperation, Add
  <1>3. len \in Nat /\ Graph(graph) /\ p \in Nat
    BY DEF IInv
  <1>4. len' \in Nat
    <2>1. Len(<<q>>) = 1
      OBVIOUS
    <2> QED BY <1>2, <1>3, <2>1
  <1> HIDE DEF q, p
  <1>5. Graph(Operation(graph, q, p).graph)
    BY <1>1, <1>3, OperationBuilt
  <1> QED BY <1>2, <1>4, <1>5, StaysBuilt

LEMMA OperationsIInv == ASSUME IInv, Move \/ Arithmetic \/ LoadElem \/ StoreElem PROVE IInv'
  <1>1. /\ Name \subseteq Value /\ Array \subseteq Value /\ Zero \in Value
        /\ {"=", "=[]", "[]="} \cup Op \subseteq Ops
    BY DEF Value, Ops
  <1>2. \A op \in {"=", "=[]", "[]="} \cup Op : op # "leaf" /\ op \notin InOutOps
    BY BlockAssumption DEF InOutOps
  <1>3. CASE Move
    <2>1. PICK d \in Name, a \in Name \cup {Zero} : AddOperation("=", d, a, Zero)
      BY <1>3 DEF Move
    <2> QED BY <1>1, <1>2, <2>1, AddOperationIInv
  <1>4. CASE Arithmetic
    <2>1. PICK op \in Op, d \in Name, a \in Name, b \in Name : AddOperation(op, d, a, b)
      BY <1>4 DEF Arithmetic
    <2> QED BY <1>1, <1>2, <2>1, AddOperationIInv
  <1>5. CASE LoadElem
    <2>1. PICK d \in Name, i \in Name, t \in Array : AddOperation("=[]", d, t, i)
      BY <1>5 DEF LoadElem
    <2> QED BY <1>1, <1>2, <2>1, AddOperationIInv
  <1>6. CASE StoreElem
    <2>1. PICK i \in Name, a \in Name, t \in Array : AddOperation("[]=", t, i, a)
      BY <1>6 DEF StoreElem
    <2> QED BY <1>1, <1>2, <2>1, AddOperationIInv
  <1> QED BY <1>3, <1>4, <1>5, <1>6

\* A read statement is a move and a read.
LEMMA ReadIInv == ASSUME IInv, ReadVar PROVE IInv'
  <1>1. PICK x \in Name :
          LET q1 == Quad("=", x, Zero, Zero, len + 1)
              q2 == Quad("read", x, Zero, Zero, len + 2)
              built == Operation(graph, q1, len + 1)
          IN Add(ReadNode(built.graph, Ptr(x, len + 2), len + 2), <<q1, q2>>, TRUE, built.hit)
    BY DEF ReadVar
  <1> DEFINE q == Quad("=", x, Zero, Zero, len + 1)
             q2 == Quad("read", x, Zero, Zero, len + 2)
             p == len + 1
             r == len + 2
             v == Ptr(x, r)
             g == Operation(graph, q, p).graph
             h == InOut(g, "read", v, v, r)
  <1>2. /\ phase = "build" /\ phase' = "build" /\ stack' = stack
        /\ graph' = SetMap(h, v, Len(h.G)) /\ len' = len + Len(<<q, q2>>)
    BY <1>1 DEF Add, ReadNode
  <1>3. len \in Nat /\ Graph(graph) /\ p \in Nat /\ r \in Nat
    BY DEF IInv
  <1>4. len' \in Nat
    <2>1. Len(<<q, q2>>) = 2
      OBVIOUS
    <2> QED BY <1>2, <1>3, <2>1
  <1>5. q.op = "=" /\ q.d = x /\ q.a = Zero /\ q.b = Zero /\ x \in Value /\ Zero \in Value
    BY DEF Quad, Value
  <1>6. v \in Pointer /\ v.name \in Value
    BY <1>3, <1>5 DEF Ptr, Pointer
  <1> HIDE DEF q, p, r, v
  <1>7. Graph(g)
    <2>1. "=" \in Ops /\ "=" # "leaf" /\ "=" \notin InOutOps
      BY DEF Ops, InOutOps
    <2> QED BY <1>3, <1>5, <2>1, OperationBuilt
  <1> HIDE DEF g
  <1>8. Graph(h) /\ Len(h.G) \in 1..Len(h.G) /\ ~Leaf(h.G[Len(h.G)])
    <2>1. "read" \in InOutOps
      BY DEF InOutOps
    <2> QED BY <1>3, <1>6, <1>7, <2>1, InOutBuilt
  <1> HIDE DEF h
  <1>9. Graph(SetMap(h, v, Len(h.G)))
    BY <1>6, <1>8, MapSet
  <1> QED BY <1>2, <1>4, <1>9, StaysBuilt

LEMMA WriteIInv == ASSUME IInv, Write PROVE IInv'
  <1>1. PICK x \in Name \cup {Zero} :
          Add(WriteNode(graph, Ptr(x, len + 1), len + 1),
              <<Quad("write_e", x, Zero, Zero, len + 1)>>, FALSE, FALSE)
    BY DEF Write
  <1> DEFINE q == Quad("write_e", x, Zero, Zero, len + 1)
             p == len + 1
             v == Ptr(x, p)
             item == Ptr("~write_e", p)
             h == InOut(graph, "write_e", v, item, p)
  <1>2. /\ phase = "build" /\ phase' = "build" /\ stack' = stack
        /\ graph' = h /\ len' = len + Len(<<q>>)
    BY <1>1 DEF Add, WriteNode
  <1>3. len \in Nat /\ Graph(graph) /\ p \in Nat
    BY DEF IInv
  <1>4. len' \in Nat
    <2>1. Len(<<q>>) = 1
      OBVIOUS
    <2> QED BY <1>2, <1>3, <2>1
  <1>5. v \in Pointer /\ v.name \in Value /\ item \in Pointer
    BY <1>3 DEF Ptr, Pointer, Value
  <1> HIDE DEF q, p, v, item
  <1>6. Graph(h)
    <2>1. "write_e" \in InOutOps
      BY DEF InOutOps
    <2> QED BY <1>3, <1>5, <2>1, InOutBuilt
  <1> QED BY <1>2, <1>4, <1>6, StaysBuilt

\* The strings to print are no part of the graph.
LEMMA OtherBuf ==
  ASSUME NEW g, Graph(g), NEW buf
  PROVE  LET h == [g EXCEPT !.IOBuf = buf] IN Graph(h) /\ h.G = g.G /\ h.record = g.record
  <1> DEFINE h == [g EXCEPT !.IOBuf = buf]
  <1>1. g = [G |-> g.G, record |-> g.record, IOBuf |-> g.IOBuf]
    BY DEF Graph, Shaped
  <1>2. h = [G |-> g.G, record |-> g.record, IOBuf |-> buf]
    BY <1>1
  <1> HIDE DEF h
  <1>3. h = [G |-> h.G, record |-> h.record, IOBuf |-> h.IOBuf] /\ h.G = g.G /\ h.record = g.record
    BY <1>2
  <1>4. Named(h)
    BY <1>3 DEF Graph, Named
  <1>5. Shaped(h)
    BY <1>3 DEF Graph, Shaped
  <1>6. Graph(h)
    BY <1>3, <1>4, <1>5 DEF Graph
  <1> QED BY <1>3, <1>6 DEF h

LEMMA WriteTextIInv == ASSUME IInv, WriteText PROVE IInv'
  <1> DEFINE buf == Append(graph.IOBuf, len + 1)
             q == Quad("write_s", Zero, Zero, Zero, len + 1)
             h == [graph EXCEPT !.IOBuf = buf]
  <1>1. /\ phase = "build" /\ phase' = "build" /\ stack' = stack
        /\ graph' = h /\ len' = len + Len(<<q>>)
    BY DEF WriteText, Add
  <1>2. len \in Nat /\ Graph(graph)
    BY DEF IInv
  <1>3. len' \in Nat
    <2>1. Len(<<q>>) = 1
      OBVIOUS
    <2> QED BY <1>1, <1>2, <2>1
  <1> HIDE DEF buf, q
  <1>4. Graph(h)
    BY <1>2, OtherBuf
  <1> QED BY <1>1, <1>3, <1>4, StaysBuilt

-------------------------------------------------------------------------------
(* Taking the nodes.                                                       *)

Left == [no : Nat, fa : Int]

\* lessFa() on the node at position k.
LEMMA FatherTaken ==
  ASSUME NEW t \in Seq(Left), NEW k \in 1..Len(t)
  PROVE  /\ LessFather(t, k) \in Seq(Left) /\ Len(LessFather(t, k)) = Len(t)
         /\ \A j \in 1..Len(t) :
              /\ LessFather(t, k)[j].no = t[j].no
              /\ LessFather(t, k)[j].fa = t[j].fa - (IF k = j THEN 1 ELSE 0)
  <1> DEFINE u == LessFather(t, k)
             less == [t[k] EXCEPT !.fa = @ - 1]
  <1>1. t[k] = [no |-> t[k].no, fa |-> t[k].fa] /\ t[k].no \in Nat /\ t[k].fa \in Int
    <2>1. t[k] \in Left
      OBVIOUS
    <2> QED BY <2>1 DEF Left
  <1>2. less = [no |-> t[k].no, fa |-> t[k].fa - 1]
    BY <1>1
  <1>3. u = [t EXCEPT ![k] = less]
    BY DEF LessFather
  <1> HIDE DEF u, less
  <1>4. less \in Left
    BY <1>1, <1>2 DEF Left
  <1>5. u \in Seq(Left) /\ Len(u) = Len(t)
    BY <1>3, <1>4
  <1>6. \A j \in 1..Len(t) : u[j] = IF j = k THEN less ELSE t[j]
    BY <1>3
  <1>7. ASSUME NEW j \in 1..Len(t)
        PROVE  u[j].no = t[j].no /\ u[j].fa = t[j].fa - (IF k = j THEN 1 ELSE 0)
    <2>1. CASE j = k
      BY <1>1, <1>2, <1>6, <2>1
    <2>2. CASE j # k
      <3>1. u[j] = t[j] /\ t[j] \in Left
        BY <1>6, <2>2
      <3>2. t[j].fa \in Int
        BY <3>1 DEF Left
      <3> QED BY <2>2, <3>1, <3>2
    <2> QED BY <2>1, <2>2
  <1> QED BY <1>5, <1>7 DEF u

\* The last node left takes itself from the fathers of its operands.
LEMMA FathersTaken ==
  ASSUME NEW t \in Seq(Left), NEW m \in Nat \ {0}, Len(t) = m,
         NEW node \in NodeType, OperandsBelow(node, m)
  PROVE  LET u == LessFathers(t, node)
         IN /\ u \in Seq(Left) /\ Len(u) = m
            /\ \A j \in 1..m :
                 /\ u[j].no = t[j].no
                 /\ u[j].fa = t[j].fa - (IF node.lhs = j THEN 1 ELSE 0)
                                      - (IF Second(node) = j THEN 1 ELSE 0)
  <1>1. \A j \in 1..m : t[j].fa \in Int
    <2>1. \A j \in 1..m : t[j] \in Left
      OBVIOUS
    <2> QED BY <2>1 DEF Left
  <1>2. CASE Leaf(node)
    <2>1. LessFathers(t, node) = t
      BY <1>2 DEF LessFathers
    <2>2. node.lhs = 0 /\ Second(node) = 0
      BY <1>2 DEF OperandsBelow, Second
    <2> QED BY <1>1, <2>1, <2>2
  <1>3. CASE ~Leaf(node) /\ node.op \in InOutOps
    <2> DEFINE l == node.lhs
               u == LessFather(t, l)
    <2>1. LessFathers(t, node) = u
      BY <1>3 DEF LessFathers, InOutOps
    <2>2. Second(node) = 0
      BY <1>3 DEF Second
    <2>3. l \in 1..Len(t)
      BY <1>3 DEF OperandsBelow
    <2> HIDE DEF l
    <2>4. /\ u \in Seq(Left) /\ Len(u) = Len(t)
          /\ \A j \in 1..Len(t) :
               u[j].no = t[j].no /\ u[j].fa = t[j].fa - (IF l = j THEN 1 ELSE 0)
      BY <2>3, FatherTaken
    <2> HIDE DEF u
    <2>5. ASSUME NEW j \in 1..m
          PROVE  u[j].fa = t[j].fa - (IF l = j THEN 1 ELSE 0)
                                   - (IF Second(node) = j THEN 1 ELSE 0)
      BY <1>1, <2>2, <2>4
    <2> QED BY <2>1, <2>4, <2>5 DEF l
  <1>4. CASE ~Leaf(node) /\ node.op \notin InOutOps
    <2> DEFINE l == node.lhs
               r == node.rhs
               w == LessFather(t, l)
               u == LessFather(w, r)
    <2>1. LessFathers(t, node) = u
      BY <1>4 DEF LessFathers, InOutOps
    <2>2. Second(node) = r
      BY <1>4 DEF Second
    <2>3. l \in 1..Len(t) /\ r \in 1..Len(t)
      BY <1>4 DEF OperandsBelow
    <2> HIDE DEF l, r
    <2>4. /\ w \in Seq(Left) /\ Len(w) = Len(t)
          /\ \A j \in 1..Len(t) :
               w[j].no = t[j].no /\ w[j].fa = t[j].fa - (IF l = j THEN 1 ELSE 0)
      BY <2>3, FatherTaken
    <2>5. r \in 1..Len(w)
      BY <2>3, <2>4
    <2> HIDE DEF w
    <2>6. /\ u \in Seq(Left) /\ Len(u) = Len(w)
          /\ \A j \in 1..Len(w) :
               u[j].no = w[j].no /\ u[j].fa = w[j].fa - (IF r = j THEN 1 ELSE 0)
      BY <2>4, <2>5, FatherTaken
    <2> HIDE DEF u
    <2>7. ASSUME NEW j \in 1..m
          PROVE  /\ u[j].no = t[j].no
                 /\ u[j].fa = t[j].fa - (IF l = j THEN 1 ELSE 0)
                                      - (IF Second(node) = j THEN 1 ELSE 0)
      BY <1>1, <2>2, <2>4, <2>6
    <2> QED BY <2>1, <2>4, <2>6, <2>7 DEF l
  <1> QED BY <1>2, <1>3, <1>4

\* The last node is erased.
LEMMA LastErased ==
  ASSUME NEW u \in Seq(Left), NEW m \in Nat \ {0}, Len(u) = m
  PROVE  /\ RemoveAt(u, m) \in Seq(Left) /\ Len(RemoveAt(u, m)) = m - 1
         /\ \A j \in 1..(m - 1) : RemoveAt(u, m)[j] = u[j]
  <1> DEFINE a == SubSeq(u, 1, m - 1)
             b == SubSeq(u, m + 1, m)
  <1>1. RemoveAt(u, m) = a \o b
    BY DEF RemoveAt
  <1>2. a \in Seq(Left) /\ Len(a) = m - 1 /\ \A j \in 1..(m - 1) : a[j] = u[j]
    OBVIOUS
  <1>3. b \in Seq(Left) /\ Len(b) = 0
    OBVIOUS
  <1> HIDE DEF a, b
  <1> QED BY <1>1, <1>2, <1>3

\* The last node left has no father left.
LEMMA LastReady ==
  ASSUME Graph(graph), Ordering, nodes # <<>>
  PROVE  Len(nodes) \in Ready /\ Max(Ready) = Len(nodes)
  <1> DEFINE m == Len(nodes)
             G == graph.G
  <1>1. /\ nodes \in Seq(Left) /\ m \in Nat \ {0} /\ m <= Len(G) /\ Len(G) \in Nat
        /\ \A k \in 1..m : nodes[k].fa = Fathers(G, k, m)
    BY GraphFacts DEF Ordering, Left
  <1>2. \A k \in 1..m : OperandsBelow(G[k], k)
    BY <1>1 DEF Graph, Wired
  <1> HIDE DEF m, G
  <1>3. Fathers(G, m, m) = 0
    BY <1>1, <1>2, NoFather
  <1>4. DOMAIN nodes = 1..m
    BY <1>1 DEF m
  <1>5. m \in Ready /\ Ready \in SUBSET (1..m)
    BY <1>1, <1>3, <1>4 DEF Ready
  <1>6. Max(Ready) = m
    <2>1. m \in Ready /\ \A y \in Ready : m >= y
      BY <1>1, <1>5
    <2>2. \A x \in Ready : (\A y \in Ready : x >= y) => x = m
      BY <1>1, <1>5
    <2> QED BY <2>1, <2>2 DEF Max
  <1> QED BY <1>5, <1>6 DEF m

LEMMA PickIInv == ASSUME IInv, Pick PROVE IInv'
  <1> DEFINE m == Len(nodes)
             G == graph.G
             u == LessFathers(nodes, G[m])
  <1>1. phase = "order" /\ phase' = phase /\ graph' = graph /\ len' = len /\ Ready # {}
    BY DEF Pick
  <1>2. Graph(graph) /\ Ordering /\ len \in Nat
    BY <1>1 DEF IInv
  <1>3. nodes # <<>>
    BY <1>1 DEF Ready
  <1>4. Max(Ready) = m
    BY <1>2, <1>3, LastReady
  <1>5. /\ nodes \in Seq(Left) /\ m \in Nat \ {0} /\ m <= Len(G) /\ Len(G) \in Nat
        /\ stack \in Seq(Nat) /\ m + Len(stack) = Len(G) /\ Len(stack) \in Nat
        /\ \A k \in 1..m : nodes[k].no = k /\ nodes[k].fa = Fathers(G, k, m)
        /\ \A i \in 1..Len(stack) : stack[i] = Len(G) + 1 - i
    <2>1. /\ nodes \in Seq(Left) /\ stack \in Seq(Nat) /\ m + Len(stack) = Len(G)
          /\ \A k \in 1..m : nodes[k].no = k /\ nodes[k].fa = Fathers(G, k, m)
          /\ \A i \in 1..Len(stack) : stack[i] = Len(G) + 1 - i
      BY <1>2 DEF Ordering, Left
    <2>2. m \in Nat \ {0} /\ Len(stack) \in Nat /\ Len(G) \in Nat
      <3>1. nodes \in Seq(Left) /\ stack \in Seq(Nat)
        BY <2>1
      <3>2. Len(G) \in Nat
        BY <1>2, GraphFacts
      <3> QED BY <1>3, <3>1, <3>2
    <2>3. m <= Len(G)
      <3>1. m + Len(stack) = Len(G)
        BY <2>1
      <3> HIDE DEF m, G
      <3> QED BY <2>2, <3>1
    <2> QED BY <2>1, <2>2, <2>3
  <1>6. nodes[m].no = m /\ m \in 1..Len(G) /\ Len(nodes) = m
    BY <1>5
  <1>7. stack' = Append(stack, m) /\ nodes' = RemoveAt(u, m)
    BY <1>4, <1>6 DEF Pick
  <1>8. G[m] \in NodeType /\ OperandsBelow(G[m], m)
    BY <1>2, <1>6, GraphFacts DEF Graph, Wired
  <1> HIDE DEF m, G
  <1>9. /\ u \in Seq(Left) /\ Len(u) = m
        /\ \A j \in 1..m :
             /\ u[j].no = nodes[j].no
             /\ u[j].fa = nodes[j].fa - (IF G[m].lhs = j THEN 1 ELSE 0)
                                      - (IF Second(G[m]) = j THEN 1 ELSE 0)
    BY <1>5, <1>6, <1>8, FathersTaken
  <1> HIDE DEF u
  <1>10. /\ nodes' \in Seq(Left) /\ Len(nodes') = m - 1
         /\ \A j \in 1..(m - 1) : nodes'[j] = u[j]
    <2>1. m \in Nat \ {0} /\ u \in Seq(Left) /\ Len(u) = m /\ nodes' = RemoveAt(u, m)
      BY <1>5, <1>7, <1>9
    <2> QED BY <2>1, LastErased
  <1>11. ASSUME NEW k \in 1..(m - 1)
         PROVE  nodes'[k].no = k /\ nodes'[k].fa = Fathers(G, k, m - 1)
    <2>1. k \in 1..m /\ m - 1 \in Nat /\ m = (m - 1) + 1
      BY <1>5
    <2>2. Fathers(G, k, m - 1) \in Nat
      BY <2>1, FathersGrow
    <2>3. Fathers(G, k, m) =
               Fathers(G, k, m - 1) + (IF G[m].lhs = k THEN 1 ELSE 0)
                                    + (IF Second(G[m]) = k THEN 1 ELSE 0)
      BY <2>1, FathersGrow
    <2>4. u[k].no = k /\ u[k].fa = Fathers(G, k, m) - (IF G[m].lhs = k THEN 1 ELSE 0)
                                                    - (IF Second(G[m]) = k THEN 1 ELSE 0)
      <3>1. nodes[k].no = k /\ nodes[k].fa = Fathers(G, k, m)
        BY <1>5, <2>1
      <3>2. /\ u[k].no = nodes[k].no
            /\ u[k].fa = nodes[k].fa - (IF G[m].lhs = k THEN 1 ELSE 0)
                                     - (IF Second(G[m]) = k THEN 1 ELSE 0)
        BY <1>9, <2>1
      <3> QED BY <3>1, <3>2
    <2>5. u[k].fa = Fathers(G, k, m - 1)
      BY <2>2, <2>3, <2>4
    <2> QED BY <1>10, <2>4, <2>5
  <1>12. /\ stack' \in Seq(Nat) /\ Len(stack') = Len(stack) + 1
         /\ \A i \in 1..Len(stack') : stack'[i] = Len(G) + 1 - i
    <2>1. /\ Append(stack, m) \in Seq(Nat) /\ Len(Append(stack, m)) = Len(stack) + 1
          /\ Append(stack, m)[Len(stack) + 1] = m
          /\ \A i \in 1..Len(stack) : Append(stack, m)[i] = stack[i]
      BY <1>5, AppendProperties
    <2>2. m = Len(G) + 1 - (Len(stack) + 1)
      <3>1. m \in Nat /\ Len(stack) \in Nat /\ Len(G) \in Nat /\ m + Len(stack) = Len(G)
        BY <1>5
      <3> QED BY <3>1
    <2> QED BY <1>5, <1>7, <2>1, <2>2
  <1>13. graph'.G = G
    BY <1>1 DEF G
  <1>14. (m - 1) + (Len(stack) + 1) = Len(G)
    <2>1. m \in Nat /\ Len(stack) \in Nat /\ Len(G) \in Nat /\ m + Len(stack) = Len(G)
      BY <1>5
    <2> QED BY <2>1
  <1>15. Ordering'
    BY <1>10, <1>11, <1>12, <1>13, <1>14 DEF Ordering, Left
  <1> QED BY <1>1, <1>2, <1>15 DEF IInv

\* The block is complete: all nodes are left and no string of them is taken.
LEMMA EndBuildIInv == ASSUME IInv, EndBuild PROVE IInv'
  <1> DEFINE G == graph.G
             m == Len(G)
             t == [k \in DOMAIN G |-> [no |-> k, fa |-> G[k].fa]]
  <1>1. /\ phase = "build" /\ phase' = "order" /\ graph' = graph /\ len' = len
        /\ stack' = stack /\ nodes' = t
    BY DEF EndBuild
  <1>2. Graph(graph) /\ len \in Nat /\ stack = <<>>
    BY <1>1 DEF IInv
  <1>3. G \in Seq(NodeType) /\ m \in Nat /\ DOMAIN G = 1..m
    BY <1>2, GraphFacts
  <1>4. \A k \in 1..m : G[k].fa = Fathers(G, k, m)
    BY <1>2 DEF Graph, Wired
  <1> HIDE DEF m
  <1>5. \A k \in 1..m : G[k].fa \in Nat
    <2>1. \A k \in 1..m : G[k] \in NodeType
      BY <1>3 DEF m
    <2> QED BY <2>1 DEF NodeType
  <1>6. /\ t = [k \in 1..m |-> [no |-> k, fa |-> G[k].fa]]
        /\ \A k \in 1..m : [no |-> k, fa |-> G[k].fa] \in Left
    BY <1>3, <1>5 DEF Left
  <1> HIDE DEF t, G
  <1>7. t \in Seq(Left) /\ Len(t) = m
    BY <1>3, <1>6
  <1>8. \A k \in 1..m : t[k].no = k /\ t[k].fa = Fathers(G, k, m)
    BY <1>4, <1>6
  <1>9. /\ stack' \in Seq(Nat) /\ Len(stack') = 0 /\ m + 0 = m
    BY <1>1, <1>2, <1>3
  <1>10. Ordering'
    <2>1. graph'.G = G /\ Len(G) = m
      BY <1>1 DEF G, m
    <2> QED BY <1>1, <1>7, <1>8, <1>9, <2>1 DEF Ordering, Left
  <1> QED BY <1>1, <1>2, <1>10 DEF IInv

LEMMA EndOrderIInv == ASSUME IInv, EndOrder PROVE IInv'
  <1>1. phase = "order" /\ Ready = {} /\ phase' = "export"
        /\ graph' = graph /\ len' = len /\ nodes' = nodes
    BY DEF EndOrder
  <1>2. Graph(graph) /\ Ordering /\ len \in Nat
    BY <1>1 DEF IInv
  <1>3. nodes = <<>>
    BY <1>1, <1>2, LastReady
  <1> QED BY <1>1, <1>2, <1>3 DEF IInv

\* Exporting reads the graph and only takes strings from its buffer.
LEMMA ExportIInv == ASSUME IInv, Export PROVE IInv'
  <1> DEFINE node == graph.G[Last(stack)]
             buf == NotDue(node.rhs)
             h == [graph EXCEPT !.IOBuf = buf]
  <1>1. phase = "export" /\ phase' = phase /\ len' = len /\ nodes' = nodes
        /\ graph' = IF node.op \in {"read", "write_e"} THEN h ELSE graph
    BY DEF Export
  <1>2. Graph(graph) /\ len \in Nat /\ nodes = <<>>
    BY <1>1 DEF IInv
  <1> HIDE DEF buf, node
  <1>3. Graph(h)
    BY <1>2, OtherBuf
  <1> HIDE DEF h
  <1>4. Graph(graph')
    BY <1>1, <1>2, <1>3
  <1> QED BY <1>1, <1>2, <1>4 DEF IInv

LEMMA EndExportIInv == ASSUME IInv, EndExport PROVE IInv'
  <1> DEFINE h == [graph EXCEPT !.IOBuf = <<>>]
  <1>1. phase = "export" /\ phase' = "end" /\ len' = len /\ nodes' = nodes /\ graph' = h
    BY DEF EndExport
  <1>2. Graph(graph) /\ len \in Nat /\ nodes = <<>>
    BY <1>1 DEF IInv
  <1>3. Graph(h)
    BY <1>2, OtherBuf
  <1> HIDE DEF h
  <1> QED BY <1>1, <1>2, <1>3 DEF IInv

LEMMA NextBlockIInv == ASSUME IInv, NextBlock PROVE IInv'
  <1>1. phase' = "build" /\ graph' = Empty /\ len' = 0 /\ nodes' = <<>> /\ stack' = <<>>
    BY DEF NextBlock
  <1> QED BY <1>1, EmptyGraph DEF IInv

LEMMA StutterIInv == ASSUME IInv, UNCHANGED vars PROVE IInv'
  <1>1. /\ phase' = phase /\ graph' = graph /\ len' = len /\ nodes' = nodes /\ stack' = stack
    BY DEF vars
  <1>2. Ordering => Ordering'
    BY <1>1 DEF Ordering
  <1> QED BY <1>1, <1>2 DEF IInv

LEMMA NextIInv == IInv /\ [Next]_vars => IInv'
  <1> SUFFICES ASSUME IInv, [Next]_vars PROVE IInv'
    OBVIOUS
  <1>1. CASE Move \/ Arithmetic \/ LoadElem \/ StoreElem BY <1>1, OperationsIInv
  <1>2. CASE ReadVar BY <1>2, ReadIInv
  <1>3. CASE Write BY <1>3, WriteIInv
  <1>4. CASE WriteText BY <1>4, WriteTextIInv
  <1>5. CASE EndBuild BY <1>5, EndBuildIInv
  <1>6. CASE Pick BY <1>6, PickIInv
  <1>7. CASE EndOrder BY <1>7, EndOrderIInv
  <1>8. CASE Export BY <1>8, ExportIInv
  <1>9. CASE EndExport BY <1>9, EndExportIInv
  <1>10. CASE NextBlock BY <1>10, NextBlockIInv
  <1>11. CASE UNCHANGED vars BY <1>11, StutterIInv
  <1> QED BY <1>1, <1>2, <1>3, <1>4, <1>5, <1>6, <1>7, <1>8, <1>9, <1>10, <1>11 DEF Next

\* Whatever the block, operands come before the nodes they are operands of, the
\* fathers are counted right while the nodes are taken, and a name is recorded
\* for the one node in whose list it is.
THEOREM DagInvariant == Spec => []IInv
  <1>1. Init => IInv BY InitIInv
  <1>2. IInv /\ [Next]_vars => IInv' BY NextIInv
  <1> QED BY <1>1, <1>2, PTL DEF Spec

-------------------------------------------------------------------------------
(* What follows from it.                                                   *)

\* setMap keeps a name in the list of the one node record has for it.
THEOREM NamesInOneNode == Spec => []OneNodePerName
  <1>1. IInv => OneNodePerName
    <2> SUFFICES ASSUME IInv, NEW x \in DOMAIN graph.record, NEW k \in DOMAIN graph.G
                 PROVE  (k = graph.record[x]) <=>
                          (\E i \in DOMAIN graph.G[k].items : graph.G[k].items[i].name = x)
      BY DEF OneNodePerName
    <2>1. Graph(graph)
      BY DEF IInv
    <2>2. k \in 1..Len(graph.G) /\ graph.G[k] \in NodeType
      BY <2>1, GraphFacts
    <2>3. graph.G[k].items \in Seq(Pointer)
      BY <2>2 DEF NodeType
    <2>4. x \in Holds(graph.G[k]) <=> graph.record[x] = k
      BY <2>1, <2>2 DEF Graph, Named, Recorded
    <2>5. DOMAIN graph.G[k].items = 1..Len(graph.G[k].items)
      BY <2>3
    <2> QED BY <2>4, <2>5 DEF Holds, Names
  <1>2. Spec => []IInv
    BY DagInvariant
  <1> QED BY <1>1, <1>2, PTL

\* solveDAG() takes the nodes from the last to the first, of every graph
\* buildDAG() builds: it never finds a circle and drops no node.
THEOREM TakenInOrder == Spec => []CreationOrder
  <1>1. IInv => CreationOrder
    <2> SUFFICES ASSUME IInv PROVE CreationOrder
      OBVIOUS
    <2>1. ASSUME phase = "order"
          PROVE  /\ \A k \in DOMAIN nodes : nodes[k].no = k
                 /\ nodes # <<>> => Ready # {}
                 /\ \A i \in DOMAIN stack : stack[i] = Len(graph.G) + 1 - i
                 /\ Len(nodes) + Len(stack) = Len(graph.G)
      <3>1. Ordering /\ Graph(graph)
        BY <2>1 DEF IInv
      <3>2. DOMAIN nodes = 1..Len(nodes) /\ DOMAIN stack = 1..Len(stack)
        BY <3>1 DEF Ordering
      <3>3. nodes # <<>> => Ready # {}
        BY <3>1, LastReady
      <3> QED BY <3>1, <3>2, <3>3 DEF Ordering
    <2>2. phase \in {"export", "end"} => nodes = <<>>
      BY DEF IInv
    <2> QED BY <2>1, <2>2 DEF CreationOrder
  <1>2. Spec => []IInv
    BY DagInvariant
  <1> QED BY <1>1, <1>2, PTL

\* A leaf that still stands for a name stands for its own: releaseLeaf() has
\* nothing to save.
THEOREM LeavesNeedNoRelease == Spec => []ReleaseLeafIdle
  <1>1. IInv => ReleaseLeafIdle
    <2> SUFFICES ASSUME IInv, NEW k \in DOMAIN graph.G,
                        Leaf(graph.G[k]), graph.G[k].items # <<>>
                 PROVE  RecordOf(graph.G[k].item.name) = k
      BY DEF ReleaseLeafIdle
    <2> DEFINE node == graph.G[k]
    <2>1. Graph(graph)
      BY DEF IInv
    <2>2. k \in 1..Len(graph.G) /\ node \in NodeType
      BY <2>1, GraphFacts
    <2>3. node.items \in Seq(Pointer) /\ node.items # <<>>
      BY <2>2 DEF NodeType
    <2>4. /\ Holds(node) = Recorded(graph.record, k)
          /\ Holds(node) \subseteq {node.item.name}
      BY <2>1, <2>2 DEF Graph, Named
    <2> HIDE DEF node
    <2>5. node.items[1].name \in Holds(node)
      <3>1. 1 \in 1..Len(node.items)
        BY <2>3
      <3> QED BY <3>1 DEF Holds, Names
    <2>6. node.item.name \in Recorded(graph.record, k)
      BY <2>4, <2>5
    <2>7. RecordOf(node.item.name) = k
      BY <2>6 DEF Recorded, RecordOf
    <2> QED BY <2>7 DEF node
  <1>2. Spec => []IInv
    BY DagInvariant
  <1> QED BY <1>1, <1>2, PTL
===============================================================================
