---------------------------- MODULE RegAllocProofs ----------------------------
(***************************************************************************)
(* Proofs about the register allocator and the quadruples translated with  *)
(* it, for any variables, temporaries, frames and blocks.                  *)
(***************************************************************************)
EXTENDS RegAlloc, SequenceTheorems, TLAPS

\* No two variables share a cell: no procedure has two reference parameters
\* that were given one variable, nor uses one beside the variable itself.
NoAliases == \A v, w \in Var : Place[v] = Place[w] => v = w

Memory == UNION {[D -> Contents] : D \in SUBSET Nat}
Machine == [rec   : [Reg -> Name \cup {Free}],
            slot  : [Name -> Nat],
            dist  : Nat,
            cpu   : [Reg -> Contents],
            mem   : Memory,
            esp   : Nat,
            right : BOOLEAN]

AllFree(s) == \A r \in Reg : s.rec[r] = Free

\* The temporaries whose cell must be kept: those of L, still to be read, and
\* those a register may yet be spilled for.
Active(s, L, t) == t \in L \/ Cached(s, t)

\* What the allocator maintains within a quadruple and between two of them.
OneRegister(s) == \A q, r \in Reg : s.rec[q] = s.rec[r] /\ s.rec[q] # Free => q = r
Cells(s, L) ==
    \A t \in Temp : Active(s, L, t) /\ s.slot[t] # 0 =>
        /\ s.slot[t] \in Locals+1..s.dist /\ s.slot[t] \in DOMAIN s.mem
        /\ \A u \in Temp : Active(s, L, u) /\ s.slot[u] = s.slot[t] => u = t
Good(s, L) ==
    /\ s \in Machine
    /\ s.esp = s.dist /\ Locals <= s.dist
    /\ 1..Locals \subseteq DOMAIN s.mem
    /\ OneRegister(s)
    /\ \A v \in Var : s.slot[v] = Place[v]
    /\ Cells(s, L)

\* Where locate() sends an instruction for a name of K, its value is.
Values(s, K) ==
    \A n \in K :
        /\ \A r \in Reg : s.rec[r] = n => s.cpu[r] = Tok(n)
        /\ ~Cached(s, n) => s.slot[n] # 0 /\ s.mem[s.slot[n]] = Tok(n)
VarMem(s, V) == \A v \in V : s.mem[Place[v]] = Place[v]

-------------------------------------------------------------------------------
(* Constants.                                                              *)

\* The kinds of names are apart.
LEMMA NameFacts ==
  /\ \A v \in Var : v \notin Temp /\ v # Imm /\ v # Free /\ Place[v] \in 1..Locals /\ Tok(v) = Place[v]
  /\ \A t \in Temp : t \notin Var /\ t # Imm /\ t # Free /\ t \notin 1..Locals /\ Tok(t) = t
  /\ Imm # Free /\ Imm # Junk /\ Free # Junk /\ Imm \notin 1..Locals /\ Junk \notin 1..Locals
  /\ Free \notin Name /\ Imm \notin Name /\ Tok(Imm) = Imm
  /\ Locals \in Nat
  BY PlaceAssumption, NamesAssumption DEF Name, Tok

LEMMA TokFacts ==
  /\ \A n \in Name : Tok(n) \in Contents
  /\ Junk \in Contents /\ Imm \in Contents
  /\ NoAliases => \A n, k \in Name : Tok(n) = Tok(k) => n = k
  BY NameFacts DEF Name, Contents, NoAliases

-------------------------------------------------------------------------------
(* The memory and the register map.                                        *)

LEMMA MemoryFacts ==
  ASSUME NEW f \in Memory
  PROVE  /\ DOMAIN f \subseteq Nat /\ f \in [DOMAIN f -> Contents]
         /\ \A c \in DOMAIN f : f[c] \in Contents
  BY DEF Memory

LEMMA PutFacts ==
  ASSUME NEW f \in Memory, NEW c \in Nat, NEW v \in Contents
  PROVE  /\ Put(f, c, v) \in Memory
         /\ DOMAIN Put(f, c, v) = DOMAIN f \cup {c}
         /\ Put(f, c, v)[c] = v
         /\ \A x \in DOMAIN f : x # c => Put(f, c, v)[x] = f[x]
  <1>1. DOMAIN f \cup {c} \in SUBSET Nat
    BY MemoryFacts
  <1>2. Put(f, c, v) \in [DOMAIN f \cup {c} -> Contents]
    BY MemoryFacts DEF Put
  <1> QED BY <1>1, <1>2 DEF Memory, Put

LEMMA WhereIs ==
  ASSUME NEW s, NEW n, Cached(s, n)
  PROVE  Where(s, n) \in Reg /\ s.rec[Where(s, n)] = n
  <1>1. \E r \in Reg : s.rec[r] = n
    BY DEF Cached
  <1>2. /\ (CHOOSE r \in Reg : s.rec[r] = n) \in Reg
        /\ s.rec[CHOOSE r \in Reg : s.rec[r] = n] = n
    BY <1>1
  <1> QED BY <1>2 DEF Where

\* exist() finds the register that holds a name.
LEMMA Found ==
  ASSUME NEW s, OneRegister(s), NEW r \in Reg, s.rec[r] # Free
  PROVE  Cached(s, s.rec[r]) /\ Where(s, s.rec[r]) = r
  <1>1. Cached(s, s.rec[r])
    BY DEF Cached
  <1> QED BY <1>1, WhereIs DEF OneRegister

LEMMA ReleaseIs ==
  ASSUME NEW s \in Machine, NEW r \in Reg
  PROVE  /\ Release(s, r) \in Machine
         /\ Release(s, r).rec = [s.rec EXCEPT ![r] = Free]
         /\ Release(s, r).slot = s.slot /\ Release(s, r).dist = s.dist
         /\ Release(s, r).cpu = s.cpu /\ Release(s, r).mem = s.mem
         /\ Release(s, r).esp = s.esp /\ Release(s, r).right = s.right
  BY DEF Release, Machine

\* The cell store() writes a name to: its own, or a new one at the top of the
\* stack.
Cell(s, n) == IF s.slot[n] = 0 THEN s.dist + 1 ELSE s.slot[n]

\* Register r of s has been stored in u.
Stored(s, u, r) ==
    /\ u \in Machine
    /\ u.rec = [s.rec EXCEPT ![r] = Free]
    /\ u.slot = [s.slot EXCEPT ![s.rec[r]] = Cell(s, s.rec[r])]
    /\ u.dist = IF s.slot[s.rec[r]] = 0 THEN s.dist + 1 ELSE s.dist
    /\ u.cpu = s.cpu
    /\ u.mem = Put(s.mem, Cell(s, s.rec[r]), s.cpu[r])
    /\ u.esp = u.dist
    /\ u.right = s.right

\* Nothing wrong has been read on the way from s to u.
StaysRight(s, u) == s.right => u.right

LEMMA StaysRightTrans ==
  ASSUME NEW s, NEW t, NEW u, StaysRight(s, t), StaysRight(t, u)
  PROVE  StaysRight(s, u)
  BY DEF StaysRight

LEMMA ReleaseSame ==
  ASSUME NEW s \in Machine, NEW r \in Reg
  PROVE  StaysRight(s, Release(s, r))
  BY DEF Release, Machine, StaysRight

LEMMA StoreIs ==
  ASSUME NEW s \in Machine, OneRegister(s), s.esp = s.dist, NEW r \in Reg, s.rec[r] # Free
  PROVE  Stored(s, Store(s, s.rec[r]), r)
  <1> DEFINE n == s.rec[r]
             c == Cell(s, n)
             new == Put(s.mem, c, s.cpu[r])
             u == Store(s, n)
  <1>1. /\ n \in Name /\ Cached(s, n) /\ Where(s, n) = r
        /\ s.cpu[r] \in Contents /\ c \in Nat /\ s.mem \in Memory
    BY Found DEF Machine, Cell
  <1>2. new \in Memory
    BY <1>1, PutFacts
  <1> SUFFICES /\ u \in Machine
               /\ u.rec = [s.rec EXCEPT ![r] = Free]
               /\ u.slot = [s.slot EXCEPT ![n] = c]
               /\ u.dist = IF s.slot[n] = 0 THEN s.dist + 1 ELSE s.dist
               /\ u.cpu = s.cpu
               /\ u.mem = new
               /\ u.esp = u.dist
               /\ u.right = s.right
    BY DEF Stored
  <1> HIDE DEF n
  <1>3. CASE s.slot[n] = 0
    <2> DEFINE u1 == [s EXCEPT !.dist = @ + 1]
               u2 == [u1 EXCEPT !.slot[n] = s.dist + 1]
               u3 == [u2 EXCEPT !.esp = s.esp + 1]
               u4 == [u3 EXCEPT !.mem = Put(s.mem, s.esp + 1, s.cpu[r])]
    <2>1. u1 \in Machine /\ u1.dist = s.dist + 1 /\ u1.esp = s.esp /\ u1.slot = s.slot
          /\ u1.rec = s.rec /\ u1.cpu = s.cpu /\ u1.right = s.right /\ u1.mem = s.mem
      BY DEF Machine
    <2> HIDE DEF u1
    <2>2. u2 \in Machine /\ u2.dist = u1.dist /\ u2.esp = u1.esp
          /\ u2.slot = [u1.slot EXCEPT ![n] = s.dist + 1]
          /\ u2.rec = u1.rec /\ u2.cpu = u1.cpu /\ u2.right = u1.right /\ u2.mem = u1.mem
      BY <1>1, <2>1 DEF Machine
    <2> HIDE DEF u2
    <2>3. u3 \in Machine /\ u3.dist = u2.dist /\ u3.esp = s.esp + 1 /\ u3.slot = u2.slot
          /\ u3.rec = u2.rec /\ u3.cpu = u2.cpu /\ u3.right = u2.right /\ u3.mem = u2.mem
      BY <2>2 DEF Machine
    <2> HIDE DEF u3
    <2>4. Put(s.mem, s.esp + 1, s.cpu[r]) = new /\ c = s.dist + 1
      BY <1>3 DEF Cell
    <2> HIDE DEF new, c
    <2>5. u4 \in Machine /\ u4.dist = u3.dist /\ u4.esp = u3.esp /\ u4.slot = u3.slot
          /\ u4.rec = u3.rec /\ u4.cpu = u3.cpu /\ u4.right = u3.right /\ u4.mem = new
      BY <1>2, <2>3, <2>4 DEF Machine
    <2>6. u = Release(u4, r)
      BY <1>1, <1>3 DEF Store, u1, u2, u3
    <2> HIDE DEF u4, u
    <2>7. u4.rec = s.rec /\ u4.cpu = s.cpu
      BY <2>1, <2>2, <2>3, <2>5
    <2>8. u4.right = s.right
      BY <2>1, <2>2, <2>3, <2>5
    <2>9. /\ u \in Machine /\ u.rec = [s.rec EXCEPT ![r] = Free] /\ u.slot = u4.slot
          /\ u.dist = u4.dist /\ u.cpu = s.cpu /\ u.mem = new /\ u.esp = u4.esp
      BY <2>5, <2>6, <2>7, ReleaseIs
    <2>10. u.right = s.right
      BY <2>5, <2>6, <2>8, ReleaseIs
    <2>11. u4.slot = [s.slot EXCEPT ![n] = c] /\ u4.dist = s.dist + 1 /\ u4.esp = s.dist + 1
      BY <2>1, <2>2, <2>3, <2>4, <2>5
    <2> QED BY <1>3, <2>9, <2>10, <2>11
  <1>4. CASE s.slot[n] # 0
    <2> DEFINE u4 == [s EXCEPT !.mem = Put(@, s.slot[n], s.cpu[r])]
    <2>1. Put(s.mem, s.slot[n], s.cpu[r]) = new /\ c = s.slot[n]
      BY <1>4 DEF Cell
    <2> HIDE DEF new, c
    <2>2. u4 \in Machine /\ u4.dist = s.dist /\ u4.esp = s.esp /\ u4.slot = s.slot
          /\ u4.rec = s.rec /\ u4.cpu = s.cpu /\ u4.right = s.right /\ u4.mem = new
      BY <1>2, <2>1 DEF Machine
    <2>3. u = Release(u4, r)
      BY <1>1, <1>4 DEF Store
    <2> HIDE DEF u4, u
    <2>4. s.slot = [s.slot EXCEPT ![n] = c]
      BY <2>1 DEF Machine
    <2>5. /\ u \in Machine /\ u.rec = [s.rec EXCEPT ![r] = Free] /\ u.slot = s.slot
          /\ u.dist = s.dist /\ u.cpu = s.cpu /\ u.mem = new /\ u.esp = s.esp
      BY <2>2, <2>3, ReleaseIs
    <2>6. u.right = s.right
      BY <2>2, <2>3, ReleaseIs
    <2> QED BY <1>4, <2>4, <2>5, <2>6
  <1> QED BY <1>3, <1>4

-------------------------------------------------------------------------------
(* spill() of a register.                                                  *)

LEMMA SpillIs ==
  ASSUME NEW s \in Machine, OneRegister(s), s.esp = s.dist, NEW r \in Reg, s.rec[r] # Free
  PROVE  Stored(s, Spill(s, r), r)
  <1> DEFINE w == Store(s, s.rec[r])
             u == Spill(s, r)
  <1>1. Stored(s, w, r)
    BY StoreIs
  <1>2. u = Release(w, r)
    BY DEF Spill
  <1> HIDE DEF w, u
  <1>3. w \in Machine /\ w.rec = [s.rec EXCEPT ![r] = Free]
    BY <1>1 DEF Stored
  <1>4. [w.rec EXCEPT ![r] = Free] = w.rec
    BY <1>3 DEF Machine
  <1>5. /\ u \in Machine /\ u.rec = w.rec /\ u.slot = w.slot /\ u.dist = w.dist
        /\ u.cpu = w.cpu /\ u.mem = w.mem /\ u.esp = w.esp
    BY <1>2, <1>3, <1>4, ReleaseIs
  <1>6. u.right = w.right
    BY <1>2, <1>3, ReleaseIs
  <1> QED BY <1>1, <1>5, <1>6 DEF Stored, u

\* Where a register is spilled to.
LEMMA SpillCell ==
  ASSUME NEW s, NEW L, L \subseteq Temp, Good(s, L), NEW r \in Reg, s.rec[r] # Free,
         NEW n, n = s.rec[r], NEW c, c = Cell(s, n)
  PROVE  /\ n \in Name /\ c \in Nat /\ s.dist \in Nat
         /\ n \in Var => c = Place[n] /\ c \in 1..Locals /\ s.slot[n] # 0
         /\ n \in Temp => /\ c > Locals
                          /\ c <= IF s.slot[n] = 0 THEN s.dist + 1 ELSE s.dist
                          /\ \A t \in Temp : Active(s, L, t) /\ s.slot[t] = c => t = n
  <1>1. n \in Name /\ s.dist \in Nat /\ c \in Nat /\ Cached(s, n)
    BY Found, NameFacts DEF Good, Machine, Cell
  <1>2. CASE n \in Var
    BY <1>1, <1>2, NameFacts DEF Good, Cell
  <1>3. CASE n \in Temp
    <2>1. Active(s, L, n) /\ Locals <= s.dist /\ Cells(s, L) /\ n \notin Var /\ Locals \in Nat
      BY <1>1, <1>3, NameFacts DEF Active, Good
    <2>2. CASE s.slot[n] = 0
      <3>1. \A t \in Temp : Active(s, L, t) /\ s.slot[t] # 0 => s.slot[t] <= s.dist
        BY <1>1, <2>1 DEF Cells
      <3> QED BY <1>1, <2>1, <2>2, <3>1 DEF Cell
    <2>3. CASE s.slot[n] # 0
      BY <1>1, <1>3, <2>1, <2>3 DEF Cells, Cell
    <2> QED BY <2>2, <2>3
  <1> QED BY <1>1, <1>2, <1>3 DEF Name

LEMMA SpillGood ==
  ASSUME NEW s, NEW L, L \subseteq Temp, Good(s, L), NEW r \in Reg, NEW u, u = Spill(s, r)
  PROVE  /\ Good(u, L)
         /\ u.rec = [s.rec EXCEPT ![r] = Free]
         /\ u.cpu = s.cpu
         /\ StaysRight(s, u)
         /\ \A n \in Name : n # s.rec[r] => u.slot[n] = s.slot[n]
  <1>1. CASE s.rec[r] = Free
    <2>1. u = s
      BY <1>1 DEF Spill
    <2>2. s.rec = [s.rec EXCEPT ![r] = Free]
      BY <1>1 DEF Good, Machine
    <2> QED BY <2>1, <2>2 DEF StaysRight
  <1>2. CASE s.rec[r] # Free
    <2> DEFINE n == s.rec[r]
               c == Cell(s, n)
    <2>1. Stored(s, u, r)
      BY <1>2, SpillIs DEF Good
    <2>2. /\ u \in Machine
          /\ u.rec = [s.rec EXCEPT ![r] = Free]
          /\ u.slot = [s.slot EXCEPT ![n] = c]
          /\ u.dist = IF s.slot[n] = 0 THEN s.dist + 1 ELSE s.dist
          /\ u.mem = Put(s.mem, c, s.cpu[r])
      BY <2>1 DEF Stored
    <2>3. /\ n \in Name /\ c \in Nat /\ s.dist \in Nat
          /\ n \in Var => c = Place[n] /\ c \in 1..Locals /\ s.slot[n] # 0
          /\ n \in Temp => /\ c > Locals
                           /\ c <= IF s.slot[n] = 0 THEN s.dist + 1 ELSE s.dist
                           /\ \A t \in Temp : Active(s, L, t) /\ s.slot[t] = c => t = n
      BY <1>2, SpillCell
    <2>4. s \in Machine /\ Locals <= s.dist /\ Locals \in Nat /\ 1..Locals \subseteq DOMAIN s.mem
          /\ OneRegister(s) /\ \A v \in Var : s.slot[v] = Place[v]
      BY NameFacts DEF Good
    <2>5. s.mem \in Memory /\ s.cpu[r] \in Contents
      BY <2>4 DEF Machine
    <2> HIDE DEF n, c
    <2>6. DOMAIN u.mem = DOMAIN s.mem \cup {c}
      BY <2>2 DEF Put
    <2>7. \A k \in Name : u.slot[k] = IF k = n THEN c ELSE s.slot[k]
      BY <2>2, <2>3, <2>4 DEF Machine
    <2>8. \A q \in Reg : u.rec[q] = IF q = r THEN Free ELSE s.rec[q]
      BY <2>2, <2>4 DEF Machine
    <2>9. \A t \in Temp : Active(u, L, t) => Active(s, L, t)
      BY <2>8, NameFacts DEF Active, Cached
    <2>10. OneRegister(u)
      BY <2>4, <2>8 DEF OneRegister
    <2>11. \A v \in Var : u.slot[v] = Place[v]
      BY <2>3, <2>4, <2>7 DEF Name
    <2>12. s.dist <= u.dist /\ u.dist \in Nat /\ (n \in Temp => c <= u.dist)
      BY <2>2, <2>3
    <2>13. Cells(u, L)
      <3> SUFFICES ASSUME NEW t \in Temp, Active(u, L, t), u.slot[t] # 0
                   PROVE  /\ u.slot[t] \in Locals+1..u.dist /\ u.slot[t] \in DOMAIN u.mem
                          /\ \A k \in Temp : Active(u, L, k) /\ u.slot[k] = u.slot[t] => k = t
        BY DEF Cells
      <3>1. t \in Name /\ t \notin Var /\ Active(s, L, t) /\ Temp \subseteq Name
        BY <2>9, NameFacts DEF Name
      <3>2. CASE t = n
        <4>1. u.slot[t] = c /\ c \in Locals+1..u.dist /\ c \in DOMAIN u.mem
          BY <2>3, <2>4, <2>6, <2>7, <2>12, <3>1, <3>2
        <4>2. \A k \in Temp : Active(s, L, k) /\ k # n => u.slot[k] # c
          BY <2>3, <2>7, <3>1, <3>2
        <4> QED BY <2>9, <3>2, <4>1, <4>2
      <3>3. CASE t # n
        <4>1. u.slot[t] = s.slot[t]
          BY <2>7, <3>1, <3>3
        <4>2. /\ s.slot[t] \in Locals+1..s.dist /\ s.slot[t] \in DOMAIN s.mem
              /\ \A k \in Temp : Active(s, L, k) /\ s.slot[k] = s.slot[t] => k = t
          BY <3>1, <4>1 DEF Good, Cells
        <4>3. n \in Temp => c # s.slot[t]
          BY <2>3, <3>1, <3>3
        <4>4. s.slot[t] \in Locals+1..u.dist /\ s.slot[t] \in DOMAIN u.mem
          BY <2>4, <2>6, <2>12, <2>3, <4>2
        <4>5. \A k \in Temp : Active(s, L, k) /\ u.slot[k] = s.slot[t] => k = t
          BY <2>7, <3>1, <4>2, <4>3
        <4> QED BY <2>9, <4>1, <4>4, <4>5
      <3> QED BY <3>2, <3>3
    <2>14. Good(u, L)
      <3>1. u.esp = u.dist /\ Locals <= u.dist
        BY <2>1, <2>3, <2>4, <2>12 DEF Stored
      <3>2. 1..Locals \subseteq DOMAIN u.mem
        BY <2>4, <2>6
      <3> QED BY <2>2, <2>10, <2>11, <2>13, <3>1, <3>2 DEF Good
    <2>15. u.cpu = s.cpu
      BY <2>1 DEF Stored
    <2>16. StaysRight(s, u)
      BY <2>1 DEF Stored, StaysRight
    <2> QED BY <2>2, <2>7, <2>14, <2>15, <2>16 DEF n
  <1> QED BY <1>1, <1>2

-------------------------------------------------------------------------------
(* What each operation keeps.                                              *)

\* Good, and, when no variables share a cell, the values of the names of K
\* where locate() finds them and those of the variables of V in memory.
Sound(s, L, K, V) ==
    /\ L \subseteq Temp /\ K \subseteq Var \cup L /\ V \subseteq K \cap Var
    /\ Good(s, L)
    /\ NoAliases => Values(s, K) /\ VarMem(s, V)

LEMMA SpillValues ==
  ASSUME NEW s, NEW L, NEW K, NEW V, Sound(s, L, K, V), NoAliases,
         NEW r \in Reg, s.rec[r] # Free, NEW u, u = Spill(s, r)
  PROVE  Values(u, K) /\ VarMem(u, V)
  <1> DEFINE n == s.rec[r]
             c == Cell(s, n)
  <1>1. Stored(s, u, r) /\ Good(s, L) /\ Values(s, K) /\ VarMem(s, V)
        /\ L \subseteq Temp /\ K \subseteq Var \cup L /\ V \subseteq K \cap Var
    BY SpillIs DEF Sound, Good
  <1>2. /\ n \in Name /\ c \in Nat
        /\ n \in Var => c = Place[n] /\ c \in 1..Locals /\ s.slot[n] # 0
        /\ n \in Temp => c > Locals /\ \A t \in Temp : Active(s, L, t) /\ s.slot[t] = c => t = n
    BY <1>1, SpillCell
  <1>3. s \in Machine /\ 1..Locals \subseteq DOMAIN s.mem /\ \A v \in Var : s.slot[v] = Place[v]
    BY <1>1 DEF Good
  <1>4. s.mem \in Memory /\ s.cpu[r] \in Contents /\ n # Free
    BY <1>3 DEF Machine
  <1>5. u.cpu = s.cpu /\ \A q \in Reg : u.rec[q] = IF q = r THEN Free ELSE s.rec[q]
    BY <1>1, <1>3 DEF Stored, Machine
  <1>6. \A k \in Name : u.slot[k] = IF k = n THEN c ELSE s.slot[k]
    BY <1>1, <1>3 DEF Stored, Machine
  <1>7. u.mem[c] = s.cpu[r] /\ \A x \in DOMAIN s.mem : x # c => u.mem[x] = s.mem[x]
    BY <1>1 DEF Stored, Put
  <1>8. s.rec[r] = n
    OBVIOUS
  <1> HIDE DEF n, c
  <1>9. ASSUME NEW k \in Var, k # n PROVE Place[k] # c /\ Place[k] \in DOMAIN s.mem
    <2>1. Place[k] \in 1..Locals /\ Locals \in Nat
      BY NameFacts
    <2> QED BY <1>2, <1>3, <1>9, <2>1 DEF Name, NoAliases
  <1>10. VarMem(u, V)
    <2> SUFFICES ASSUME NEW v \in V PROVE u.mem[Place[v]] = Place[v]
      BY DEF VarMem
    <2>1. v \in Var /\ v \in K /\ Tok(v) = Place[v] /\ s.mem[Place[v]] = Place[v]
      BY <1>1, NameFacts DEF VarMem
    <2>2. CASE v = n
      BY <1>1, <1>2, <1>7, <1>8, <2>1, <2>2 DEF Values
    <2>3. CASE v # n
      BY <1>7, <1>9, <2>1, <2>3
    <2> QED BY <2>2, <2>3
  <1>11. Values(u, K)
    <2> SUFFICES ASSUME NEW k \in K
                 PROVE  /\ \A q \in Reg : u.rec[q] = k => u.cpu[q] = Tok(k)
                        /\ ~Cached(u, k) => u.slot[k] # 0 /\ u.mem[u.slot[k]] = Tok(k)
      BY DEF Values
    <2>1. k \in Name /\ k # Free
      BY <1>1, NameFacts DEF Name
    <2>2. /\ \A q \in Reg : s.rec[q] = k => s.cpu[q] = Tok(k)
          /\ ~Cached(s, k) => s.slot[k] # 0 /\ s.mem[s.slot[k]] = Tok(k)
      BY <1>1 DEF Values
    <2>3. \A q \in Reg : u.rec[q] = k => u.cpu[q] = Tok(k)
      BY <1>5, <2>1, <2>2
    <2>4. ASSUME ~Cached(u, k), k # n
          PROVE  u.slot[k] # 0 /\ u.mem[u.slot[k]] = Tok(k)
      <3>1. ~Cached(s, k)
        BY <1>5, <1>8, <2>4 DEF Cached
      <3>2. u.slot[k] = s.slot[k] /\ s.slot[k] # 0 /\ s.mem[s.slot[k]] = Tok(k)
        BY <1>6, <2>1, <2>2, <2>4, <3>1
      <3>3. CASE k \in Var
        BY <1>3, <1>7, <1>9, <2>4, <3>2, <3>3
      <3>4. CASE k \in L
        <4>1. k \in Temp /\ Active(s, L, k) /\ Cells(s, L)
          BY <1>1, <3>4 DEF Active, Good
        <4>2. s.slot[k] \in Locals+1..s.dist /\ s.slot[k] \in DOMAIN s.mem
          BY <3>2, <4>1 DEF Cells
        <4>3. s.slot[k] # c
          <5>1. CASE n \in Var
            BY <1>2, <4>2, <5>1, NameFacts
          <5>2. CASE n \in Temp
            BY <1>2, <2>4, <4>1, <5>2
          <5> QED BY <1>2, <5>1, <5>2 DEF Name
        <4> QED BY <1>7, <3>2, <4>2, <4>3
      <3> QED BY <1>1, <3>3, <3>4
    <2>5. ASSUME k = n PROVE u.slot[k] # 0 /\ u.mem[u.slot[k]] = Tok(k)
      <3>1. u.slot[k] = c /\ u.mem[c] = Tok(k)
        BY <1>6, <1>7, <1>8, <2>1, <2>2, <2>5
      <3>2. c # 0
        BY <1>2, NameFacts DEF Name
      <3> QED BY <3>1, <3>2
    <2> QED BY <2>3, <2>4, <2>5
  <1> QED BY <1>10, <1>11

\* What a spill leaves alone besides.
Spilled(s, u, r) ==
    /\ u.rec = [s.rec EXCEPT ![r] = Free]
    /\ u.cpu = s.cpu
    /\ StaysRight(s, u)
    /\ \A n \in Name : n # s.rec[r] => u.slot[n] = s.slot[n]

LEMMA SpillSound ==
  ASSUME NEW s, NEW L, NEW K, NEW V, Sound(s, L, K, V), NEW r \in Reg
  PROVE  Sound(Spill(s, r), L, K, V) /\ Spilled(s, Spill(s, r), r)
  <1> DEFINE u == Spill(s, r)
  <1>1. Good(s, L) /\ L \subseteq Temp
    BY DEF Sound
  <1>2. Good(u, L) /\ Spilled(s, u, r)
    BY <1>1, SpillGood DEF Spilled
  <1>3. NoAliases => Values(u, K) /\ VarMem(u, V)
    <2>1. CASE s.rec[r] = Free
      BY <2>1 DEF Spill, Sound
    <2>2. CASE s.rec[r] # Free
      BY <2>2, SpillValues
    <2> QED BY <2>1, <2>2
  <1> HIDE DEF u
  <1>4. Sound(u, L, K, V)
    BY <1>2, <1>3 DEF Sound
  <1> QED BY <1>2, <1>4 DEF u

LEMMA FreeIs ==
  ASSUME NEW s, AllFree(s), NEW n, n # Free
  PROVE  ~Cached(s, n)
  BY DEF AllFree, Cached

\* After spillAll() every register is free and every variable is in memory.
LEMMA SpillAllSound ==
  ASSUME NEW s, NEW L, NEW K, NEW V, Sound(s, L, K, V)
  PROVE  /\ Sound(SpillAll(s), L, K, K \cap Var)
         /\ AllFree(SpillAll(s))
         /\ StaysRight(s, SpillAll(s))
         /\ \A n \in Name : ~Cached(s, n) => SpillAll(s).slot[n] = s.slot[n]
  <1> DEFINE s1 == Spill(s, "eax")
             s2 == Spill(s1, "ecx")
             s3 == Spill(s2, "edx")
             s4 == Spill(s3, "esi")
             u == Spill(s4, "edi")
  <1>1. {"eax", "ecx", "edx", "esi", "edi"} \subseteq Reg
    BY DEF Reg
  <1>2. Sound(s1, L, K, V) /\ Spilled(s, s1, "eax")
    BY <1>1, SpillSound
  <1> HIDE DEF s1
  <1>3. Sound(s2, L, K, V) /\ Spilled(s1, s2, "ecx")
    BY <1>1, <1>2, SpillSound
  <1> HIDE DEF s2
  <1>4. Sound(s3, L, K, V) /\ Spilled(s2, s3, "edx")
    BY <1>1, <1>3, SpillSound
  <1> HIDE DEF s3
  <1>5. Sound(s4, L, K, V) /\ Spilled(s3, s4, "esi")
    BY <1>1, <1>4, SpillSound
  <1> HIDE DEF s4
  <1>6. Sound(u, L, K, V) /\ Spilled(s4, u, "edi")
    BY <1>1, <1>5, SpillSound
  <1>7. u = SpillAll(s)
    BY DEF SpillAll, s1, s2, s3, s4
  <1> HIDE DEF u
  <1>8. s.rec \in [Reg -> Name \cup {Free}]
    BY DEF Sound, Good, Machine
  <1>9. AllFree(u)
    BY <1>2, <1>3, <1>4, <1>5, <1>6, <1>8 DEF AllFree, Reg, Spilled
  <1>10. ASSUME NEW n \in Name, ~Cached(s, n) PROVE u.slot[n] = s.slot[n]
    <2>1. \A r \in Reg : s.rec[r] # n /\ n # Free
      BY <1>10, NameFacts DEF Cached
    <2> QED BY <1>2, <1>3, <1>4, <1>5, <1>6, <1>8, <2>1 DEF Reg, Spilled
  <1>11. NoAliases => VarMem(u, K \cap Var)
    <2> SUFFICES ASSUME NoAliases, NEW v \in K \cap Var PROVE u.mem[Place[v]] = Place[v]
      BY DEF VarMem
    <2>1. ~Cached(u, v) /\ Tok(v) = Place[v]
      BY <1>9, FreeIs, NameFacts
    <2>2. u.mem[u.slot[v]] = Tok(v) /\ u.slot[v] = Place[v]
      BY <1>6, <2>1 DEF Sound, Values, Good
    <2> QED BY <2>1, <2>2
  <1>12. StaysRight(s, u)
    BY <1>2, <1>3, <1>4, <1>5, <1>6, StaysRightTrans DEF Spilled
  <1>13. Sound(u, L, K, K \cap Var)
    BY <1>6, <1>11 DEF Sound
  <1> QED BY <1>7, <1>9, <1>10, <1>12, <1>13

-------------------------------------------------------------------------------
(* remap(), alloc() and load().                                            *)

\* A name that may be given a register: no other name owns its cell.
Loadable(s, L, n) == n \in Var \cup L \/ (n \in Temp /\ s.slot[n] = 0)

\* u is t but for register r, which it has given to n.
Given(t, u, r, n) ==
    /\ u \in Machine
    /\ u.rec = [t.rec EXCEPT ![r] = n]
    /\ \A q \in Reg : q # r => u.cpu[q] = t.cpu[q]
    /\ u.slot = t.slot /\ u.mem = t.mem /\ u.dist = t.dist /\ u.esp = t.esp

\* A free register is given to a name that has none.  The name is one of those
\* whose value is known after it when the register has the value.
LEMMA GivenSound ==
  ASSUME NEW t, NEW L, NEW K, NEW V, Sound(t, L, K, V),
         NEW r \in Reg, t.rec[r] = Free, NEW n \in Name, ~Cached(t, n), Loadable(t, L, n),
         NEW u, Given(t, u, r, n),
         NEW K2, K2 \subseteq K \cup {n}, K2 \subseteq Var \cup L,
         NoAliases /\ n \in K2 => u.cpu[r] = Tok(n),
         NEW V2, V2 \subseteq K2 \cap Var, NoAliases => VarMem(t, V2)
  PROVE  Sound(u, L, K2, V2)
  <1>1. /\ t \in Machine /\ u \in Machine /\ n # Free /\ L \subseteq Temp
        /\ \A q \in Reg : u.rec[q] = IF q = r THEN n ELSE t.rec[q]
        /\ u.slot = t.slot /\ u.mem = t.mem /\ u.dist = t.dist /\ u.esp = t.esp
    BY NameFacts DEF Sound, Good, Machine, Given
  <1>2. \A k : k # n => (Cached(u, k) <=> Cached(t, k))  \/ k = Free
    BY <1>1 DEF Cached
  <1>3. OneRegister(u)
    <2>1. OneRegister(t) /\ \A q \in Reg : t.rec[q] # n
      BY DEF Sound, Good, Cached
    <2> QED BY <1>1, <2>1 DEF OneRegister
  <1>4. \A k \in Temp : Active(u, L, k) /\ u.slot[k] # 0 => Active(t, L, k)
    <2> SUFFICES ASSUME NEW k \in Temp, Active(u, L, k), u.slot[k] # 0 PROVE Active(t, L, k)
      OBVIOUS
    <2>1. k # Free /\ k \notin Var
      BY NameFacts
    <2>2. CASE k = n
      BY <1>1, <2>1, <2>2 DEF Loadable, Active
    <2>3. CASE k # n
      BY <1>2, <2>1, <2>3 DEF Active
    <2> QED BY <2>2, <2>3
  <1>5. Cells(u, L)
    <2>1. Cells(t, L)
      BY DEF Sound, Good
    <2> QED BY <1>1, <1>4, <2>1 DEF Cells
  <1>6. Good(u, L)
    BY <1>1, <1>3, <1>5 DEF Sound, Good
  <1>7. ASSUME NoAliases PROVE Values(u, K2) /\ VarMem(u, V2)
    <2>1. VarMem(u, V2)
      BY <1>1, <1>7 DEF VarMem
    <2>2. ASSUME NEW k \in K2
          PROVE  /\ \A q \in Reg : u.rec[q] = k => u.cpu[q] = Tok(k)
                 /\ ~Cached(u, k) => u.slot[k] # 0 /\ u.mem[u.slot[k]] = Tok(k)
      <3>1. k # Free
        BY NameFacts DEF Sound, Name
      <3>2. CASE k = n
        <4>1. Cached(u, k)
          BY <1>1, <3>2 DEF Cached
        <4>2. ASSUME NEW q \in Reg, u.rec[q] = k PROVE u.cpu[q] = Tok(k)
          <5>1. q = r
            BY <1>1, <3>2, <4>2 DEF Cached
          <5> QED BY <1>7, <3>2, <5>1
        <4> QED BY <4>1, <4>2
      <3>3. CASE k # n
        <4>1. k \in K /\ Values(t, K)
          BY <1>7, <3>3 DEF Sound
        <4>2. /\ \A q \in Reg : t.rec[q] = k => t.cpu[q] = Tok(k)
              /\ ~Cached(t, k) => t.slot[k] # 0 /\ t.mem[t.slot[k]] = Tok(k)
          BY <4>1 DEF Values
        <4>3. \A q \in Reg : u.rec[q] = k => t.rec[q] = k /\ u.cpu[q] = t.cpu[q]
          BY <1>1, <3>3 DEF Given
        <4> QED BY <1>1, <1>2, <3>1, <3>3, <4>2, <4>3
      <3> QED BY <3>2, <3>3
    <2> QED BY <2>1, <2>2 DEF Values
  <1> QED BY <1>1, <1>6, <1>7 DEF Sound

LEMMA RemapIs ==
  ASSUME NEW s, NEW r \in Reg, NEW n \in Name, NEW t, t = Spill(s, r), t \in Machine
  PROVE  Given(t, Remap(s, r, n), r, n) /\ StaysRight(t, Remap(s, r, n))
         /\ Remap(s, r, n).cpu = t.cpu
  <1> DEFINE u == [t EXCEPT !.rec[r] = n]
  <1>1. u = Remap(s, r, n)
    BY DEF Remap
  <1>2. u \in Machine
    BY DEF Machine
  <1>3. /\ u.rec = [t.rec EXCEPT ![r] = n] /\ u.cpu = t.cpu
        /\ u.slot = t.slot /\ u.mem = t.mem /\ u.dist = t.dist /\ u.esp = t.esp
    BY DEF Machine
  <1>4. StaysRight(t, u)
    BY DEF Machine, StaysRight
  <1> HIDE DEF u
  <1> QED BY <1>1, <1>2, <1>3, <1>4 DEF Given

\* Register r of s now belongs to n in u, which is otherwise s.
Taken(s, u, r, n) ==
    /\ u.rec = [s.rec EXCEPT ![r] = n]
    /\ \A q \in Reg : q # r => u.cpu[q] = s.cpu[q]
    /\ StaysRight(s, u)
    /\ \A k \in Name : k # s.rec[r] => u.slot[k] = s.slot[k]

LEMMA GivenTaken ==
  ASSUME NEW s \in Machine, NEW t, NEW u, NEW r \in Reg, NEW n,
         Spilled(s, t, r), Given(t, u, r, n), StaysRight(t, u)
  PROVE  Taken(s, u, r, n)
  <1>1. StaysRight(s, u)
    BY StaysRightTrans DEF Spilled
  <1>2. u.rec = [s.rec EXCEPT ![r] = n]
    BY DEF Spilled, Given, Machine
  <1> QED BY <1>1, <1>2 DEF Spilled, Given, Taken

LEMMA UncachedKept ==
  ASSUME NEW s, NEW t, NEW r \in Reg, s \in Machine, Spilled(s, t, r), NEW n \in Name, ~Cached(s, n)
  PROVE  t.rec[r] = Free /\ ~Cached(t, n) /\ t.slot[n] = s.slot[n]
  BY NameFacts DEF Spilled, Cached, Machine

LEMMA RemapSound ==
  ASSUME NEW s, NEW L, NEW K, NEW V, Sound(s, L, K, V), NEW r \in Reg,
         NEW n \in Name, ~Cached(s, n), Loadable(s, L, n)
  PROVE  /\ Sound(Remap(s, r, n), L, K \ {n}, V \ {n})
         /\ Taken(s, Remap(s, r, n), r, n)
  <1> DEFINE t == Spill(s, r)
             u == Remap(s, r, n)
  <1>1. /\ Sound(t, L, K, V) /\ Spilled(s, t, r)
        /\ s \in Machine /\ t \in Machine
    <2>1. Sound(t, L, K, V) /\ Spilled(s, t, r)
      BY SpillSound
    <2> HIDE DEF t
    <2> QED BY <2>1 DEF Sound, Good
  <1>2. t.rec[r] = Free /\ ~Cached(t, n) /\ Loadable(t, L, n)
    BY <1>1, UncachedKept DEF Loadable
  <1>3. Given(t, u, r, n) /\ StaysRight(t, u)
    BY <1>1, RemapIs
  <1> HIDE DEF t, u
  <1>4. Sound(u, L, K \ {n}, V \ {n})
    <2>1. K \ {n} \subseteq Var \cup L /\ V \ {n} \subseteq (K \ {n}) \cap Var
          /\ (NoAliases => VarMem(t, V \ {n}))
      BY <1>1 DEF Sound, VarMem
    <2> QED BY <1>1, <1>2, <1>3, <2>1, GivenSound
  <1> QED BY <1>1, <1>3, <1>4, GivenTaken DEF u

LEMMA FetchIs ==
  ASSUME NEW w \in Machine, NEW r \in Reg, NEW n \in Name, w.slot[n] # 0 => w.slot[n] \in DOMAIN w.mem
  PROVE  LET u == Fetch(w, n, r)
         IN /\ u \in Machine /\ StaysRight(w, u)
            /\ u.rec = w.rec /\ u.slot = w.slot /\ u.mem = w.mem /\ u.dist = w.dist /\ u.esp = w.esp
            /\ \A q \in Reg : q # r => u.cpu[q] = w.cpu[q]
            /\ w.slot[n] # 0 => u.cpu[r] = w.mem[w.slot[n]]
  <1> DEFINE v == w.mem[w.slot[n]]
             u == [w EXCEPT !.cpu[r] = v]
  <1>1. CASE w.slot[n] = 0
    BY <1>1 DEF Fetch, StaysRight
  <1>2. CASE w.slot[n] # 0
    <2>1. v \in Contents
      <3>1. w.mem \in Memory
        BY DEF Machine
      <3> QED BY <1>2, <3>1, MemoryFacts
    <2>2. Fetch(w, n, r) = u
      BY <1>2 DEF Fetch
    <2> HIDE DEF v
    <2>3. u \in Machine
      BY <2>1 DEF Machine
    <2>4. /\ u.rec = w.rec /\ u.slot = w.slot /\ u.mem = w.mem /\ u.dist = w.dist /\ u.esp = w.esp
          /\ u.cpu = [w.cpu EXCEPT ![r] = v]
      BY DEF Machine
    <2>5. StaysRight(w, u)
      BY DEF Machine, StaysRight
    <2> HIDE DEF u
    <2>6. (\A q \in Reg : q # r => u.cpu[q] = w.cpu[q]) /\ u.cpu[r] = v
      BY <2>4 DEF Machine
    <2> QED BY <2>2, <2>3, <2>4, <2>5, <2>6 DEF v
  <1> QED BY <1>1, <1>2

\* load() of a name no register has.
LEMMA LoadAtSound ==
  ASSUME NEW s, NEW L, NEW K, NEW V, Sound(s, L, K, V), NEW r \in Reg,
         NEW n \in Name, ~Cached(s, n), Loadable(s, L, n)
  PROVE  /\ Sound(Fetch(Remap(s, r, n), n, r), L, K, V)
         /\ Taken(s, Fetch(Remap(s, r, n), n, r), r, n)
  <1> DEFINE t == Spill(s, r)
             w == Remap(s, r, n)
             u == Fetch(w, n, r)
  <1>1. /\ Sound(t, L, K, V) /\ Spilled(s, t, r)
        /\ s \in Machine /\ t \in Machine
    <2>1. Sound(t, L, K, V) /\ Spilled(s, t, r)
      BY SpillSound
    <2> HIDE DEF t
    <2> QED BY <2>1 DEF Sound, Good
  <1>2. t.rec[r] = Free /\ ~Cached(t, n) /\ Loadable(t, L, n)
    BY <1>1, UncachedKept DEF Loadable
  <1>3. Given(t, w, r, n) /\ StaysRight(t, w)
    BY <1>1, RemapIs
  <1> HIDE DEF t, w
  <1>4. t.slot[n] # 0 => t.slot[n] \in DOMAIN t.mem
    <2> SUFFICES ASSUME t.slot[n] # 0 PROVE t.slot[n] \in DOMAIN t.mem
      OBVIOUS
    <2>1. CASE n \in Var
      BY <1>1, <2>1, NameFacts DEF Sound, Good
    <2>2. CASE n \in Temp
      <3>1. n \in L /\ Cells(t, L)
        BY <1>1, <1>2, <2>2, NameFacts DEF Loadable, Sound, Good
      <3> QED BY <2>2, <3>1 DEF Cells, Active
    <2> QED BY <2>1, <2>2 DEF Name
  <1>5. /\ u \in Machine /\ StaysRight(w, u)
        /\ u.rec = w.rec /\ u.slot = w.slot /\ u.mem = w.mem /\ u.dist = w.dist /\ u.esp = w.esp
        /\ \A q \in Reg : q # r => u.cpu[q] = w.cpu[q]
        /\ w.slot[n] # 0 => u.cpu[r] = w.mem[w.slot[n]]
    <2>1. w \in Machine /\ (w.slot[n] # 0 => w.slot[n] \in DOMAIN w.mem)
      BY <1>3, <1>4 DEF Given
    <2> QED BY <2>1, FetchIs
  <1> HIDE DEF u
  <1>6. Given(t, u, r, n) /\ StaysRight(t, u)
    BY <1>3, <1>5, StaysRightTrans DEF Given
  <1>7. NoAliases /\ n \in K => u.cpu[r] = Tok(n)
    BY <1>1, <1>2, <1>3, <1>5 DEF Sound, Values, Given
  <1>8. Sound(u, L, K, V)
    <2>1. K \subseteq K \cup {n} /\ K \subseteq Var \cup L /\ V \subseteq K \cap Var
          /\ (NoAliases => VarMem(t, V))
      BY <1>1 DEF Sound
    <2> QED BY <1>1, <1>2, <1>6, <1>7, <2>1, GivenSound
  <1>9. Taken(s, u, r, n)
    BY <1>1, <1>6, GivenTaken
  <1> QED BY <1>8, <1>9 DEF u, w

\* A register that is released loses the name it had.
LEMMA ReleaseSound ==
  ASSUME NEW s, NEW L, NEW K, NEW V, Sound(s, L, K, V), NEW r \in Reg
  PROVE  /\ Sound(Release(s, r), L, K \ {s.rec[r]}, V \ {s.rec[r]})
         /\ StaysRight(s, Release(s, r))
  <1> DEFINE u == Release(s, r)
             n == s.rec[r]
  <1>1. /\ L \subseteq Temp /\ K \subseteq Var \cup L /\ V \subseteq K \cap Var
        /\ Good(s, L) /\ s \in Machine
    BY DEF Sound, Good
  <1>2. /\ u \in Machine /\ u.rec = [s.rec EXCEPT ![r] = Free]
        /\ u.slot = s.slot /\ u.dist = s.dist /\ u.cpu = s.cpu /\ u.mem = s.mem /\ u.esp = s.esp
    BY <1>1, ReleaseIs
  <1>3. StaysRight(s, u)
    BY <1>1, ReleaseIs DEF StaysRight
  <1> HIDE DEF u
  <1>4. \A q \in Reg : u.rec[q] = IF q = r THEN Free ELSE s.rec[q]
    BY <1>1, <1>2 DEF Machine
  <1> HIDE DEF n
  <1>5. \A k \in Name : /\ Cached(u, k) => Cached(s, k)
                        /\ Cached(s, k) /\ k # n => Cached(u, k)
    BY <1>4, NameFacts DEF Cached, n
  <1>6. Good(u, L)
    <2>1. OneRegister(u)
      BY <1>1, <1>4 DEF Good, OneRegister
    <2>2. Cells(u, L)
      BY <1>1, <1>2, <1>5 DEF Good, Cells, Active, Name
    <2> QED BY <1>1, <1>2, <2>1, <2>2 DEF Good
  <1>7. ASSUME NoAliases PROVE Values(u, K \ {n}) /\ VarMem(u, V \ {n})
    <2>1. Values(s, K) /\ VarMem(s, V)
      BY <1>7 DEF Sound
    <2>2. VarMem(u, V \ {n})
      BY <1>2, <2>1 DEF VarMem
    <2>3. ASSUME NEW k \in K \ {n}
          PROVE  /\ \A q \in Reg : u.rec[q] = k => u.cpu[q] = Tok(k)
                 /\ ~Cached(u, k) => u.slot[k] # 0 /\ u.mem[u.slot[k]] = Tok(k)
      <3>1. k \in Name /\ k # Free
        BY <1>1, NameFacts DEF Name
      <3> QED BY <1>2, <1>4, <1>5, <2>1, <3>1 DEF Values
    <2> QED BY <2>2, <2>3 DEF Values
  <1> QED BY <1>1, <1>3, <1>6, <1>7 DEF Sound, n, u

\* The first free register is one of the free registers.
LEMMA LeastRank ==
  ASSUME NEW F \in SUBSET Reg, F # {}
  PROVE  \E r \in F : \A q \in F : Rank[r] <= Rank[q]
  <1>1. /\ Rank["eax"] = 1 /\ Rank["ecx"] = 2 /\ Rank["edx"] = 3
        /\ Rank["esi"] = 4 /\ Rank["edi"] = 5
    BY DEF Rank
  <1>2. \A q \in F : q \in {"eax", "ecx", "edx", "esi", "edi"}
    BY DEF Reg
  <1>3. CASE "eax" \in F BY <1>1, <1>2, <1>3
  <1>4. CASE "eax" \notin F /\ "ecx" \in F BY <1>1, <1>2, <1>4
  <1>5. CASE "eax" \notin F /\ "ecx" \notin F /\ "edx" \in F BY <1>1, <1>2, <1>5
  <1>6. CASE "eax" \notin F /\ "ecx" \notin F /\ "edx" \notin F /\ "esi" \in F BY <1>1, <1>2, <1>6
  <1>7. CASE "eax" \notin F /\ "ecx" \notin F /\ "edx" \notin F /\ "esi" \notin F BY <1>1, <1>2, <1>7
  <1> QED BY <1>3, <1>4, <1>5, <1>6, <1>7

LEMMA AllocRegIs ==
  ASSUME NEW s, NEW n, ~Cached(s, n), NEW victim \in Reg
  PROVE  /\ AllocReg(s, n, victim) \in Reg
         /\ FreeRegs(s) # {} => s.rec[AllocReg(s, n, victim)] = Free
  <1> DEFINE F == FreeRegs(s)
             r == CHOOSE r \in F : \A q \in F : Rank[r] <= Rank[q]
  <1>1. F \in SUBSET Reg /\ \A q \in F : s.rec[q] = Free
    BY DEF FreeRegs
  <1>2. CASE F = {}
    BY <1>2 DEF AllocReg
  <1>3. CASE F # {}
    <2>1. \E q \in F : \A p \in F : Rank[q] <= Rank[p]
      BY <1>1, <1>3, LeastRank
    <2> HIDE DEF F
    <2>2. r \in F
      BY <2>1
    <2>3. AllocReg(s, n, victim) = r
      BY <1>3 DEF AllocReg, F
    <2> HIDE DEF r
    <2> QED BY <1>1, <2>2, <2>3
  <1> QED BY <1>2, <1>3

\* Registers of s that u has not given to o or released hold what they held;
\* register r, when it is not an immediate that is loaded, has been given to o.
Loaded(s, u, r, o) ==
    /\ StaysRight(s, u)
    /\ \A q \in Reg : q # r => u.cpu[q] = s.cpu[q]
    /\ \A q \in Reg : q # r /\ s.rec[q] # o => u.rec[q] = s.rec[q]
    /\ \A q \in Reg : u.rec[q] \in {Free, o, s.rec[q]}
    /\ \A k \in Name : ~Cached(s, k) => u.slot[k] = s.slot[k]
    /\ o # Imm => u.rec[r] = o

LEMMA TakenLoaded ==
  ASSUME NEW s \in Machine, NEW u, NEW r \in Reg, NEW n \in Name, Taken(s, u, r, n)
  PROVE  Loaded(s, u, r, n)
  <1>1. \A q \in Reg : u.rec[q] = IF q = r THEN n ELSE s.rec[q]
    BY DEF Taken, Machine
  <1>2. \A k \in Name : ~Cached(s, k) => k # s.rec[r]
    BY DEF Cached
  <1> QED BY <1>1, <1>2 DEF Taken, Loaded

LEMMA SameLoaded ==
  ASSUME NEW s, NEW r \in Reg, NEW o, o # Imm => s.rec[r] = o
  PROVE  Loaded(s, s, r, o)
  BY DEF Loaded, StaysRight

\* load() of a value another register has.
LEMMA MoveSound ==
  ASSUME NEW s, NEW L, NEW K, NEW V, Sound(s, L, K, V), NEW target \in Reg,
         NEW n \in Var \cup L, Cached(s, n), Where(s, n) # target
  PROVE  /\ Sound(LoadInto(s, n, target), L, K, V)
         /\ Loaded(s, LoadInto(s, n, target), target, n)
  <1> DEFINE now == Where(s, n)
             t == Spill(s, target)
             s1 == Remap(s, target, n)
             v == s1.cpu[now]
             w == [s1 EXCEPT !.cpu[target] = v]
             t2 == Release(t, now)
             u == LoadInto(s, n, target)
  <1>1. now \in Reg /\ s.rec[now] = n /\ now # target
    BY WhereIs
  <1>2. n \in Name /\ n # Free
    BY NameFacts DEF Sound, Name
  <1>3. u = Release(w, now)
    BY DEF LoadInto
  <1> HIDE DEF now
  <1>4. /\ Sound(t, L, K, V) /\ Spilled(s, t, target)
        /\ s \in Machine /\ t \in Machine
    <2>1. Sound(t, L, K, V) /\ Spilled(s, t, target)
      BY SpillSound
    <2> HIDE DEF t
    <2> QED BY <2>1 DEF Sound, Good
  <1>5. Given(t, s1, target, n) /\ StaysRight(t, s1) /\ s1.cpu = t.cpu
    BY <1>2, <1>4, RemapIs
  <1> HIDE DEF t, s1
  <1>6. s1 \in Machine /\ v \in Contents /\ v = s.cpu[now]
    BY <1>1, <1>4, <1>5 DEF Given, Machine, Spilled
  <1> HIDE DEF v
  <1>7. w \in Machine
    BY <1>6 DEF Machine
  <1>8. /\ w.rec = s1.rec /\ w.slot = s1.slot /\ w.mem = s1.mem /\ w.dist = s1.dist /\ w.esp = s1.esp
        /\ w.cpu = [s1.cpu EXCEPT ![target] = v]
    BY <1>6 DEF Machine
  <1>9. StaysRight(s1, w)
    BY <1>6 DEF Machine, StaysRight
  <1> HIDE DEF w
  <1>10. /\ u \in Machine /\ u.rec = [w.rec EXCEPT ![now] = Free]
         /\ u.slot = w.slot /\ u.cpu = w.cpu /\ u.mem = w.mem /\ u.dist = w.dist /\ u.esp = w.esp
    BY <1>1, <1>3, <1>7, ReleaseIs
  <1>11. StaysRight(w, u)
    BY <1>1, <1>3, <1>7, ReleaseSame
  <1> HIDE DEF u
  <1>12. t.rec[now] = n /\ t.rec \in [Reg -> Name \cup {Free}] /\ t.rec[target] = Free
    BY <1>1, <1>4 DEF Spilled, Machine
  <1>13. /\ Sound(t2, L, K \ {n}, V \ {n})
         /\ t2.rec = [t.rec EXCEPT ![now] = Free]
         /\ t2.slot = t.slot /\ t2.cpu = t.cpu /\ t2.mem = t.mem /\ t2.dist = t.dist /\ t2.esp = t.esp
    <2>1. Sound(t2, L, K \ {n}, V \ {n})
      BY <1>1, <1>4, <1>12, ReleaseSound
    <2> HIDE DEF t2
    <2> QED BY <1>1, <1>4, <2>1, ReleaseIs DEF t2
  <1> HIDE DEF t2
  <1>14. /\ \A q \in Reg : t2.rec[q] = IF q = now THEN Free ELSE t.rec[q]
         /\ \A q \in Reg : w.rec[q] = IF q = target THEN n ELSE t.rec[q]
         /\ \A q \in Reg : u.rec[q] = IF q = now THEN Free ELSE IF q = target THEN n ELSE t.rec[q]
         /\ u.cpu[target] = v /\ \A q \in Reg : q # target => u.cpu[q] = t.cpu[q]
    <2>1. \A q \in Reg : t2.rec[q] = IF q = now THEN Free ELSE t.rec[q]
      BY <1>12, <1>13
    <2>2. \A q \in Reg : w.rec[q] = IF q = target THEN n ELSE t.rec[q]
      BY <1>5, <1>8, <1>12 DEF Given
    <2>3. w.rec \in [Reg -> Name \cup {Free}] /\ s1.cpu \in [Reg -> Contents]
      BY <1>6, <1>7 DEF Machine
    <2>4. \A q \in Reg : u.rec[q] = IF q = now THEN Free ELSE IF q = target THEN n ELSE t.rec[q]
      BY <1>10, <2>2, <2>3
    <2>5. u.cpu[target] = v /\ \A q \in Reg : q # target => u.cpu[q] = t.cpu[q]
      BY <1>5, <1>8, <1>10, <2>3
    <2> QED BY <2>1, <2>2, <2>4, <2>5
  <1>15. ~Cached(t2, n) /\ t2.rec[target] = Free
    <2>1. OneRegister(t)
      BY <1>4 DEF Sound, Good
    <2> QED BY <1>1, <1>2, <1>12, <1>14, <2>1 DEF OneRegister, Cached
  <1>16. Given(t2, u, target, n)
    <2>1. u.rec = [t2.rec EXCEPT ![target] = n]
      <3>1. u.rec \in [Reg -> Name \cup {Free}] /\ t2.rec \in [Reg -> Name \cup {Free}]
        BY <1>10, <1>13 DEF Machine, Sound, Good
      <3>2. \A q \in Reg : u.rec[q] = [t2.rec EXCEPT ![target] = n][q]
        BY <1>1, <1>14, <3>1
      <3> QED BY <1>2, <3>1, <3>2
    <2> QED BY <1>5, <1>8, <1>10, <1>13, <1>14, <2>1 DEF Given
  <1>17. NoAliases /\ n \in K => u.cpu[target] = Tok(n)
    BY <1>1, <1>6, <1>14 DEF Sound, Values
  <1>18. Sound(u, L, K, V)
    <2> DEFINE K0 == K \ {n}
               V0 == V \ {n}
    <2>1. K \subseteq K0 \cup {n} /\ K \subseteq Var \cup L /\ V \subseteq K \cap Var
      BY DEF Sound
    <2>5. Sound(t2, L, K0, V0)
      BY <1>13
    <2> HIDE DEF K0, V0
    <2>2. NoAliases => VarMem(t2, V)
      BY <1>4, <1>13 DEF Sound, VarMem
    <2>3. Loadable(t2, L, n)
      BY DEF Loadable
    <2> QED BY <1>2, <1>15, <1>16, <1>17, <2>1, <2>2, <2>3, <2>5, GivenSound
  <1>19. StaysRight(s, u)
    BY <1>4, <1>5, <1>9, <1>11, StaysRightTrans DEF Spilled
  <1>20. Loaded(s, u, target, n)
    <2>1. \A q \in Reg : t.rec[q] = IF q = target THEN Free ELSE s.rec[q]
      BY <1>4 DEF Spilled, Machine
    <2>2. t.cpu = s.cpu /\ \A k \in Name : ~Cached(s, k) => t.slot[k] = s.slot[k]
      BY <1>4, UncachedKept DEF Spilled
    <2>3. u.slot = t.slot
      BY <1>5, <1>8, <1>10 DEF Given
    <2> QED BY <1>1, <1>14, <1>19, <2>1, <2>2, <2>3 DEF Loaded
  <1> QED BY <1>18, <1>20 DEF u

\* load(n, target), or an immediate.
LEMMA ToRegSound ==
  ASSUME NEW s, NEW L, NEW K, NEW V, Sound(s, L, K, V), NEW r \in Reg,
         NEW o, o = Imm \/ o \in Var \cup L \/ (o \in Temp /\ ~Cached(s, o) /\ s.slot[o] = 0)
  PROVE  Sound(ToReg(s, o, r), L, K, V) /\ Loaded(s, ToReg(s, o, r), r, o)
  <1> DEFINE u == ToReg(s, o, r)
  <1>1. CASE o = Imm
    <2>1. u = s
      BY <1>1 DEF ToReg
    <2> HIDE DEF u
    <2> QED BY <1>1, <2>1, SameLoaded DEF u
  <1>2. CASE o # Imm /\ ~Cached(s, o)
    <2>1. u = Fetch(Remap(s, r, o), o, r)
      BY <1>2 DEF ToReg, LoadInto
    <2>2. o \in Name /\ Loadable(s, L, o)
      <3>1. L \subseteq Temp
        BY DEF Sound
      <3> QED BY <1>2, <3>1 DEF Loadable, Name
    <2> HIDE DEF u
    <2>3. Sound(u, L, K, V) /\ Taken(s, u, r, o)
      BY <1>2, <2>1, <2>2, LoadAtSound
    <2>4. s \in Machine
      BY DEF Sound, Good
    <2>5. Loaded(s, u, r, o)
      BY <2>2, <2>3, <2>4, TakenLoaded
    <2> QED BY <2>3, <2>5 DEF u
  <1>3. CASE o # Imm /\ Cached(s, o) /\ Where(s, o) = r
    <2>1. u = s /\ s.rec[r] = o
      BY <1>3, WhereIs DEF ToReg, LoadInto
    <2> HIDE DEF u
    <2> QED BY <2>1, SameLoaded DEF u
  <1>4. CASE o # Imm /\ Cached(s, o) /\ Where(s, o) # r
    <2>1. u = LoadInto(s, o, r) /\ o \in Var \cup L
      BY <1>4 DEF ToReg
    <2> HIDE DEF u
    <2> QED BY <1>4, <2>1, MoveSound DEF u
  <1> QED BY <1>1, <1>2, <1>3, <1>4

\* Less may be claimed.
LEMMA SoundLess ==
  ASSUME NEW s, NEW L, NEW K, NEW V, Sound(s, L, K, V),
         NEW K2, K2 \subseteq K, NEW V2, V2 \subseteq V \cap K2
  PROVE  Sound(s, L, K2, V2)
  BY DEF Sound, Values, VarMem

\* alloc(n): n has a register, whatever is in it.
LEMMA AllocSound ==
  ASSUME NEW s, NEW L, NEW K, NEW V, Sound(s, L, K, V), NEW victim \in Reg,
         NEW n \in Name, Cached(s, n) \/ Loadable(s, L, n)
  PROVE  LET u == Alloc(s, n, victim)
         IN /\ Sound(u, L, K \ {n}, V \ {n})
            /\ Where(u, n) \in Reg /\ u.rec[Where(u, n)] = n
            /\ StaysRight(s, u)
            /\ \A q \in Reg : u.rec[q] \in {Free, n, s.rec[q]}
  <1> DEFINE u == Alloc(s, n, victim)
  <1>0. s \in Machine
    BY DEF Sound, Good
  <1>1. CASE Cached(s, n)
    <2>1. u = s
      BY <1>1 DEF Alloc
    <2>2. Sound(s, L, K \ {n}, V \ {n})
      BY SoundLess DEF Sound
    <2> HIDE DEF u
    <2> QED BY <1>1, <2>1, <2>2, WhereIs DEF StaysRight, u
  <1>2. CASE ~Cached(s, n)
    <2> DEFINE r == AllocReg(s, n, victim)
    <2>1. r \in Reg
      BY <1>2, AllocRegIs
    <2>2. u = Remap(s, r, n)
      BY <1>2 DEF Alloc
    <2> HIDE DEF r, u
    <2>3. Sound(u, L, K \ {n}, V \ {n}) /\ Taken(s, u, r, n)
      BY <1>2, <2>1, <2>2, RemapSound
    <2>4. Loaded(s, u, r, n) /\ n # Imm
      BY <1>0, <2>1, <2>3, TakenLoaded, NameFacts
    <2>5. Cached(u, n)
      BY <2>1, <2>4 DEF Loaded, Cached
    <2> QED BY <2>3, <2>4, <2>5, WhereIs DEF Loaded, u
  <1> QED BY <1>1, <1>2

\* load(n): n has a register, with its value when it had one.
LEMMA LoadSound ==
  ASSUME NEW s, NEW L, NEW K, NEW V, Sound(s, L, K, V), NEW victim \in Reg,
         NEW n \in Name, Cached(s, n) \/ Loadable(s, L, n)
  PROVE  LET u == Load(s, n, victim)
         IN /\ Sound(u, L, K, V)
            /\ Where(u, n) \in Reg /\ u.rec[Where(u, n)] = n
            /\ StaysRight(s, u)
            /\ \A q \in Reg : u.rec[q] \in {Free, n, s.rec[q]}
  <1> DEFINE u == Load(s, n, victim)
  <1>0. s \in Machine
    BY DEF Sound, Good
  <1>1. CASE Cached(s, n)
    <2>1. u = s
      BY <1>1 DEF Load
    <2> HIDE DEF u
    <2> QED BY <1>1, <2>1, WhereIs DEF StaysRight, u
  <1>2. CASE ~Cached(s, n)
    <2> DEFINE r == AllocReg(s, n, victim)
    <2>1. r \in Reg
      BY <1>2, AllocRegIs
    <2>2. u = Fetch(Remap(s, r, n), n, r)
      BY <1>2 DEF Load, Alloc
    <2> HIDE DEF r, u
    <2>3. Sound(u, L, K, V) /\ Taken(s, u, r, n)
      BY <1>2, <2>1, <2>2, LoadAtSound
    <2>4. Loaded(s, u, r, n) /\ n # Imm
      BY <1>0, <2>1, <2>3, TakenLoaded, NameFacts
    <2>5. Cached(u, n)
      BY <2>1, <2>4 DEF Loaded, Cached
    <2> QED BY <2>3, <2>4, <2>5, WhereIs DEF Loaded, u
  <1> QED BY <1>1, <1>2

-------------------------------------------------------------------------------
(* The instructions around those of the allocator.                         *)

\* s and u differ at most in whether what has been read was right.
Alike(s, u) ==
    /\ u \in Machine
    /\ u.rec = s.rec /\ u.slot = s.slot /\ u.dist = s.dist
    /\ u.cpu = s.cpu /\ u.mem = s.mem /\ u.esp = s.esp

LEMMA AlikeSound ==
  ASSUME NEW s, NEW u, Alike(s, u), NEW L, NEW K, NEW V, Sound(s, L, K, V)
  PROVE  Sound(u, L, K, V)
  <1>1. \A n : Cached(u, n) <=> Cached(s, n)
    BY DEF Alike, Cached
  <1>2. Good(u, L)
    BY <1>1 DEF Alike, Sound, Good, OneRegister, Cells, Active
  <1>3. NoAliases => Values(u, K) /\ VarMem(u, V)
    BY <1>1 DEF Alike, Sound, Values, VarMem
  <1> QED BY <1>2, <1>3 DEF Sound

\* A name whose value is where locate() finds it is read right.
LEMMA ReadRight ==
  ASSUME NEW s, NEW K, Values(s, K), NEW o \in K \cup {Imm}
  PROVE  Read(s, o) = Tok(o)
  <1>1. CASE o = Imm
    BY <1>1, NameFacts DEF Read
  <1>2. CASE o # Imm /\ Cached(s, o)
    BY <1>2, WhereIs DEF Values, Read
  <1>3. CASE o # Imm /\ ~Cached(s, o)
    BY <1>3 DEF Values, Read
  <1> QED BY <1>1, <1>2, <1>3

LEMMA SeeIs ==
  ASSUME NEW s \in Machine, NEW o
  PROVE  Alike(s, See(s, o)) /\ (Read(s, o) = Tok(o) => StaysRight(s, See(s, o)))
  <1> DEFINE p == s.right /\ Read(s, o) = Tok(o)
             u == [s EXCEPT !.right = p]
  <1>1. See(s, o) = u /\ p \in BOOLEAN
    BY DEF See
  <1>2. Read(s, o) = Tok(o) /\ s.right => p
    OBVIOUS
  <1> HIDE DEF p
  <1>3. Alike(s, u)
    BY <1>1 DEF Alike, Machine
  <1>4. u.right = p
    BY <1>1 DEF Machine
  <1> QED BY <1>1, <1>2, <1>3, <1>4 DEF StaysRight

LEMMA SeeInIs ==
  ASSUME NEW s \in Machine, NEW o, NEW r \in Reg
  PROVE  /\ Alike(s, SeeIn(s, o, r))
         /\ (o = Imm \/ s.cpu[r] = Tok(o)) => StaysRight(s, SeeIn(s, o, r))
  <1> DEFINE p == s.right /\ (o = Imm \/ s.cpu[r] = Tok(o))
             u == [s EXCEPT !.right = p]
  <1>1. SeeIn(s, o, r) = u /\ p \in BOOLEAN
    BY DEF SeeIn
  <1>2. (o = Imm \/ s.cpu[r] = Tok(o)) /\ s.right => p
    OBVIOUS
  <1> HIDE DEF p
  <1>3. Alike(s, u)
    BY <1>1 DEF Alike, Machine
  <1>4. u.right = p
    BY <1>1 DEF Machine
  <1> QED BY <1>1, <1>2, <1>3, <1>4 DEF StaysRight

LEMMA SeeSound ==
  ASSUME NEW s, NEW L, NEW K, NEW V, Sound(s, L, K, V), NEW o
  PROVE  /\ Sound(See(s, o), L, K, V) /\ Alike(s, See(s, o))
         /\ NoAliases /\ o \in K \cup {Imm} => StaysRight(s, See(s, o))
  <1>1. s \in Machine
    BY DEF Sound, Good
  <1>2. Alike(s, See(s, o)) /\ (Read(s, o) = Tok(o) => StaysRight(s, See(s, o)))
    BY <1>1, SeeIs
  <1>3. NoAliases => Values(s, K)
    BY DEF Sound
  <1> QED BY <1>2, <1>3, ReadRight, AlikeSound

LEMMA SeeInSound ==
  ASSUME NEW s, NEW L, NEW K, NEW V, Sound(s, L, K, V), NEW o, NEW r \in Reg
  PROVE  /\ Sound(SeeIn(s, o, r), L, K, V) /\ Alike(s, SeeIn(s, o, r))
         /\ (o = Imm \/ s.cpu[r] = Tok(o)) => StaysRight(s, SeeIn(s, o, r))
  <1>1. s \in Machine
    BY DEF Sound, Good
  <1>2. /\ Alike(s, SeeIn(s, o, r))
        /\ (o = Imm \/ s.cpu[r] = Tok(o)) => StaysRight(s, SeeIn(s, o, r))
    BY <1>1, SeeInIs
  <1> QED BY <1>2, AlikeSound

\* What a register has when it has a name that is known.
LEMMA InRegister ==
  ASSUME NEW s, NEW L, NEW K, NEW V, Sound(s, L, K, V), NoAliases,
         NEW r \in Reg, s.rec[r] \in K
  PROVE  s.cpu[r] = Tok(s.rec[r])
  BY DEF Sound, Values

\* A register is overwritten: the name it had is no longer known.
LEMMA TrashSound ==
  ASSUME NEW s, NEW L, NEW K, NEW V, Sound(s, L, K, V), NEW r \in Reg
  PROVE  /\ Sound(Trash(s, r), L, K \ {s.rec[r]}, V \ {s.rec[r]})
         /\ StaysRight(s, Trash(s, r)) /\ Trash(s, r).rec = s.rec /\ Trash(s, r).slot = s.slot
         /\ \A q \in Reg : q # r => Trash(s, r).cpu[q] = s.cpu[q]
  <1> DEFINE u == Trash(s, r)
             n == s.rec[r]
  <1>1. s \in Machine /\ Good(s, L) /\ K \subseteq Var \cup L /\ L \subseteq Temp /\ V \subseteq K \cap Var
    BY DEF Sound, Good
  <1>2. Junk \in Contents
    BY TokFacts
  <1>3. /\ u \in Machine /\ u.rec = s.rec /\ u.slot = s.slot /\ u.dist = s.dist
        /\ u.mem = s.mem /\ u.esp = s.esp /\ u.cpu = [s.cpu EXCEPT ![r] = Junk]
    BY <1>1, <1>2 DEF Trash, Machine
  <1>4. StaysRight(s, u)
    BY <1>1 DEF Trash, Machine, StaysRight
  <1> HIDE DEF u
  <1>5. \A k : Cached(u, k) <=> Cached(s, k)
    BY <1>3 DEF Cached
  <1>6. Good(u, L)
    BY <1>1, <1>3, <1>5 DEF Good, OneRegister, Cells, Active
  <1>7. \A q \in Reg : q # r => u.cpu[q] = s.cpu[q]
    BY <1>1, <1>3 DEF Machine
  <1>8. NoAliases => Values(u, K \ {n}) /\ VarMem(u, V \ {n})
    BY <1>3, <1>5, <1>7 DEF Sound, Values, VarMem
  <1> QED BY <1>1, <1>3, <1>4, <1>6, <1>7, <1>8 DEF Sound, u

LEMMA FadeFacts ==
  ASSUME NEW f, NEW stale
  PROVE  /\ DOMAIN Fade(f, stale) = DOMAIN f
         /\ \A x \in DOMAIN f : /\ f[x] \in stale => Fade(f, stale)[x] = Junk
                                /\ f[x] \notin stale => Fade(f, stale)[x] = f[x]
         /\ f \in Memory => Fade(f, stale) \in Memory
         /\ f \in [Reg -> Contents] => Fade(f, stale) \in [Reg -> Contents]
  <1>1. /\ DOMAIN Fade(f, stale) = DOMAIN f
        /\ \A x \in DOMAIN f : /\ f[x] \in stale => Fade(f, stale)[x] = Junk
                               /\ f[x] \notin stale => Fade(f, stale)[x] = f[x]
    BY DEF Fade
  <1>2. ASSUME f \in Memory PROVE Fade(f, stale) \in Memory
    <2>1. DOMAIN f \subseteq Nat /\ \A x \in DOMAIN f : f[x] \in Contents
      BY <1>2, MemoryFacts
    <2>2. Fade(f, stale) \in [DOMAIN f -> Contents]
      BY <2>1, TokFacts DEF Fade
    <2> QED BY <2>1, <2>2 DEF Memory
  <1>3. f \in [Reg -> Contents] => Fade(f, stale) \in [Reg -> Contents]
    BY TokFacts DEF Fade
  <1> QED BY <1>1, <1>2, <1>3

\* n gets a new value in the register it has.
LEMMA DefineSound ==
  ASSUME NEW s, NEW L, NEW K, NEW V, Sound(s, L, K, V), NEW r \in Reg, NEW n \in Name, s.rec[r] = n
  PROVE  /\ Sound(Define(s, n, r), L \cup ({n} \cap Temp), K \cup {n}, V \ {n})
         /\ StaysRight(s, Define(s, n, r)) /\ Define(s, n, r).rec = s.rec
  <1> DEFINE cpu == [Fade(s.cpu, {Tok(n)}) EXCEPT ![r] = Tok(n)]
             mem == Fade(s.mem, {Tok(n)})
             t == [s EXCEPT !.cpu = cpu]
             u == [t EXCEPT !.mem = mem]
             L2 == L \cup ({n} \cap Temp)
  <1>1. s \in Machine /\ Good(s, L) /\ K \subseteq Var \cup L /\ L \subseteq Temp /\ V \subseteq K \cap Var
    BY DEF Sound, Good
  <1>2. s.cpu \in [Reg -> Contents] /\ s.mem \in Memory /\ Tok(n) \in Contents
    BY <1>1, TokFacts DEF Machine
  <1>3. Define(s, n, r) = u
    BY DEF Define
  <1>4. cpu \in [Reg -> Contents] /\ mem \in Memory /\ DOMAIN mem = DOMAIN s.mem
    BY <1>2, FadeFacts
  <1>5. cpu[r] = Tok(n) /\ \A q \in Reg : q # r /\ s.cpu[q] # Tok(n) => cpu[q] = s.cpu[q]
    BY <1>2, FadeFacts
  <1>6. \A c \in DOMAIN s.mem : s.mem[c] # Tok(n) => mem[c] = s.mem[c]
    BY FadeFacts
  <1> HIDE DEF cpu, mem
  <1>7. t \in Machine /\ t.rec = s.rec /\ t.slot = s.slot /\ t.dist = s.dist
        /\ t.mem = s.mem /\ t.esp = s.esp /\ t.cpu = cpu
    BY <1>1, <1>4 DEF Machine
  <1>8. StaysRight(s, t)
    BY <1>1 DEF Machine, StaysRight
  <1> HIDE DEF t
  <1>9. u \in Machine /\ u.rec = s.rec /\ u.slot = s.slot /\ u.dist = s.dist
        /\ u.mem = mem /\ u.esp = s.esp /\ u.cpu = cpu
    BY <1>4, <1>7 DEF Machine
  <1>10. StaysRight(t, u)
    BY <1>7 DEF Machine, StaysRight
  <1> HIDE DEF u
  <1>11. \A k : Cached(u, k) <=> Cached(s, k)
    BY <1>9 DEF Cached
  <1>12. Cached(s, n) /\ n # Free
    BY NameFacts DEF Cached
  <1>13. Good(u, L2)
    <2>1. \A k : Active(u, L2, k) => Active(s, L, k)
      BY <1>11, <1>12 DEF Active
    <2>2. Cells(u, L2)
      BY <1>1, <1>4, <1>9, <2>1 DEF Good, Cells
    <2> QED BY <1>1, <1>4, <1>9, <2>2 DEF Good, OneRegister
  <1>14. ASSUME NoAliases PROVE Values(u, K \cup {n}) /\ VarMem(u, V \ {n})
    <2>1. Values(s, K) /\ VarMem(s, V) /\ 1..Locals \subseteq DOMAIN s.mem
          /\ \A v \in Var : s.slot[v] = Place[v]
      BY <1>1, <1>14 DEF Sound, Good
    <2>2. \A k \in K : k \in Name /\ (k # n => Tok(k) # Tok(n))
      BY <1>1, <1>14, TokFacts DEF Name
    <2>3. VarMem(u, V \ {n})
      <3> SUFFICES ASSUME NEW v \in V, v # n PROVE u.mem[Place[v]] = Place[v]
        BY DEF VarMem
      <3>1. v \in Var /\ v \in K /\ Place[v] \in 1..Locals /\ Tok(v) = Place[v]
        BY <1>1, NameFacts
      <3> QED BY <1>6, <1>9, <2>1, <2>2, <3>1 DEF VarMem
    <2>4. ASSUME NEW k \in K \cup {n}
          PROVE  /\ \A q \in Reg : u.rec[q] = k => u.cpu[q] = Tok(k)
                 /\ ~Cached(u, k) => u.slot[k] # 0 /\ u.mem[u.slot[k]] = Tok(k)
      <3>1. CASE k = n
        <4>1. \A q \in Reg : u.rec[q] = k => q = r
          BY <1>1, <1>9, <1>12, <3>1 DEF Good, OneRegister
        <4> QED BY <1>5, <1>9, <1>11, <1>12, <3>1, <4>1
      <3>2. CASE k # n
        <4>1. /\ k \in K /\ Tok(k) # Tok(n)
              /\ \A q \in Reg : s.rec[q] = k => s.cpu[q] = Tok(k)
              /\ ~Cached(s, k) => s.slot[k] # 0 /\ s.mem[s.slot[k]] = Tok(k)
          BY <2>1, <2>2, <3>2 DEF Values
        <4>2. \A q \in Reg : u.rec[q] = k => u.cpu[q] = Tok(k)
          BY <1>5, <1>9, <3>2, <4>1
        <4>3. ASSUME ~Cached(u, k) PROVE u.slot[k] # 0 /\ u.mem[u.slot[k]] = Tok(k)
          <5>1. s.slot[k] # 0 /\ s.mem[s.slot[k]] = Tok(k) /\ u.slot[k] = s.slot[k]
            BY <1>9, <1>11, <4>1, <4>3
          <5>2. s.slot[k] \in DOMAIN s.mem
            <6>1. CASE k \in Var
              BY <2>1, <6>1, NameFacts
            <6>2. CASE k \in L
              BY <1>1, <5>1, <6>2 DEF Good, Cells, Active
            <6> QED BY <1>1, <4>1, <6>1, <6>2
          <5> QED BY <1>6, <1>9, <4>1, <5>1, <5>2
        <4> QED BY <4>2, <4>3
      <3> QED BY <3>1, <3>2
    <2>5. Values(u, K \cup {n})
      BY <2>4 DEF Values
    <2> QED BY <2>3, <2>5
  <1>15. Sound(u, L2, K \cup {n}, V \ {n})
    <2>1. L2 \subseteq Temp /\ K \cup {n} \subseteq Var \cup L2 /\ V \ {n} \subseteq (K \cup {n}) \cap Var
      BY <1>1 DEF Name
    <2> QED BY <1>13, <1>14, <2>1 DEF Sound
  <1> QED BY <1>3, <1>8, <1>9, <1>10, <1>15, StaysRightTrans

\* The memory of a variable no register has is current.
LEMMA MemoryCurrent ==
  ASSUME NEW s, NEW L, NEW K, NEW V, Sound(s, L, K, V),
         NEW v \in K \cap Var, ~Cached(s, v)
  PROVE  Sound(s, L, K, V \cup {v})
  <1>1. NoAliases => s.mem[Place[v]] = Place[v]
    <2>1. Tok(v) = Place[v]
      BY NameFacts
    <2> QED BY <2>1 DEF Sound, Values, Good
  <1> QED BY <1>1 DEF Sound, VarMem

-------------------------------------------------------------------------------
(* Calls, the ends of blocks, and headers.                                 *)

LEMMA PushIs ==
  ASSUME NEW s \in Machine, NEW k \in Nat
  PROVE  LET u == Push(s, k)
         IN /\ u \in Machine /\ u.rec = s.rec /\ u.slot = s.slot /\ u.dist = s.dist
            /\ u.cpu = s.cpu /\ u.mem = s.mem /\ u.esp = s.esp + k /\ StaysRight(s, u)
  <1>1. StaysRight(s, Push(s, k))
    BY DEF Push, Machine, StaysRight
  <1>2. s.esp + k \in Nat
    BY DEF Machine
  <1> QED BY <1>1, <1>2 DEF Push, Machine

LEMMA PopIs ==
  ASSUME NEW s \in Machine, NEW k \in Nat, k <= s.esp
  PROVE  LET u == Pop(s, k)
         IN /\ u \in Machine /\ u.rec = s.rec /\ u.slot = s.slot /\ u.dist = s.dist
            /\ u.cpu = s.cpu /\ u.mem = s.mem /\ u.esp = s.esp - k /\ StaysRight(s, u)
  <1>1. StaysRight(s, Pop(s, k))
    BY DEF Pop, Machine, StaysRight
  <1>2. s.esp - k \in Nat
    BY DEF Machine
  <1> QED BY <1>1, <1>2 DEF Pop, Machine

LEMMA CallOutIs ==
  ASSUME NEW s \in Machine, NEW W \in SUBSET Var
  PROVE  LET u == CallOut(s, W)
             places == {Place[v] : v \in W}
         IN /\ u \in Machine /\ u.rec = s.rec /\ u.slot = s.slot /\ u.dist = s.dist
            /\ u.esp = s.esp /\ StaysRight(s, u)
            /\ DOMAIN u.mem = DOMAIN s.mem
            /\ \A c \in DOMAIN s.mem :
                 /\ c \in places => u.mem[c] = c
                 /\ c \notin places /\ c <= s.esp /\ s.mem[c] \notin places => u.mem[c] = s.mem[c]
  <1> DEFINE places == {Place[v] : v \in W}
             cpu == [r \in Reg |-> Junk]
             mem == [c \in DOMAIN s.mem |-> IF c \in places THEN c
                                            ELSE IF c > s.esp \/ s.mem[c] \in places THEN Junk
                                            ELSE s.mem[c]]
             t == [s EXCEPT !.cpu = cpu]
             u == [t EXCEPT !.mem = mem]
  <1>1. CallOut(s, W) = u
    BY DEF CallOut
  <1>2. places \subseteq Contents
    BY NameFacts DEF Contents
  <1>3. s.mem \in Memory /\ s.esp \in Nat
    BY DEF Machine
  <1>4. DOMAIN s.mem \subseteq Nat /\ \A c \in DOMAIN s.mem : s.mem[c] \in Contents
    BY <1>3, MemoryFacts
  <1> HIDE DEF places
  <1>5. /\ DOMAIN mem = DOMAIN s.mem
        /\ \A c \in DOMAIN s.mem :
             /\ c \in places => mem[c] = c
             /\ c \notin places /\ c <= s.esp /\ s.mem[c] \notin places => mem[c] = s.mem[c]
    BY <1>3, <1>4
  <1>6. mem \in [DOMAIN s.mem -> Contents] /\ cpu \in [Reg -> Contents]
    BY <1>2, <1>4, TokFacts
  <1> HIDE DEF mem, cpu
  <1>7. mem \in Memory
    BY <1>4, <1>6 DEF Memory
  <1>8. t \in Machine /\ t.rec = s.rec /\ t.slot = s.slot /\ t.dist = s.dist /\ t.esp = s.esp
    BY <1>6 DEF Machine
  <1>9. StaysRight(s, t)
    BY DEF Machine, StaysRight
  <1> HIDE DEF t
  <1>10. u \in Machine /\ u.rec = t.rec /\ u.slot = t.slot /\ u.dist = t.dist /\ u.esp = t.esp
         /\ u.mem = mem
    BY <1>7, <1>8 DEF Machine
  <1>11. StaysRight(t, u)
    BY <1>8 DEF Machine, StaysRight
  <1> HIDE DEF u
  <1> QED BY <1>1, <1>5, <1>8, <1>9, <1>10, <1>11, StaysRightTrans DEF places

\* A callee that runs on the frame of s, with more pushed on it, leaves what the
\* frame holds, and gives the variables of W their new values.
LEMMA CalledSound ==
  ASSUME NEW s, NEW L, NEW K, NEW V, Sound(s, L, K, V), AllFree(s), NEW W \in SUBSET Var,
         NEW p \in Machine, p.mem = s.mem, p.esp >= s.dist,
         NEW u \in Machine, u.rec = s.rec, u.slot = s.slot, u.dist = s.dist, u.esp = s.esp,
         u.mem = CallOut(p, W).mem
  PROVE  Sound(u, L, K, V)
  <1> DEFINE places == {Place[v] : v \in W}
  <1>1. /\ s \in Machine /\ Good(s, L) /\ K \subseteq Var \cup L /\ L \subseteq Temp
        /\ V \subseteq K \cap Var /\ s.dist \in Nat /\ p.esp \in Nat /\ Locals <= s.dist
        /\ 1..Locals \subseteq DOMAIN s.mem /\ \A v \in Var : s.slot[v] = Place[v]
    BY DEF Sound, Good, Machine
  <1>2. /\ DOMAIN u.mem = DOMAIN s.mem
        /\ \A c \in DOMAIN s.mem :
             /\ c \in places => u.mem[c] = c
             /\ c \notin places /\ c <= p.esp /\ s.mem[c] \notin places => u.mem[c] = s.mem[c]
    BY CallOutIs
  <1>3. places \subseteq 1..Locals
    BY NameFacts
  <1> HIDE DEF places
  <1>4. \A k : Cached(u, k) <=> Cached(s, k)
    BY DEF Cached
  <1>5. Good(u, L)
    BY <1>1, <1>2, <1>4 DEF Good, OneRegister, Cells, Active
  <1>6. ASSUME NEW v \in Var, s.mem[Place[v]] = Place[v] PROVE u.mem[Place[v]] = Place[v]
    <2>1. Place[v] \in 1..Locals /\ Locals \in Nat
      BY NameFacts
    <2>2. Place[v] \in DOMAIN s.mem /\ Place[v] <= p.esp
      BY <1>1, <2>1
    <2> QED BY <1>2, <1>6, <2>2
  <1>7. ASSUME NoAliases PROVE Values(u, K) /\ VarMem(u, V)
    <2>1. Values(s, K) /\ VarMem(s, V)
      BY <1>7 DEF Sound
    <2>2. VarMem(u, V)
      BY <1>1, <1>6, <2>1 DEF VarMem
    <2>3. ASSUME NEW k \in K
          PROVE  /\ \A q \in Reg : u.rec[q] = k => u.cpu[q] = Tok(k)
                 /\ ~Cached(u, k) => u.slot[k] # 0 /\ u.mem[u.slot[k]] = Tok(k)
      <3>1. k # Free
        BY <1>1, NameFacts
      <3>2. ~Cached(s, k) /\ \A q \in Reg : u.rec[q] # k
        BY <3>1, FreeIs DEF AllFree
      <3>3. s.slot[k] # 0 /\ s.mem[s.slot[k]] = Tok(k)
        BY <2>1, <3>2 DEF Values
      <3>4. CASE k \in Var
        BY <1>1, <1>6, <3>2, <3>3, <3>4, NameFacts
      <3>5. CASE k \in L
        <4>1. s.slot[k] \in Locals+1..s.dist /\ s.slot[k] \in DOMAIN s.mem
          BY <1>1, <3>3, <3>5 DEF Good, Cells, Active
        <4>2. Tok(k) = k /\ k \notin places
          BY <1>1, <1>3, <3>5, NameFacts
        <4>3. s.slot[k] \notin places /\ s.slot[k] <= p.esp
          <5>1. Locals \in Nat
            BY NameFacts
          <5>2. \A x \in places : x <= Locals
            BY <1>3, <5>1
          <5> QED BY <1>1, <4>1, <5>1, <5>2
        <4> QED BY <1>2, <3>2, <3>3, <4>1, <4>2, <4>3
      <3> QED BY <1>1, <3>4, <3>5
    <2> QED BY <2>2, <2>3 DEF Values
  <1> QED BY <1>1, <1>5, <1>7 DEF Sound

\* A library function is called: its arguments are pushed and popped.
LEMMA LibrarySound ==
  ASSUME NEW s, NEW L, NEW K, NEW V, Sound(s, L, K, V), AllFree(s), NEW W \in SUBSET Var, NEW k \in Nat
  PROVE  LET u == Pop(CallOut(Push(s, k), W), k)
         IN Sound(u, L, K, V) /\ StaysRight(s, u) /\ u.rec = s.rec
  <1> DEFINE p == Push(s, k)
             c == CallOut(p, W)
             u == Pop(c, k)
  <1>1. s \in Machine /\ s.esp \in Nat /\ s.esp = s.dist
    BY DEF Sound, Good, Machine
  <1>2. p \in Machine /\ p.rec = s.rec /\ p.slot = s.slot /\ p.dist = s.dist
        /\ p.mem = s.mem /\ p.esp = s.esp + k /\ StaysRight(s, p)
    BY <1>1, PushIs
  <1> HIDE DEF p
  <1>3. c \in Machine /\ c.rec = p.rec /\ c.slot = p.slot /\ c.dist = p.dist /\ c.esp = p.esp
        /\ StaysRight(p, c)
    BY <1>2, CallOutIs
  <1>4. c.mem = CallOut(p, W).mem
    OBVIOUS
  <1> HIDE DEF c
  <1>5. k <= c.esp /\ c.esp - k = s.esp /\ p.esp >= s.dist
    BY <1>1, <1>2, <1>3
  <1>6. u \in Machine /\ u.rec = c.rec /\ u.slot = c.slot /\ u.dist = c.dist
        /\ u.mem = c.mem /\ u.esp = c.esp - k /\ StaysRight(c, u)
    BY <1>3, <1>5, PopIs
  <1> HIDE DEF u
  <1>7. Sound(u, L, K, V)
    BY <1>2, <1>3, <1>4, <1>5, <1>6, CalledSound
  <1>8. StaysRight(s, u)
    BY <1>2, <1>3, <1>6, StaysRightTrans
  <1> QED BY <1>2, <1>3, <1>6, <1>7, <1>8 DEF p, c, u

LEMMA RewindIs ==
  ASSUME NEW s \in Machine, s.esp = s.dist
  PROVE  LET u == Rewind(s)
         IN /\ u \in Machine /\ u.rec = s.rec /\ u.slot = s.slot /\ u.dist = Locals
            /\ u.cpu = s.cpu /\ u.mem = s.mem /\ u.esp = Locals /\ StaysRight(s, u)
  <1> DEFINE t == [s EXCEPT !.dist = Locals]
             e == s.esp - (s.dist - Locals)
             u == [t EXCEPT !.esp = e]
  <1>1. Rewind(s) = u
    BY DEF Rewind, Old
  <1>2. Locals \in Nat
    BY NameFacts
  <1>3. e = Locals
    BY <1>2 DEF Machine
  <1> HIDE DEF e
  <1>4. t \in Machine /\ t.rec = s.rec /\ t.slot = s.slot /\ t.dist = Locals
        /\ t.cpu = s.cpu /\ t.mem = s.mem
    BY <1>2 DEF Machine
  <1>5. StaysRight(s, t)
    BY DEF Machine, StaysRight
  <1> HIDE DEF t
  <1>6. u \in Machine /\ u.rec = t.rec /\ u.slot = t.slot /\ u.dist = t.dist
        /\ u.cpu = t.cpu /\ u.mem = t.mem /\ u.esp = Locals
    BY <1>2, <1>3, <1>4 DEF Machine
  <1>7. StaysRight(t, u)
    BY <1>4 DEF Machine, StaysRight
  <1> HIDE DEF u
  <1> QED BY <1>1, <1>4, <1>5, <1>6, <1>7, StaysRightTrans

\* The registers are free and the frame is cut down to its header.  What lies
\* beyond is still there.
LEMMA RewindSound ==
  ASSUME NEW s, NEW L, NEW K, NEW V, Sound(s, L, K, V), AllFree(s)
  PROVE  /\ Sound(Rewind(s), {}, K \cap Var, V) /\ AllFree(Rewind(s)) /\ StaysRight(s, Rewind(s))
         /\ NoAliases => Values(Rewind(s), K)
  <1> DEFINE u == Rewind(s)
  <1>1. /\ s \in Machine /\ s.esp = s.dist /\ Good(s, L) /\ K \subseteq Var \cup L /\ L \subseteq Temp
        /\ V \subseteq K \cap Var
    BY DEF Sound, Good
  <1>2. u \in Machine /\ u.rec = s.rec /\ u.slot = s.slot /\ u.dist = Locals
        /\ u.cpu = s.cpu /\ u.mem = s.mem /\ u.esp = Locals /\ StaysRight(s, u)
    BY <1>1, RewindIs
  <1> HIDE DEF u
  <1>3. \A k : Cached(u, k) <=> Cached(s, k)
    BY <1>2 DEF Cached
  <1>4. \A t \in Temp : ~Active(u, {}, t)
    <2>1. \A t \in Temp : ~Cached(s, t)
      BY FreeIs, NameFacts
    <2> QED BY <1>3, <2>1 DEF Active
  <1>5. Good(u, {})
    <2>1. Locals <= u.dist
      BY <1>2, NameFacts
    <2> QED BY <1>1, <1>2, <1>4, <2>1 DEF Good, OneRegister, Cells
  <1>6. NoAliases => Values(u, K) /\ VarMem(u, V)
    BY <1>2, <1>3 DEF Sound, Values, VarMem
  <1>7. Values(u, K) => Values(u, K \cap Var)
    BY DEF Values
  <1>8. Sound(u, {}, K \cap Var, V)
    BY <1>1, <1>5, <1>6, <1>7 DEF Sound
  <1> QED BY <1>2, <1>6, <1>8 DEF AllFree, u

\* What a free register has does not matter.
LEMMA FreeCpuSound ==
  ASSUME NEW s, NEW L, NEW K, NEW V, Sound(s, L, K, V), AllFree(s),
         NEW u \in Machine, u.rec = s.rec, u.slot = s.slot, u.mem = s.mem, u.dist = s.dist, u.esp = s.esp
  PROVE  Sound(u, L, K, V) /\ AllFree(u)
  <1>1. \A k : Cached(u, k) <=> Cached(s, k)
    BY DEF Cached
  <1>2. Good(u, L)
    BY <1>1 DEF Sound, Good, OneRegister, Cells, Active
  <1>3. NoAliases => Values(u, K) /\ VarMem(u, V)
    <2>1. ASSUME NEW k \in K PROVE ~\E q \in Reg : u.rec[q] = k
      <3>1. k # Free
        BY NameFacts DEF Sound
      <3> QED BY <3>1 DEF AllFree
    <2> QED BY <1>1, <2>1 DEF Sound, Values, VarMem
  <1> QED BY <1>2, <1>3 DEF Sound, AllFree

\* load() into a register and release() of it when every register is free: only
\* what the register has is new.
LEMMA LoadReleaseIs ==
  ASSUME NEW s \in Machine, AllFree(s), NEW o \in Operand, NEW r \in Reg,
         o # Imm => s.slot[o] = 0 \/ s.slot[o] \in DOMAIN s.mem
  PROVE  LET u == IF o = Imm THEN ToReg(s, o, r) ELSE Release(ToReg(s, o, r), r)
         IN /\ u \in Machine /\ u.rec = s.rec /\ u.slot = s.slot /\ u.mem = s.mem
            /\ u.dist = s.dist /\ u.esp = s.esp /\ StaysRight(s, u)
            /\ \A q \in Reg : q # r => u.cpu[q] = s.cpu[q]
            /\ o # Imm /\ s.slot[o] # 0 => u.cpu[r] = s.mem[s.slot[o]]
  <1> DEFINE u == IF o = Imm THEN ToReg(s, o, r) ELSE Release(ToReg(s, o, r), r)
  <1>1. CASE o = Imm
    <2>1. u = s
      BY <1>1 DEF ToReg
    <2> HIDE DEF u
    <2> QED BY <1>1, <2>1 DEF StaysRight, u
  <1>2. CASE o # Imm
    <2> DEFINE w == Remap(s, r, o)
               f == Fetch(w, o, r)
    <2>1. o \in Name /\ o # Free /\ ~Cached(s, o)
      BY <1>2, FreeIs, NameFacts DEF Operand
    <2>2. u = Release(f, r)
      BY <1>2, <2>1 DEF ToReg, LoadInto
    <2>3. Spill(s, r) = s
      BY DEF AllFree, Spill
    <2>4. Given(s, w, r, o) /\ StaysRight(s, w) /\ w.cpu = s.cpu
      BY <2>1, <2>3, RemapIs
    <2> HIDE DEF w
    <2>5. w \in Machine /\ w.slot = s.slot /\ w.mem = s.mem /\ w.dist = s.dist /\ w.esp = s.esp
          /\ w.rec = [s.rec EXCEPT ![r] = o]
      BY <2>4 DEF Given
    <2>6. /\ f \in Machine /\ StaysRight(w, f)
          /\ f.rec = w.rec /\ f.slot = w.slot /\ f.mem = w.mem /\ f.dist = w.dist /\ f.esp = w.esp
          /\ \A q \in Reg : q # r => f.cpu[q] = w.cpu[q]
          /\ w.slot[o] # 0 => f.cpu[r] = w.mem[w.slot[o]]
      <3>1. w.slot[o] # 0 => w.slot[o] \in DOMAIN w.mem
        BY <1>2, <2>5
      <3> QED BY <2>1, <2>5, <3>1, FetchIs
    <2> HIDE DEF f
    <2>7. u \in Machine /\ u.rec = [f.rec EXCEPT ![r] = Free]
          /\ u.slot = f.slot /\ u.dist = f.dist /\ u.cpu = f.cpu /\ u.mem = f.mem /\ u.esp = f.esp
      BY <2>2, <2>6, ReleaseIs
    <2>8. StaysRight(f, u)
      BY <2>2, <2>6, ReleaseSame
    <2> HIDE DEF u
    <2>9. u.rec = s.rec
      <3>1. s.rec \in [Reg -> Name \cup {Free}] /\ s.rec[r] = Free
        BY DEF Machine, AllFree
      <3>2. f.rec = [s.rec EXCEPT ![r] = o]
        BY <2>5, <2>6
      <3> QED BY <2>7, <3>1, <3>2
    <2>10. StaysRight(s, u)
      BY <2>4, <2>6, <2>8, StaysRightTrans
    <2> QED BY <2>4, <2>5, <2>6, <2>7, <2>9, <2>10 DEF u
  <1> QED BY <1>1, <1>2

-------------------------------------------------------------------------------
(* Between quadruples.                                                     *)

\* The names that stand for nothing any more.
Forgotten(s, live) == {t \in Temp \ live : ~Cached(s, t)}

LEMMA SettleIs ==
  ASSUME NEW s \in Machine, NEW live
  PROVE  LET u == Settle(s, live)
             dead == Forgotten(s, live)
         IN /\ u \in Machine /\ u.rec = s.rec /\ u.dist = s.dist /\ u.esp = s.esp /\ StaysRight(s, u)
            /\ \A r \in Reg : s.rec[r] # Free => u.cpu[r] = s.cpu[r]
            /\ \A n \in Name : u.slot[n] = IF n \in dead THEN 0 ELSE s.slot[n]
            /\ u.mem = Fade(s.mem, dead)
            /\ u.cpu = [r \in Reg |-> IF s.rec[r] = Free THEN Junk ELSE s.cpu[r]]
            /\ u.slot = [n \in Name |-> IF n \in dead THEN 0 ELSE s.slot[n]]
  <1> DEFINE dead == Forgotten(s, live)
             cpu == [r \in Reg |-> IF s.rec[r] = Free THEN Junk ELSE s.cpu[r]]
             mem == Fade(s.mem, dead)
             slot == [n \in Name |-> IF n \in dead THEN 0 ELSE s.slot[n]]
             t1 == [s EXCEPT !.cpu = cpu]
             t2 == [t1 EXCEPT !.mem = mem]
             u == [t2 EXCEPT !.slot = slot]
  <1>1. Settle(s, live) = u
    BY DEF Settle, Forgotten
  <1> HIDE DEF dead
  <1>2. cpu \in [Reg -> Contents] /\ (\A r \in Reg : s.rec[r] # Free => cpu[r] = s.cpu[r])
    BY TokFacts DEF Machine
  <1>3. slot \in [Name -> Nat] /\ (\A n \in Name : slot[n] = IF n \in dead THEN 0 ELSE s.slot[n])
    BY DEF Machine
  <1>4. mem \in Memory
    BY FadeFacts DEF Machine
  <1>5. /\ mem = Fade(s.mem, dead)
        /\ cpu = [r \in Reg |-> IF s.rec[r] = Free THEN Junk ELSE s.cpu[r]]
        /\ slot = [n \in Name |-> IF n \in dead THEN 0 ELSE s.slot[n]]
    OBVIOUS
  <1> HIDE DEF cpu, slot, mem
  <1>6. t1 \in Machine /\ t1.rec = s.rec /\ t1.dist = s.dist /\ t1.esp = s.esp /\ t1.cpu = cpu
    BY <1>2 DEF Machine
  <1>7. StaysRight(s, t1)
    BY DEF Machine, StaysRight
  <1> HIDE DEF t1
  <1>8. t2 \in Machine /\ t2.rec = s.rec /\ t2.dist = s.dist /\ t2.esp = s.esp /\ t2.cpu = cpu
        /\ t2.mem = mem
    BY <1>4, <1>6 DEF Machine
  <1>9. StaysRight(t1, t2)
    BY <1>6 DEF Machine, StaysRight
  <1> HIDE DEF t2
  <1>10. u \in Machine /\ u.rec = s.rec /\ u.dist = s.dist /\ u.esp = s.esp /\ u.cpu = cpu
         /\ u.mem = mem /\ u.slot = slot
    BY <1>3, <1>8 DEF Machine
  <1>11. StaysRight(t2, u)
    BY <1>8 DEF Machine, StaysRight
  <1> HIDE DEF u
  <1>12. StaysRight(s, u)
    BY <1>7, <1>9, <1>11, StaysRightTrans
  <1> QED BY <1>1, <1>2, <1>3, <1>5, <1>10, <1>12 DEF dead

\* The temporaries nothing mentions have no cell, unless a register has them
\* still.
NoneOwned(s, mentioned) == \A t \in Temp \ mentioned : Cached(s, t) \/ s.slot[t] = 0

\* What is claimed of the temporaries that are still mentioned, and of variables,
\* holds on; a temporary that is not mentioned has a register or no cell.
LEMMA SettleSound ==
  ASSUME NEW s, NEW L, NEW K, NEW V, Sound(s, L, K, V),
         NEW live, NEW L2, L2 \subseteq L, L2 \subseteq live,
         NEW K2, K2 \subseteq K, K2 \subseteq Var \cup L2, NEW V2, V2 \subseteq V \cap K2
  PROVE  LET u == Settle(s, live)
         IN Sound(u, L2, K2, V2) /\ NoneOwned(u, live)
  <1> DEFINE u == Settle(s, live)
             dead == Forgotten(s, live)
  <1>1. /\ s \in Machine /\ Good(s, L) /\ K \subseteq Var \cup L /\ L \subseteq Temp /\ V \subseteq K \cap Var
        /\ 1..Locals \subseteq DOMAIN s.mem /\ \A v \in Var : s.slot[v] = Place[v]
    BY DEF Sound, Good
  <1>2. /\ u \in Machine /\ u.rec = s.rec /\ u.dist = s.dist /\ u.esp = s.esp /\ StaysRight(s, u)
        /\ \A r \in Reg : s.rec[r] # Free => u.cpu[r] = s.cpu[r]
        /\ \A n \in Name : u.slot[n] = IF n \in dead THEN 0 ELSE s.slot[n]
        /\ u.mem = Fade(s.mem, dead)
        /\ u.cpu = [r \in Reg |-> IF s.rec[r] = Free THEN Junk ELSE s.cpu[r]]
        /\ u.slot = [n \in Name |-> IF n \in dead THEN 0 ELSE s.slot[n]]
    BY <1>1, SettleIs
  <1> HIDE DEF u
  <1>3. \A t : t \in dead <=> t \in Temp /\ t \notin live /\ ~Cached(s, t)
    BY DEF Forgotten
  <1> HIDE DEF dead
  <1>4. /\ DOMAIN u.mem = DOMAIN s.mem
        /\ \A c \in DOMAIN s.mem : s.mem[c] \notin dead => u.mem[c] = s.mem[c]
    BY <1>2, FadeFacts
  <1>5. \A k : Cached(u, k) <=> Cached(s, k)
    BY <1>2 DEF Cached
  <1>6. NoneOwned(u, live)
    BY <1>2, <1>3, <1>5 DEF NoneOwned, Name
  <1>7. \A v \in Var : u.slot[v] = Place[v]
    BY <1>1, <1>2, <1>3, NameFacts DEF Name
  <1>8. Cells(u, L2)
    <2>1. \A t \in Temp : Active(u, L2, t) => /\ Active(s, L, t) /\ u.slot[t] = s.slot[t]
      BY <1>2, <1>3, <1>5 DEF Active, Name
    <2> QED BY <1>1, <1>2, <1>4, <2>1 DEF Good, Cells
  <1>9. Good(u, L2)
    BY <1>1, <1>2, <1>4, <1>7, <1>8 DEF Good, OneRegister
  <1>10. ASSUME NoAliases PROVE Values(u, K2) /\ VarMem(u, V2)
    <2>1. Values(s, K) /\ VarMem(s, V)
      BY <1>10 DEF Sound
    <2>2. VarMem(u, V2)
      <3> SUFFICES ASSUME NEW v \in V2 PROVE u.mem[Place[v]] = Place[v]
        BY DEF VarMem
      <3>1. v \in V /\ Place[v] \in 1..Locals /\ s.mem[Place[v]] = Place[v]
        BY <1>1, <2>1, NameFacts DEF VarMem
      <3>2. Place[v] \notin dead
        BY <1>3, <3>1, NameFacts
      <3> QED BY <1>1, <1>4, <3>1, <3>2
    <2>3. ASSUME NEW k \in K2
          PROVE  /\ \A q \in Reg : u.rec[q] = k => u.cpu[q] = Tok(k)
                 /\ ~Cached(u, k) => u.slot[k] # 0 /\ u.mem[u.slot[k]] = Tok(k)
      <3>1. k # Free /\ k \notin dead /\ k \in Name /\ Tok(k) \notin dead
        BY <1>1, <1>3, NameFacts DEF Name
      <3>2. \A q \in Reg : u.rec[q] = k => u.cpu[q] = Tok(k)
        BY <1>2, <2>1, <3>1 DEF Values
      <3>3. ASSUME ~Cached(u, k) PROVE u.slot[k] # 0 /\ u.mem[u.slot[k]] = Tok(k)
        <4>1. u.slot[k] = s.slot[k] /\ s.slot[k] # 0 /\ s.mem[s.slot[k]] = Tok(k)
          BY <1>2, <1>5, <2>1, <3>1, <3>3 DEF Values
        <4>2. s.slot[k] \in DOMAIN s.mem
          <5>1. CASE k \in Var
            BY <1>1, <5>1, NameFacts
          <5>2. CASE k \in L
            BY <1>1, <4>1, <5>2 DEF Good, Cells, Active
          <5> QED BY <1>1, <5>1, <5>2
        <4> QED BY <1>4, <3>1, <4>1, <4>2
      <3> QED BY <3>2, <3>3
    <2>4. Values(u, K2)
      BY <2>3 DEF Values
    <2> QED BY <2>2, <2>4
  <1>11. Sound(u, L2, K2, V2)
    BY <1>1, <1>9, <1>10 DEF Sound
  <1> QED BY <1>2, <1>6, <1>11 DEF u

\* The header of a frame.
LEMMA HeaderSound ==
  ASSUME NEW right \in BOOLEAN
  PROVE  LET u == Header(right)
         IN /\ Sound(u, {}, Var, Var) /\ AllFree(u) /\ u.dist = Locals /\ u.esp = Locals
            /\ (right => u.right) /\ \A t \in Temp : u.slot[t] = 0
  <1> DEFINE u == Header(right)
  <1>1. Locals \in Nat /\ MaxSpills \in Nat /\ Junk \in Contents
    BY NameFacts, ProgramsAssumption, TokFacts
  <1>2. u.mem \in Memory /\ DOMAIN u.mem = 1..Locals+MaxSpills+5
        /\ \A c \in 1..Locals : u.mem[c] = c
    <2> DEFINE D == 1..Locals+MaxSpills+5
               f == [c \in D |-> IF c <= Locals THEN c ELSE Junk]
    <2>1. f \in [D -> Contents] /\ D \in SUBSET Nat
      BY <1>1 DEF Contents
    <2>2. f \in Memory
      BY <2>1 DEF Memory
    <2>3. \A c \in 1..Locals : c \in D /\ f[c] = c
      BY <1>1
    <2>4. u.mem = f
      BY DEF Header
    <2> QED BY <2>1, <2>2, <2>3, <2>4
  <1>3. u.slot \in [Name -> Nat] /\ (\A v \in Var : u.slot[v] = Place[v])
        /\ \A t \in Temp : u.slot[t] = 0
    BY NameFacts DEF Header, Name
  <1>4. u.rec \in [Reg -> Name \cup {Free}] /\ (\A r \in Reg : u.rec[r] = Free)
        /\ u.cpu \in [Reg -> Contents] /\ u.dist = Locals /\ u.esp = Locals
    BY <1>1 DEF Header
  <1>5. right => u.right
    BY DEF Header
  <1>6. u \in Machine
    <2>1. u.mem \in Memory /\ u.slot \in [Name -> Nat] /\ u.rec \in [Reg -> Name \cup {Free}]
          /\ u.cpu \in [Reg -> Contents] /\ Locals \in Nat
      BY <1>1, <1>2, <1>3, <1>4
    <2> QED BY <2>1 DEF Header, Machine
  <1> HIDE DEF u
  <1>7. AllFree(u)
    BY <1>4 DEF AllFree
  <1>8. \A k \in Name : ~Cached(u, k)
    BY <1>7, FreeIs, NameFacts
  <1>9. Good(u, {})
    <2>1. \A t \in Temp : ~Active(u, {}, t)
      BY <1>8 DEF Active, Name
    <2>2. 1..Locals \subseteq DOMAIN u.mem /\ Locals <= u.dist
      BY <1>1, <1>2, <1>4
    <2> QED BY <1>3, <1>4, <1>6, <2>1, <2>2 DEF Good, OneRegister, Cells
  <1>10. Values(u, Var) /\ VarMem(u, Var)
    <2>1. ASSUME NEW v \in Var
          PROVE  u.mem[Place[v]] = Place[v] /\ Tok(v) = Place[v] /\ u.slot[v] # 0
                 /\ ~\E r \in Reg : u.rec[r] = v
      BY <1>2, <1>3, <1>4, NameFacts
    <2> QED BY <1>3, <2>1 DEF Values, VarMem
  <1>11. Sound(u, {}, Var, Var)
    BY <1>9, <1>10 DEF Sound
  <1> QED BY <1>3, <1>4, <1>5, <1>7, <1>11 DEF u

-------------------------------------------------------------------------------
(* The quadruples.                                                         *)

\* A register that is spilled leaves its name without one.
LEMMA SpillUncaches ==
  ASSUME NEW s, NEW L, NEW K, NEW V, Sound(s, L, K, V), NEW r \in Reg, NEW n, n # Free, s.rec[r] = n
  PROVE  ~Cached(Spill(s, r), n)
  <1>1. Spilled(s, Spill(s, r), r)
    BY SpillSound
  <1>2. s.rec \in [Reg -> Name \cup {Free}] /\ OneRegister(s)
    BY DEF Sound, Good, Machine
  <1>3. \A q \in Reg : Spill(s, r).rec[q] = IF q = r THEN Free ELSE s.rec[q]
    BY <1>1, <1>2 DEF Spilled
  <1> QED BY <1>2, <1>3 DEF OneRegister, Cached

\* = d a
LEMMA GenMoveSound ==
  ASSUME NEW s, NEW L, NEW K, NEW V, Sound(s, L, K, V), NEW d \in Var, NEW a, NEW victim \in Reg
  PROVE  LET u == GenMove(s, d, a, victim)
         IN /\ Sound(u, L, K \cup {d}, V \cup {d})
            /\ Read(Alloc(s, d, victim), a) = Tok(a) => StaysRight(s, u)
  <1> DEFINE s0 == Alloc(s, d, victim)
             s1 == See(s0, a)
             rd == Where(s1, d)
             s2 == Define(s1, d, rd)
             u == Spill(s2, rd)
  <1>1. GenMove(s, d, a, victim) = u
    BY DEF GenMove
  <1>2. d \in Name /\ d # Free /\ {d} \cap Temp = {} /\ Loadable(s, L, d)
    BY NameFacts DEF Name, Loadable
  <1>3. /\ Sound(s0, L, K \ {d}, V \ {d}) /\ StaysRight(s, s0)
        /\ Where(s0, d) \in Reg /\ s0.rec[Where(s0, d)] = d
    BY <1>2, AllocSound
  <1>4. (Read(Alloc(s, d, victim), a) = Tok(a)) => (Read(s0, a) = Tok(a))
    OBVIOUS
  <1> HIDE DEF s0
  <1>5. Sound(s1, L, K \ {d}, V \ {d}) /\ Alike(s0, s1)
    BY <1>3, SeeSound
  <1>6. Read(s0, a) = Tok(a) => StaysRight(s0, s1)
    <2>1. s0 \in Machine
      BY <1>3 DEF Sound, Good
    <2> QED BY <2>1, SeeIs
  <1> HIDE DEF s1
  <1>7. rd \in Reg /\ s1.rec[rd] = d
    <2>1. Cached(s1, d)
      BY <1>3, <1>5 DEF Cached, Alike
    <2> QED BY <2>1, WhereIs
  <1> HIDE DEF rd
  <1>8. Sound(s2, L, K \cup {d}, V \ {d}) /\ StaysRight(s1, s2) /\ s2.rec = s1.rec
    <2>1. /\ Sound(s2, L \cup ({d} \cap Temp), (K \ {d}) \cup {d}, (V \ {d}) \ {d})
          /\ StaysRight(s1, s2) /\ s2.rec = s1.rec
      BY <1>2, <1>5, <1>7, DefineSound
    <2>2. L \cup ({d} \cap Temp) = L /\ (K \ {d}) \cup {d} = K \cup {d} /\ (V \ {d}) \ {d} = V \ {d}
      BY <1>2
    <2> QED BY <2>1, <2>2
  <1> HIDE DEF s2
  <1>9. Sound(u, L, K \cup {d}, V \ {d}) /\ StaysRight(s2, u)
    BY <1>7, <1>8, SpillSound DEF Spilled
  <1>10. ~Cached(u, d)
    BY <1>2, <1>7, <1>8, SpillUncaches
  <1> HIDE DEF u
  <1>11. Sound(u, L, K \cup {d}, V \cup {d})
    <2>1. Sound(u, L, K \cup {d}, (V \ {d}) \cup {d})
      BY <1>9, <1>10, MemoryCurrent
    <2>2. (V \ {d}) \cup {d} = V \cup {d}
      OBVIOUS
    <2> QED BY <2>1, <2>2
  <1> QED BY <1>1, <1>3, <1>4, <1>6, <1>8, <1>9, <1>11, StaysRightTrans

\* What is moved, when it is not what it is moved to, has its value.
LEMMA MoveReads ==
  ASSUME NEW s, NEW L, NEW K, NEW V, Sound(s, L, K, V), NEW d \in Var, NEW victim \in Reg,
         NoAliases, NEW a \in K \cup {Imm}, a # d
  PROVE  Read(Alloc(s, d, victim), a) = Tok(a)
  <1>1. Loadable(s, L, d) /\ d \in Name
    BY DEF Loadable, Name
  <1>2. Sound(Alloc(s, d, victim), L, K \ {d}, V \ {d})
    BY <1>1, AllocSound
  <1> QED BY <1>2, ReadRight DEF Sound

\* The same when every register is free, whatever the frame.
LEMMA FreeMoveReads ==
  ASSUME NEW s \in Machine, AllFree(s), NEW d \in Var, NEW victim \in Reg,
         NEW a \in Operand, a # d, Values(s, {a} \ {Imm})
  PROVE  Read(Alloc(s, d, victim), a) = Tok(a)
  <1> DEFINE r == AllocReg(s, d, victim)
             u == Remap(s, r, d)
  <1>1. ~Cached(s, d) /\ d # Free /\ d \in Name
    BY FreeIs, NameFacts DEF Name
  <1>2. Alloc(s, d, victim) = u /\ r \in Reg
    BY <1>1, AllocRegIs DEF Alloc
  <1> HIDE DEF r
  <1>3. Spill(s, r) = s
    BY <1>2 DEF AllFree, Spill
  <1>4. Given(s, u, r, d)
    BY <1>1, <1>2, <1>3, RemapIs
  <1> HIDE DEF u
  <1>5. CASE a = Imm
    BY <1>5, NameFacts DEF Read
  <1>6. CASE a # Imm
    <2>1. a # Free /\ ~Cached(s, a) /\ s.slot[a] # 0 /\ s.mem[s.slot[a]] = Tok(a)
      BY <1>6, FreeIs, NameFacts DEF Values, Operand
    <2>2. ~Cached(u, a)
      BY <1>2, <1>4, <2>1 DEF Given, Cached, Machine
    <2> QED BY <1>2, <1>4, <1>6, <2>1, <2>2 DEF Given, Read
  <1> QED BY <1>5, <1>6

\* []= array i a
LEMMA GenStoreElemSound ==
  ASSUME NEW s, NEW L, NEW K, NEW V, Sound(s, L, K, V),
         NEW i \in Var \cup L \cup {Imm}, NEW a \in Var \cup L \cup {Imm}
  PROVE  LET u == GenStoreElem(s, i, a)
         IN /\ Sound(u, L, K, V)
            /\ NoAliases /\ {i, a} \subseteq K \cup {Imm} => StaysRight(s, u)
  <1> DEFINE s0 == ToReg(s, i, "edi")
             s1 == ToReg(s0, a, "esi")
             s2 == SeeIn(s1, i, "edi")
             u == SeeIn(s2, a, "esi")
  <1>1. GenStoreElem(s, i, a) = u
    BY DEF GenStoreElem
  <1>2. "edi" \in Reg /\ "esi" \in Reg /\ "edi" # "esi"
    BY DEF Reg
  <1>3. Sound(s0, L, K, V) /\ Loaded(s, s0, "edi", i)
    BY <1>2, ToRegSound
  <1> HIDE DEF s0
  <1>4. Sound(s1, L, K, V) /\ Loaded(s0, s1, "esi", a)
    BY <1>2, <1>3, ToRegSound
  <1> HIDE DEF s1
  <1>5. ASSUME NoAliases, {i, a} \subseteq K \cup {Imm}
        PROVE  /\ i = Imm \/ s1.cpu["edi"] = Tok(i)
               /\ a = Imm \/ s1.cpu["esi"] = Tok(a)
    <2>1. i # Imm => s0.cpu["edi"] = Tok(i)
      BY <1>2, <1>3, <1>5, InRegister DEF Loaded
    <2>2. s1.cpu["edi"] = s0.cpu["edi"]
      BY <1>2, <1>4 DEF Loaded
    <2>3. a # Imm => s1.cpu["esi"] = Tok(a)
      BY <1>2, <1>4, <1>5, InRegister DEF Loaded
    <2> QED BY <2>1, <2>2, <2>3
  <1>6. /\ Sound(s2, L, K, V) /\ Alike(s1, s2)
        /\ (i = Imm \/ s1.cpu["edi"] = Tok(i)) => StaysRight(s1, s2)
    BY <1>2, <1>4, SeeInSound
  <1> HIDE DEF s2
  <1>7. /\ Sound(u, L, K, V)
        /\ (a = Imm \/ s2.cpu["esi"] = Tok(a)) => StaysRight(s2, u)
    BY <1>2, <1>6, SeeInSound
  <1> HIDE DEF u
  <1>8. ASSUME NoAliases, {i, a} \subseteq K \cup {Imm} PROVE StaysRight(s, u)
    <2>1. StaysRight(s1, s2) /\ StaysRight(s2, u)
      BY <1>5, <1>6, <1>7, <1>8 DEF Alike
    <2> QED BY <1>3, <1>4, <2>1, StaysRightTrans DEF Loaded
  <1> QED BY <1>1, <1>7, <1>8

\* Only names of N get registers on the way from s to u.
Moves(s, u, N) == \A q \in Reg : u.rec[q] \in N \cup {Free, s.rec[q]}

LEMMA SpillMoves ==
  ASSUME NEW s \in Machine, NEW u, NEW r \in Reg, Spilled(s, u, r)
  PROVE  Moves(s, u, {})
  BY DEF Spilled, Moves, Machine

\* =[] d array i, where d is a new name
LEMMA GenLoadElemSound ==
  ASSUME NEW s, NEW L, NEW K, NEW V, Sound(s, L, K, V),
         NEW d \in Temp, ~Cached(s, d), s.slot[d] = 0, d \notin L,
         NEW i \in Var \cup L \cup {Imm}
  PROVE  LET u == GenLoadElem(s, d, i)
         IN /\ Sound(u, L \cup {d}, K \cup {d}, V)
            /\ NoAliases /\ i \in K \cup {Imm} => StaysRight(s, u)
            /\ Moves(s, u, {d, i})
  <1> DEFINE s0 == LoadInto(s, d, "esi")
             s1 == ToReg(s0, i, "edi")
             s2 == SeeIn(s1, i, "edi")
             s3 == Define(s2, d, "esi")
             u == Spill(s3, "esi")
  <1>1. GenLoadElem(s, d, i) = u
    BY DEF GenLoadElem
  <1>2. "edi" \in Reg /\ "esi" \in Reg /\ "edi" # "esi"
    BY DEF Reg
  <1>3. d # Imm /\ d \in Name /\ d \notin Var /\ {d} \cap Temp = {d} /\ d # i
        /\ V \subseteq Var
    BY NameFacts DEF Name, Sound
  <1>4. Sound(s0, L, K, V) /\ Loaded(s, s0, "esi", d)
    <2>1. s0 = ToReg(s, d, "esi")
      BY <1>3 DEF ToReg
    <2> HIDE DEF s0
    <2> QED BY <1>2, <2>1, ToRegSound
  <1> HIDE DEF s0
  <1>5. Sound(s1, L, K, V) /\ Loaded(s0, s1, "edi", i)
    BY <1>2, <1>4, ToRegSound
  <1> HIDE DEF s1
  <1>6. s1.rec["esi"] = d
    BY <1>2, <1>3, <1>4, <1>5 DEF Loaded
  <1>7. NoAliases /\ i \in K \cup {Imm} => (i = Imm \/ s1.cpu["edi"] = Tok(i))
    BY <1>2, <1>5, InRegister DEF Loaded
  <1>8. /\ Sound(s2, L, K, V) /\ s2.rec = s1.rec
        /\ (i = Imm \/ s1.cpu["edi"] = Tok(i)) => StaysRight(s1, s2)
    BY <1>2, <1>5, SeeInSound DEF Alike
  <1> HIDE DEF s2
  <1>9. Sound(s3, L \cup {d}, K \cup {d}, V) /\ StaysRight(s2, s3) /\ s3.rec = s2.rec
    <2>1. /\ Sound(s3, L \cup ({d} \cap Temp), K \cup {d}, V \ {d})
          /\ StaysRight(s2, s3) /\ s3.rec = s2.rec
      BY <1>2, <1>3, <1>6, <1>8, DefineSound
    <2>2. V \ {d} = V
      BY <1>3
    <2> QED BY <1>3, <2>1, <2>2
  <1> HIDE DEF s3
  <1>10. Sound(u, L \cup {d}, K \cup {d}, V) /\ Spilled(s3, u, "esi")
    BY <1>2, <1>9, SpillSound
  <1> HIDE DEF u
  <1>11. Moves(s, u, {d, i})
    <2>1. Moves(s3, u, {})
      BY <1>2, <1>9, <1>10, SpillMoves DEF Sound, Good
    <2> QED BY <1>4, <1>5, <1>8, <1>9, <2>1 DEF Moves, Loaded
  <1>12. NoAliases /\ i \in K \cup {Imm} => StaysRight(s, u)
    BY <1>4, <1>5, <1>7, <1>8, <1>9, <1>10, StaysRightTrans DEF Loaded, Spilled
  <1> QED BY <1>1, <1>10, <1>11, <1>12

\* The middle of + d a b and - d a b, when register r has d: what is read is
\* right, and d's register is lost at most.
LEMMA AddSubReads ==
  ASSUME NEW s, NEW L, NEW K, NEW V, Sound(s, L, K, V), NEW r \in Reg,
         NEW a, NEW b, NEW d, d = s.rec[r], NEW u, u = See(Trash(See(s, a), r), b)
  PROVE  /\ Sound(u, L, K \ {d}, V \ {d}) /\ u.rec = s.rec
         /\ NoAliases /\ a \in K \cup {Imm} /\ b \in (K \cup {Imm}) \ {d} => StaysRight(s, u)
  <1> DEFINE s1 == See(s, a)
             s2 == Trash(s1, r)
  <1>0. u = See(s2, b)
    OBVIOUS
  <1>1. /\ Sound(s1, L, K, V) /\ s1.rec = s.rec
        /\ NoAliases /\ a \in K \cup {Imm} => StaysRight(s, s1)
    BY SeeSound DEF Alike
  <1> HIDE DEF s1
  <1>2. Sound(s2, L, K \ {d}, V \ {d}) /\ StaysRight(s1, s2) /\ s2.rec = s1.rec
    BY <1>1, TrashSound
  <1> HIDE DEF s2
  <1>3. /\ Sound(u, L, K \ {d}, V \ {d}) /\ u.rec = s2.rec
        /\ NoAliases /\ b \in (K \ {d}) \cup {Imm} => StaysRight(s2, u)
    BY <1>0, <1>2, SeeSound DEF Alike
  <1> QED BY <1>1, <1>2, <1>3, StaysRightTrans

\* + d a b and - d a b
LEMMA GenAddSubSound ==
  ASSUME NEW s, NEW L, NEW K, NEW V, Sound(s, L, K, V), NEW op,
         NEW d \in Name, Cached(s, d) \/ Loadable(s, L, d), NEW a, NEW b, NEW victim \in Reg
  PROVE  LET u == GenAddSub(s, op, d, a, b, victim)
         IN /\ Sound(u, L \cup ({d} \cap Temp), K \cup {d}, V \ {d})
            /\ NoAliases /\ {a, b} \subseteq K \cup {Imm} => StaysRight(s, u)
            /\ Moves(s, u, {d})
  <1> DEFINE s1 == Load(s, d, victim)
             rd == Where(s1, d)
             first == IF op = "+" /\ a = Imm THEN b ELSE a
             second == IF first = a THEN b ELSE a
             s2 == IF op = "-" /\ a = b THEN s1
                   ELSE IF d \in {a, b} THEN See(See(s1, a), b)
                   ELSE See(Trash(See(s1, first), rd), second)
             u == Define(s2, d, rd)
  <1>1. GenAddSub(s, op, d, a, b, victim) = u
    BY DEF GenAddSub
  <1>2. /\ Sound(s1, L, K, V) /\ rd \in Reg /\ s1.rec[rd] = d /\ StaysRight(s, s1)
        /\ \A q \in Reg : s1.rec[q] \in {Free, d, s.rec[q]}
    BY LoadSound
  <1> HIDE DEF s1, rd
  <1>3. /\ Sound(s2, L, K \ {d}, V \ {d}) /\ s2.rec = s1.rec
        /\ NoAliases /\ {a, b} \subseteq K \cup {Imm} => StaysRight(s1, s2)
    <2>1. CASE op = "-" /\ a = b
      <3>1. s2 = s1
        BY <2>1
      <3>2. V \ {d} \subseteq V \cap (K \ {d})
        BY <1>2 DEF Sound
      <3> HIDE DEF s2
      <3>3. StaysRight(s1, s1)
        BY DEF StaysRight
      <3>4. Sound(s1, L, K \ {d}, V \ {d})
        BY <1>2, <3>2, SoundLess
      <3> QED BY <3>1, <3>3, <3>4
    <2>2. CASE ~(op = "-" /\ a = b) /\ d \in {a, b}
      <3> DEFINE t == See(s1, a)
                 w == See(t, b)
      <3>1. s2 = w
        BY <2>2
      <3> HIDE DEF s2
      <3>2. /\ Sound(t, L, K, V) /\ t.rec = s1.rec
            /\ NoAliases /\ a \in K \cup {Imm} => StaysRight(s1, t)
        BY <1>2, SeeSound DEF Alike
      <3> HIDE DEF t
      <3>3. /\ Sound(w, L, K, V) /\ w.rec = t.rec
            /\ NoAliases /\ b \in K \cup {Imm} => StaysRight(t, w)
        BY <3>2, SeeSound DEF Alike
      <3> HIDE DEF w
      <3>4. V \ {d} \subseteq V \cap (K \ {d})
        BY <1>2 DEF Sound
      <3> QED BY <3>1, <3>2, <3>3, <3>4, SoundLess, StaysRightTrans
    <2>3. CASE ~(op = "-" /\ a = b) /\ d \notin {a, b}
      <3>1. s2 = See(Trash(See(s1, first), rd), second)
        BY <2>3
      <3>2. {first, second} \subseteq {a, b}
        OBVIOUS
      <3> HIDE DEF s2, first, second
      <3>3. /\ Sound(s2, L, K \ {d}, V \ {d}) /\ s2.rec = s1.rec
            /\ NoAliases /\ first \in K \cup {Imm} /\ second \in (K \cup {Imm}) \ {d}
                 => StaysRight(s1, s2)
        <4>1. Sound(s1, L, K, V) /\ rd \in Reg /\ d = s1.rec[rd]
          BY <1>2
        <4>2. Sound(s2, L, K \ {d}, V \ {d})
          BY <3>1, <4>1, AddSubReads
        <4>3. s2.rec = s1.rec
          BY <3>1, <4>1, <4>2, AddSubReads
        <4>4. NoAliases /\ first \in K \cup {Imm} /\ second \in (K \cup {Imm}) \ {d}
                 => StaysRight(s1, s2)
          BY <3>1, <4>1, <4>2, AddSubReads
        <4> QED BY <4>2, <4>3, <4>4
      <3> QED BY <2>3, <3>2, <3>3
    <2> QED BY <2>1, <2>2, <2>3
  <1> HIDE DEF s2
  <1>4. Sound(u, L \cup ({d} \cap Temp), K \cup {d}, V \ {d}) /\ StaysRight(s2, u) /\ u.rec = s2.rec
    <2>1. Sound(u, L \cup ({d} \cap Temp), (K \ {d}) \cup {d}, (V \ {d}) \ {d})
          /\ StaysRight(s2, u) /\ u.rec = s2.rec
      BY <1>2, <1>3, DefineSound
    <2>2. (K \ {d}) \cup {d} = K \cup {d} /\ (V \ {d}) \ {d} = V \ {d}
      OBVIOUS
    <2> QED BY <2>1, <2>2
  <1> HIDE DEF u
  <1>5. Moves(s, u, {d})
    BY <1>2, <1>3, <1>4 DEF Moves
  <1>6. NoAliases /\ {a, b} \subseteq K \cup {Imm} => StaysRight(s, u)
    BY <1>2, <1>3, <1>4, StaysRightTrans
  <1> QED BY <1>1, <1>4, <1>5, <1>6

\* A register is given to a temporary that has none, with a new value.
LEMMA ClaimSound ==
  ASSUME NEW s, NEW L, NEW K, NEW V, Sound(s, L, K, V), NEW r \in Reg,
         NEW d \in Temp, ~Cached(s, d), Loadable(s, L, d)
  PROVE  LET u == Define(Remap(s, r, d), d, r)
         IN /\ Sound(u, L \cup {d}, K \cup {d}, V) /\ StaysRight(s, u)
            /\ u.rec = [s.rec EXCEPT ![r] = d]
  <1> DEFINE t == Remap(s, r, d)
             u == Define(t, d, r)
  <1>1. d \in Name /\ d \notin Var /\ {d} \cap Temp = {d} /\ V \ {d} = V
    BY NameFacts DEF Name, Sound
  <1>2. Sound(t, L, K \ {d}, V) /\ Taken(s, t, r, d)
    <2>1. Sound(t, L, K \ {d}, V \ {d}) /\ Taken(s, t, r, d)
      BY <1>1, RemapSound
    <2> HIDE DEF t
    <2> QED BY <1>1, <2>1
  <1> HIDE DEF t
  <1>3. t.rec[r] = d
    <2>1. s.rec \in [Reg -> Name \cup {Free}]
      BY DEF Sound, Good, Machine
    <2> QED BY <1>2, <2>1 DEF Taken
  <1>4. Sound(u, L \cup {d}, K \cup {d}, V) /\ StaysRight(t, u) /\ u.rec = t.rec
    <2>1. Sound(u, L \cup ({d} \cap Temp), (K \ {d}) \cup {d}, V \ {d}) /\ StaysRight(t, u) /\ u.rec = t.rec
      BY <1>1, <1>2, <1>3, DefineSound
    <2>2. (K \ {d}) \cup {d} = K \cup {d}
      OBVIOUS
    <2> QED BY <1>1, <2>1, <2>2
  <1> HIDE DEF u
  <1> QED BY <1>2, <1>4, StaysRightTrans DEF Taken, t, u

\* The destination of a product: a new temporary, or one that has at most a
\* register products are left in.
Product(s, L, d) ==
    /\ d \in L \/ (~Cached(s, d) /\ s.slot[d] = 0)
    /\ \A r \in Reg : s.rec[r] = d => r \in {"eax", "edx"}

LEMMA SpillProduct ==
  ASSUME NEW s, NEW L, NEW K, NEW V, Sound(s, L, K, V), NEW d \in Temp, Product(s, L, d),
         NEW r \in Reg
  PROVE  Product(Spill(s, r), L, d)
  <1>0. s \in Machine
    BY DEF Sound, Good
  <1>1. Spilled(s, Spill(s, r), r)
    BY SpillSound
  <1>2. d \in Name /\ d # Free
    BY NameFacts DEF Name
  <1>3. \A q \in Reg : Spill(s, r).rec[q] = IF q = r THEN Free ELSE s.rec[q]
    BY <1>0, <1>1 DEF Spilled, Machine
  <1> QED BY <1>0, <1>1, <1>2, <1>3, UncachedKept DEF Product

LEMMA TwoSpilled ==
  ASSUME NEW s, NEW L, NEW K, NEW V, Sound(s, L, K, V), NEW d \in Temp, Product(s, L, d)
  PROVE  LET u == Spill(Spill(s, "eax"), "edx")
         IN /\ Sound(u, L, K, V) /\ StaysRight(s, u) /\ Moves(s, u, {})
            /\ u.rec["eax"] = Free /\ u.rec["edx"] = Free
            /\ ~Cached(u, d) /\ Loadable(u, L, d)
  <1> DEFINE t == Spill(s, "eax")
             u == Spill(t, "edx")
  <1>1. "eax" \in Reg /\ "edx" \in Reg /\ d # Free
    BY NameFacts DEF Reg
  <1>2. Sound(t, L, K, V) /\ Spilled(s, t, "eax") /\ Product(t, L, d)
    BY <1>1, SpillSound, SpillProduct
  <1> HIDE DEF t
  <1>3. Sound(u, L, K, V) /\ Spilled(t, u, "edx") /\ Product(u, L, d)
    BY <1>1, <1>2, SpillSound, SpillProduct
  <1> HIDE DEF u
  <1>4. /\ \A q \in Reg : t.rec[q] = IF q = "eax" THEN Free ELSE s.rec[q]
        /\ \A q \in Reg : u.rec[q] = IF q = "edx" THEN Free ELSE t.rec[q]
    BY <1>2, <1>3 DEF Spilled, Sound, Good, Machine
  <1>5. u.rec["eax"] = Free /\ u.rec["edx"] = Free /\ Moves(s, u, {})
    BY <1>1, <1>4 DEF Moves
  <1>6. ~Cached(u, d)
    BY <1>1, <1>3, <1>5 DEF Product, Cached
  <1>7. Loadable(u, L, d)
    BY <1>3 DEF Product, Loadable
  <1>8. StaysRight(s, u)
    BY <1>2, <1>3, StaysRightTrans DEF Spilled
  <1> QED BY <1>3, <1>5, <1>6, <1>7, <1>8 DEF t, u

\* A free register is overwritten.
LEMMA TrashFree ==
  ASSUME NEW s, NEW L, NEW K, NEW V, Sound(s, L, K, V), NEW r \in Reg, s.rec[r] = Free
  PROVE  /\ Sound(Trash(s, r), L, K, V) /\ StaysRight(s, Trash(s, r))
         /\ Trash(s, r).rec = s.rec /\ Trash(s, r).slot = s.slot
  <1>1. K \ {Free} = K /\ V \ {Free} = V
    BY NameFacts DEF Sound
  <1> QED BY <1>1, TrashSound

\* * d a b
LEMMA GenMulSound ==
  ASSUME NEW s, NEW L, NEW K, NEW V, Sound(s, L, K, V),
         NEW d \in Temp, Product(s, L, d), NEW a, NEW b
  PROVE  LET u == GenMul(s, d, a, b)
         IN /\ Sound(u, L \cup {d}, K \cup {d}, V)
            /\ NoAliases /\ {a, b} \subseteq K \cup {Imm} => StaysRight(s, u)
            /\ u.rec["eax"] = d /\ Moves(s, u, {d})
  <1> DEFINE s0 == Spill(Spill(s, "eax"), "edx")
             s1 == See(s0, a)
             s2 == Trash(s1, "eax")
             s3 == See(s2, b)
             s4 == Trash(s3, "edx")
             u == Define(Remap(s4, "eax", d), d, "eax")
  <1>1. GenMul(s, d, a, b) = u
    BY DEF GenMul
  <1>2. "eax" \in Reg /\ "edx" \in Reg
    BY DEF Reg
  <1>3. /\ Sound(s0, L, K, V) /\ StaysRight(s, s0) /\ Moves(s, s0, {})
        /\ s0.rec["eax"] = Free /\ s0.rec["edx"] = Free
        /\ ~Cached(s0, d) /\ Loadable(s0, L, d)
    BY TwoSpilled
  <1> HIDE DEF s0
  <1>4. /\ Sound(s1, L, K, V) /\ s1.rec = s0.rec /\ s1.slot = s0.slot
        /\ NoAliases /\ a \in K \cup {Imm} => StaysRight(s0, s1)
    BY <1>3, SeeSound DEF Alike
  <1> HIDE DEF s1
  <1>5. Sound(s2, L, K, V) /\ StaysRight(s1, s2) /\ s2.rec = s1.rec /\ s2.slot = s1.slot
    BY <1>2, <1>3, <1>4, TrashFree
  <1> HIDE DEF s2
  <1>6. /\ Sound(s3, L, K, V) /\ s3.rec = s2.rec /\ s3.slot = s2.slot
        /\ NoAliases /\ b \in K \cup {Imm} => StaysRight(s2, s3)
    BY <1>5, SeeSound DEF Alike
  <1> HIDE DEF s3
  <1>7. Sound(s4, L, K, V) /\ StaysRight(s3, s4) /\ s4.rec = s3.rec /\ s4.slot = s3.slot
    BY <1>2, <1>3, <1>4, <1>5, <1>6, TrashFree
  <1> HIDE DEF s4
  <1>8. s4.rec = s0.rec /\ s4.slot = s0.slot
    BY <1>4, <1>5, <1>6, <1>7
  <1>9. ~Cached(s4, d) /\ Loadable(s4, L, d)
    BY <1>3, <1>8 DEF Cached, Loadable
  <1>10. Sound(u, L \cup {d}, K \cup {d}, V) /\ StaysRight(s4, u) /\ u.rec = [s4.rec EXCEPT !["eax"] = d]
    BY <1>2, <1>7, <1>9, ClaimSound
  <1> HIDE DEF u
  <1>11. u.rec["eax"] = d /\ Moves(s, u, {d})
    BY <1>2, <1>3, <1>7, <1>8, <1>10 DEF Moves, Sound, Good, Machine
  <1>12. NoAliases /\ {a, b} \subseteq K \cup {Imm} => StaysRight(s, u)
    BY <1>3, <1>4, <1>5, <1>6, <1>7, <1>10, StaysRightTrans
  <1> QED BY <1>1, <1>10, <1>11, <1>12

LEMMA ThreeSpilled ==
  ASSUME NEW s, NEW L, NEW K, NEW V, Sound(s, L, K, V), NEW d \in Temp, Product(s, L, d)
  PROVE  LET u == Spill(Spill(Spill(s, "eax"), "ecx"), "edx")
         IN /\ Sound(u, L, K, V) /\ StaysRight(s, u) /\ Moves(s, u, {})
            /\ \A r \in {"eax", "ecx", "edx"} : u.rec[r] = Free
            /\ ~Cached(u, d) /\ Loadable(u, L, d)
  <1> DEFINE t1 == Spill(s, "eax")
             t2 == Spill(t1, "ecx")
             u == Spill(t2, "edx")
  <1>1. "eax" \in Reg /\ "ecx" \in Reg /\ "edx" \in Reg /\ d # Free
    BY NameFacts DEF Reg
  <1>2. Sound(t1, L, K, V) /\ Spilled(s, t1, "eax") /\ Product(t1, L, d)
    BY <1>1, SpillSound, SpillProduct
  <1> HIDE DEF t1
  <1>3. Sound(t2, L, K, V) /\ Spilled(t1, t2, "ecx") /\ Product(t2, L, d)
    BY <1>1, <1>2, SpillSound, SpillProduct
  <1> HIDE DEF t2
  <1>4. Sound(u, L, K, V) /\ Spilled(t2, u, "edx") /\ Product(u, L, d)
    BY <1>1, <1>3, SpillSound, SpillProduct
  <1> HIDE DEF u
  <1>5. /\ \A q \in Reg : t1.rec[q] = IF q = "eax" THEN Free ELSE s.rec[q]
        /\ \A q \in Reg : t2.rec[q] = IF q = "ecx" THEN Free ELSE t1.rec[q]
        /\ \A q \in Reg : u.rec[q] = IF q = "edx" THEN Free ELSE t2.rec[q]
    BY <1>2, <1>3, <1>4 DEF Spilled, Sound, Good, Machine
  <1>6. (\A r \in {"eax", "ecx", "edx"} : u.rec[r] = Free) /\ Moves(s, u, {})
    BY <1>1, <1>5 DEF Moves
  <1>7. ~Cached(u, d)
    BY <1>1, <1>4, <1>6 DEF Product, Cached
  <1>8. Loadable(u, L, d)
    BY <1>4 DEF Product, Loadable
  <1>9. StaysRight(s, u)
    BY <1>2, <1>3, <1>4, StaysRightTrans DEF Spilled
  <1> QED BY <1>4, <1>6, <1>7, <1>8, <1>9 DEF t1, t2, u

\* / d a b and % d a b: d ends in the register of the result.
HeldIn(s, r, n) == s.rec[r] = n

LEMMA GenDivModSound ==
  ASSUME NEW s, NEW L, NEW K, NEW V, Sound(s, L, K, V),
         NEW d \in Temp, Product(s, L, d), NEW a, NEW b \in Var \cup L \cup {Imm}, b # d,
         NEW result \in {"eax", "edx"}
  PROVE  LET u == GenDivMod(s, d, a, b, result)
         IN /\ Sound(u, L \cup {d}, K \cup {d}, V)
            /\ NoAliases /\ {a, b} \subseteq K \cup {Imm} => StaysRight(s, u)
            /\ HeldIn(u, result, d) /\ Moves(s, u, {d, b})
  <1> DEFINE s0 == Spill(Spill(Spill(s, "eax"), "ecx"), "edx")
             s1 == Trash(s0, "edx")
             s2 == See(s1, a)
             s3 == Trash(s2, "eax")
             s4 == ToReg(s3, b, "ecx")
             s5 == SeeIn(s4, b, "ecx")
             s6 == Trash(s5, "eax")
             s7 == Trash(s6, "edx")
             u == Define(Remap(s7, result, d), d, result)
  <1>1. GenDivMod(s, d, a, b, result) = u
    BY DEF GenDivMod
  <1>2. /\ "eax" \in Reg /\ "edx" \in Reg /\ "ecx" \in Reg /\ result \in Reg
        /\ "ecx" # "eax" /\ "ecx" # "edx" /\ d \in Name /\ d # Free /\ b # Free
    BY NameFacts DEF Reg, Name, Sound
  <1>3. /\ Sound(s0, L, K, V) /\ StaysRight(s, s0) /\ Moves(s, s0, {})
        /\ s0.rec["eax"] = Free /\ s0.rec["edx"] = Free
        /\ ~Cached(s0, d) /\ Loadable(s0, L, d)
    BY ThreeSpilled
  <1> HIDE DEF s0
  <1>4. Sound(s1, L, K, V) /\ StaysRight(s0, s1) /\ s1.rec = s0.rec /\ s1.slot = s0.slot
    BY <1>2, <1>3, TrashFree
  <1> HIDE DEF s1
  <1>5. /\ Sound(s2, L, K, V) /\ s2.rec = s1.rec /\ s2.slot = s1.slot
        /\ NoAliases /\ a \in K \cup {Imm} => StaysRight(s1, s2)
    BY <1>4, SeeSound DEF Alike
  <1> HIDE DEF s2
  <1>6. Sound(s3, L, K, V) /\ StaysRight(s2, s3) /\ s3.rec = s2.rec /\ s3.slot = s2.slot
    BY <1>2, <1>3, <1>4, <1>5, TrashFree
  <1> HIDE DEF s3
  <1>7. s3.rec = s0.rec /\ s3.slot = s0.slot /\ ~Cached(s3, d)
    BY <1>3, <1>4, <1>5, <1>6 DEF Cached
  <1>8. Sound(s4, L, K, V) /\ Loaded(s3, s4, "ecx", b)
    BY <1>2, <1>6, ToRegSound
  <1> HIDE DEF s4
  <1>9. /\ s4.rec["eax"] = Free /\ s4.rec["edx"] = Free /\ ~Cached(s4, d) /\ Loadable(s4, L, d)
        /\ Moves(s, s4, {b})
    <2>1. \A q \in Reg : s4.rec[q] \in {Free, b, s3.rec[q]}
      BY <1>8 DEF Loaded
    <2>2. ~Cached(s4, d)
      BY <1>2, <1>7, <2>1 DEF Cached
    <2>3. s4.slot[d] = s3.slot[d]
      BY <1>2, <1>7, <1>8 DEF Loaded
    <2>4. Loadable(s4, L, d)
      BY <1>3, <1>7, <2>3 DEF Loadable
    <2>5. Moves(s, s4, {b})
      BY <1>3, <1>7, <2>1 DEF Moves
    <2>6. s4.rec["eax"] = s3.rec["eax"] /\ s4.rec["edx"] = s3.rec["edx"]
      BY <1>2, <1>3, <1>7, <1>8 DEF Loaded
    <2> QED BY <1>3, <1>7, <2>2, <2>4, <2>5, <2>6
  <1>10. NoAliases /\ b \in K \cup {Imm} => (b = Imm \/ s4.cpu["ecx"] = Tok(b))
    BY <1>2, <1>8, InRegister DEF Loaded
  <1>11. /\ Sound(s5, L, K, V) /\ s5.rec = s4.rec /\ s5.slot = s4.slot
         /\ (b = Imm \/ s4.cpu["ecx"] = Tok(b)) => StaysRight(s4, s5)
    BY <1>2, <1>8, SeeInSound DEF Alike
  <1> HIDE DEF s5
  <1>12. Sound(s6, L, K, V) /\ StaysRight(s5, s6) /\ s6.rec = s5.rec /\ s6.slot = s5.slot
    BY <1>2, <1>9, <1>11, TrashFree
  <1> HIDE DEF s6
  <1>13. Sound(s7, L, K, V) /\ StaysRight(s6, s7) /\ s7.rec = s6.rec /\ s7.slot = s6.slot
    BY <1>2, <1>9, <1>11, <1>12, TrashFree
  <1> HIDE DEF s7
  <1>14. s7.rec = s4.rec /\ s7.slot = s4.slot
    BY <1>11, <1>12, <1>13
  <1>15. ~Cached(s7, d) /\ Loadable(s7, L, d)
    BY <1>9, <1>14 DEF Cached, Loadable
  <1>16. Sound(u, L \cup {d}, K \cup {d}, V) /\ StaysRight(s7, u) /\ u.rec = [s7.rec EXCEPT ![result] = d]
    BY <1>2, <1>13, <1>15, ClaimSound
  <1> HIDE DEF u
  <1>17. u.rec[result] = d /\ Moves(s, u, {d, b})
    <2>1. s7.rec \in [Reg -> Name \cup {Free}]
      BY <1>13 DEF Sound, Good, Machine
    <2>2. \A q \in Reg : u.rec[q] = IF q = result THEN d ELSE s4.rec[q]
      BY <1>14, <1>16, <2>1
    <2> QED BY <1>2, <1>9, <2>2 DEF Moves
  <1>18. NoAliases /\ {a, b} \subseteq K \cup {Imm} => StaysRight(s, u)
    <2> SUFFICES ASSUME NoAliases, {a, b} \subseteq K \cup {Imm} PROVE StaysRight(s, u)
      OBVIOUS
    <2>1. StaysRight(s1, s2) /\ StaysRight(s4, s5) /\ StaysRight(s3, s4)
      BY <1>5, <1>8, <1>10, <1>11 DEF Loaded
    <2>2. StaysRight(s, s3)
      BY <1>3, <1>4, <1>6, <2>1, StaysRightTrans
    <2>3. StaysRight(s3, s7)
      BY <1>12, <1>13, <2>1, StaysRightTrans
    <2> QED BY <1>16, <2>2, <2>3, StaysRightTrans
  <1>19. HeldIn(u, result, d)
    BY <1>17 DEF HeldIn
  <1> QED BY <1>1, <1>16, <1>17, <1>18, <1>19

\* read v
LEMMA GenReadSound ==
  ASSUME NEW s, NEW L, NEW K, NEW V, Sound(s, L, K, V), NEW v \in Var
  PROVE  Sound(GenRead(s, v), L, K, K \cap Var) /\ StaysRight(s, GenRead(s, v))
  <1> DEFINE s1 == SpillAll(s)
             u == Pop(CallOut(Push(s1, 2), {v}), 2)
  <1>1. Sound(s1, L, K, K \cap Var) /\ AllFree(s1) /\ StaysRight(s, s1)
    BY SpillAllSound
  <1>2. ~Cached(s1, v)
    BY <1>1, FreeIs, NameFacts
  <1>3. GenRead(s, v) = u
    BY <1>2 DEF GenRead, Store
  <1> HIDE DEF s1
  <1>4. Sound(u, L, K, K \cap Var) /\ StaysRight(s1, u)
    BY <1>1, LibrarySound
  <1> HIDE DEF u
  <1> QED BY <1>1, <1>3, <1>4, StaysRightTrans

\* write_e a, and write_s
LEMMA GenWriteSound ==
  ASSUME NEW s, NEW L, NEW K, NEW V, Sound(s, L, K, V), NEW a
  PROVE  /\ Sound(GenWrite(s, a), L, K, K \cap Var)
         /\ NoAliases /\ a \in K \cup {Imm} => StaysRight(s, GenWrite(s, a))
  <1> DEFINE s1 == SpillAll(s)
             s2 == See(s1, a)
             u == Pop(CallOut(Push(s2, 2), {}), 2)
  <1>1. Sound(s1, L, K, K \cap Var) /\ AllFree(s1) /\ StaysRight(s, s1)
    BY SpillAllSound
  <1>2. GenWrite(s, a) = u
    BY DEF GenWrite
  <1> HIDE DEF s1
  <1>3. /\ Sound(s2, L, K, K \cap Var) /\ s2.rec = s1.rec
        /\ NoAliases /\ a \in K \cup {Imm} => StaysRight(s1, s2)
    BY <1>1, SeeSound DEF Alike
  <1> HIDE DEF s2
  <1>4. AllFree(s2)
    BY <1>1, <1>3 DEF AllFree
  <1>5. Sound(u, L, K, K \cap Var) /\ StaysRight(s2, u)
    BY <1>3, <1>4, LibrarySound
  <1> HIDE DEF u
  <1> QED BY <1>1, <1>2, <1>3, <1>5, StaysRightTrans

-------------------------------------------------------------------------------
(* A call: arguments are pushed, one by one, above the temporaries.        *)

Unpushed(s) == [s EXCEPT !.esp = s.dist]

\* n cells have been pushed.
Pushed(s, n, L, K, V) ==
    /\ s \in Machine /\ n \in Nat /\ s.esp = s.dist + n
    /\ Sound(Unpushed(s), L, K, V)

LEMMA UnpushedIs ==
  ASSUME NEW s \in Machine
  PROVE  LET u == Unpushed(s)
         IN /\ u \in Machine /\ u.rec = s.rec /\ u.slot = s.slot /\ u.dist = s.dist
            /\ u.cpu = s.cpu /\ u.mem = s.mem /\ u.esp = s.dist
  BY DEF Unpushed, Machine

LEMMA NothingPushed ==
  ASSUME NEW s, NEW L, NEW K, NEW V
  PROVE  Pushed(s, 0, L, K, V) <=> Sound(s, L, K, V)
  <1>1. ASSUME s \in Machine, s.esp = s.dist
        PROVE  Alike(s, Unpushed(s)) /\ Alike(Unpushed(s), s)
    BY <1>1, UnpushedIs DEF Alike
  <1>2. ASSUME Sound(s, L, K, V) PROVE Pushed(s, 0, L, K, V)
    <2>1. s \in Machine /\ s.esp = s.dist /\ s.dist \in Nat
      BY <1>2 DEF Sound, Good, Machine
    <2>2. Sound(Unpushed(s), L, K, V)
      BY <1>1, <1>2, <2>1, AlikeSound
    <2> QED BY <2>1, <2>2 DEF Pushed
  <1>3. ASSUME Pushed(s, 0, L, K, V) PROVE Sound(s, L, K, V)
    <2>1. s \in Machine /\ s.esp = s.dist /\ Sound(Unpushed(s), L, K, V)
      BY <1>3 DEF Pushed, Machine
    <2> QED BY <1>1, <2>1, AlikeSound
  <1> QED BY <1>2, <1>3

\* What a free register has, and how much is pushed, may change.
LEMMA PushedLike ==
  ASSUME NEW s, NEW n, NEW L, NEW K, NEW V, Pushed(s, n, L, K, V), AllFree(s),
         NEW u \in Machine, u.rec = s.rec, u.slot = s.slot, u.mem = s.mem, u.dist = s.dist,
         NEW k \in Nat, u.esp = s.dist + k
  PROVE  Pushed(u, k, L, K, V) /\ AllFree(u)
  <1> DEFINE s1 == Unpushed(s)
             u1 == Unpushed(u)
  <1>1. s1.rec = s.rec /\ s1.slot = s.slot /\ s1.dist = s.dist /\ s1.mem = s.mem /\ s1.esp = s.dist
        /\ Sound(s1, L, K, V)
    BY UnpushedIs DEF Pushed
  <1>2. u1 \in Machine /\ u1.rec = u.rec /\ u1.slot = u.slot /\ u1.dist = u.dist /\ u1.mem = u.mem
        /\ u1.esp = u.dist
    BY UnpushedIs
  <1> HIDE DEF s1, u1
  <1>3. Sound(u1, L, K, V)
    BY <1>1, <1>2, FreeCpuSound DEF AllFree
  <1> QED BY <1>3 DEF Pushed, AllFree, u1

\* What is where, whatever has been pushed.
LEMMA PushedFacts ==
  ASSUME NEW s, NEW n, NEW L, NEW K, NEW V, Pushed(s, n, L, K, V)
  PROVE  /\ s \in Machine /\ n \in Nat /\ s.dist \in Nat /\ s.esp = s.dist + n
         /\ K \subseteq Var \cup L /\ L \subseteq Temp
         /\ \A o \in Var \cup L : s.slot[o] = 0 \/ s.slot[o] \in DOMAIN s.mem
         /\ NoAliases => Values(s, K)
  <1> DEFINE s1 == Unpushed(s)
  <1>1. /\ s \in Machine /\ n \in Nat /\ s.dist \in Nat /\ s.esp = s.dist + n /\ Sound(s1, L, K, V)
    BY DEF Pushed, Machine
  <1>2. s1.rec = s.rec /\ s1.slot = s.slot /\ s1.cpu = s.cpu /\ s1.mem = s.mem
    BY <1>1, UnpushedIs
  <1> HIDE DEF s1
  <1>3. K \subseteq Var \cup L /\ L \subseteq Temp /\ Good(s1, L)
    BY <1>1 DEF Sound
  <1>4. \A o \in Var \cup L : s.slot[o] = 0 \/ s.slot[o] \in DOMAIN s.mem
    BY <1>2, <1>3, NameFacts DEF Good, Cells, Active
  <1>5. NoAliases => Values(s, K)
    BY <1>1, <1>2 DEF Sound, Values, Cached
  <1> QED BY <1>1, <1>3, <1>4, <1>5

LEMMA GenByValueSound ==
  ASSUME NEW s, NEW n, NEW L, NEW K, NEW V, Pushed(s, n, L, K, V), AllFree(s), NEW a \in K \cup {Imm}
  PROVE  LET u == GenByValue(s, a)
         IN Pushed(u, n + 1, L, K, V) /\ AllFree(u) /\ (NoAliases => StaysRight(s, u))
  <1> DEFINE t == See(s, a)
             u == Push(t, 1)
  <1>1. /\ s \in Machine /\ n \in Nat /\ s.dist \in Nat /\ s.esp = s.dist + n /\ (NoAliases => Values(s, K))
        /\ K \subseteq Var \cup L /\ L \subseteq Temp
    BY PushedFacts
  <1>2. GenByValue(s, a) = u
    <2>1. a # Free
      BY <1>1, NameFacts
    <2> QED BY <2>1, FreeIs DEF GenByValue
  <1>3. Alike(s, t) /\ (NoAliases => StaysRight(s, t))
    BY <1>1, SeeIs, ReadRight
  <1>4. t \in Machine /\ t.rec = s.rec /\ t.slot = s.slot /\ t.mem = s.mem /\ t.dist = s.dist /\ t.esp = s.esp
    BY <1>3 DEF Alike
  <1> HIDE DEF t
  <1>5. u \in Machine /\ u.rec = t.rec /\ u.slot = t.slot /\ u.mem = t.mem /\ u.dist = t.dist
        /\ u.esp = t.esp + 1 /\ StaysRight(t, u)
    BY <1>4, PushIs
  <1> HIDE DEF u
  <1>6. n + 1 \in Nat /\ u.esp = s.dist + (n + 1)
    BY <1>1, <1>4, <1>5
  <1>7. Pushed(u, n + 1, L, K, V) /\ AllFree(u)
    BY <1>4, <1>5, <1>6, PushedLike
  <1> QED BY <1>2, <1>3, <1>5, <1>7, StaysRightTrans

LEMMA GenByRefSound ==
  ASSUME NEW s, NEW n, NEW L, NEW K, NEW V, Pushed(s, n, L, K, V), AllFree(s), NEW v \in Var
  PROVE  LET u == GenByRef(s, v)
         IN Pushed(u, n + 1, L, K, V) /\ AllFree(u) /\ StaysRight(s, u)
  <1> DEFINE u == Push(s, 1)
  <1>1. s \in Machine /\ n \in Nat /\ s.dist \in Nat /\ s.esp = s.dist + n
    BY PushedFacts
  <1>2. GenByRef(s, v) = u
    BY FreeIs, NameFacts DEF GenByRef, Store
  <1>3. u \in Machine /\ u.rec = s.rec /\ u.slot = s.slot /\ u.mem = s.mem /\ u.dist = s.dist
        /\ u.esp = s.esp + 1 /\ StaysRight(s, u)
    BY <1>1, PushIs
  <1> HIDE DEF u
  <1>4. n + 1 \in Nat /\ u.esp = s.dist + (n + 1)
    BY <1>1, <1>3
  <1>5. Pushed(u, n + 1, L, K, V) /\ AllFree(u)
    BY <1>3, <1>4, PushedLike
  <1> QED BY <1>2, <1>3, <1>5

LEMMA GenElemByRefSound ==
  ASSUME NEW s, NEW n, NEW L, NEW K, NEW V, Pushed(s, n, L, K, V), AllFree(s), NEW a \in K \cup {Imm}
  PROVE  LET u == GenElemByRef(s, a)
         IN Pushed(u, n + 1, L, K, V) /\ AllFree(u) /\ (NoAliases => StaysRight(s, u))
  <1> DEFINE t == IF a = Imm THEN ToReg(s, a, "edi") ELSE Release(ToReg(s, a, "edi"), "edi")
             w == SeeIn(t, a, "edi")
             u == Push(w, 1)
  <1>1. /\ s \in Machine /\ n \in Nat /\ s.dist \in Nat /\ s.esp = s.dist + n /\ (NoAliases => Values(s, K))
        /\ K \subseteq Var \cup L /\ L \subseteq Temp
        /\ \A o \in Var \cup L : s.slot[o] = 0 \/ s.slot[o] \in DOMAIN s.mem
    BY PushedFacts
  <1>2. "edi" \in Reg /\ a \in Operand /\ (a # Imm => s.slot[a] = 0 \/ s.slot[a] \in DOMAIN s.mem)
    BY <1>1 DEF Reg, Operand, Name
  <1>3. GenElemByRef(s, a) = u
    BY DEF GenElemByRef
  <1>4. /\ t \in Machine /\ t.rec = s.rec /\ t.slot = s.slot /\ t.mem = s.mem
        /\ t.dist = s.dist /\ t.esp = s.esp /\ StaysRight(s, t)
        /\ a # Imm /\ s.slot[a] # 0 => t.cpu["edi"] = s.mem[s.slot[a]]
    BY <1>1, <1>2, LoadReleaseIs
  <1> HIDE DEF t
  <1>5. NoAliases => a = Imm \/ t.cpu["edi"] = Tok(a)
    <2>1. a # Imm => a # Free
      BY <1>1, NameFacts
    <2> QED BY <1>1, <1>4, <2>1, FreeIs DEF Values
  <1>6. Alike(t, w) /\ (NoAliases => StaysRight(t, w))
    BY <1>2, <1>4, <1>5, SeeInIs
  <1> HIDE DEF w
  <1>7. w \in Machine /\ w.rec = s.rec /\ w.slot = s.slot /\ w.mem = s.mem /\ w.dist = s.dist /\ w.esp = s.esp
    BY <1>4, <1>6 DEF Alike
  <1>8. u \in Machine /\ u.rec = w.rec /\ u.slot = w.slot /\ u.mem = w.mem /\ u.dist = w.dist
        /\ u.esp = w.esp + 1 /\ StaysRight(w, u)
    BY <1>7, PushIs
  <1> HIDE DEF u
  <1>9. n + 1 \in Nat /\ u.esp = s.dist + (n + 1)
    BY <1>1, <1>7, <1>8
  <1>10. Pushed(u, n + 1, L, K, V) /\ AllFree(u)
    BY <1>7, <1>8, <1>9, PushedLike
  <1> QED BY <1>3, <1>4, <1>6, <1>8, <1>10, StaysRightTrans

LEMMA DefineIs ==
  ASSUME NEW s \in Machine, NEW r \in Reg, NEW n \in Name
  PROVE  LET u == Define(s, n, r)
         IN /\ u \in Machine /\ u.rec = s.rec /\ u.slot = s.slot /\ u.dist = s.dist /\ u.esp = s.esp
            /\ u.cpu = [Fade(s.cpu, {Tok(n)}) EXCEPT ![r] = Tok(n)]
            /\ u.mem = Fade(s.mem, {Tok(n)}) /\ StaysRight(s, u)
  <1> DEFINE cpu == [Fade(s.cpu, {Tok(n)}) EXCEPT ![r] = Tok(n)]
             mem == Fade(s.mem, {Tok(n)})
             t == [s EXCEPT !.cpu = cpu]
             u == [t EXCEPT !.mem = mem]
  <1>1. Define(s, n, r) = u
    BY DEF Define
  <1>2. cpu = [Fade(s.cpu, {Tok(n)}) EXCEPT ![r] = Tok(n)] /\ mem = Fade(s.mem, {Tok(n)})
    OBVIOUS
  <1>3. cpu \in [Reg -> Contents] /\ mem \in Memory
    BY FadeFacts, TokFacts DEF Machine
  <1> HIDE DEF cpu, mem
  <1>4. t \in Machine /\ t.rec = s.rec /\ t.slot = s.slot /\ t.dist = s.dist /\ t.esp = s.esp /\ t.cpu = cpu
    BY <1>3 DEF Machine
  <1>5. StaysRight(s, t)
    BY DEF Machine, StaysRight
  <1> HIDE DEF t
  <1>6. u \in Machine /\ u.rec = t.rec /\ u.slot = t.slot /\ u.dist = t.dist /\ u.esp = t.esp
        /\ u.cpu = cpu /\ u.mem = mem
    BY <1>3, <1>4 DEF Machine
  <1>7. StaysRight(t, u)
    BY <1>4 DEF Machine, StaysRight
  <1> HIDE DEF u
  <1> QED BY <1>1, <1>2, <1>4, <1>5, <1>6, <1>7, StaysRightTrans

\* The call, the result of the function in eax, and the arguments popped.
LEMMA GenCallSound ==
  ASSUME NEW s, NEW n, NEW L, NEW K, NEW V, Pushed(s, n, L, K, V), AllFree(s), NEW W \in SUBSET Var,
         NEW ret \in Temp \cup {Imm}, ret # Imm => s.slot[ret] = 0
  PROVE  LET u == GenCall(s, W, ret, n)
             R == {ret} \ {Imm}
         IN /\ Sound(u, L \cup R, K \cup R, V) /\ StaysRight(s, u) /\ Moves(s, u, R)
  <1> DEFINE p == CallOut(s, W)
             t == Pop(p, n)
  <1>1. s \in Machine /\ n \in Nat /\ s.dist \in Nat /\ s.esp = s.dist + n /\ Sound(Unpushed(s), L, K, V)
    BY PushedFacts DEF Pushed
  <1>2. /\ p \in Machine /\ p.rec = s.rec /\ p.slot = s.slot /\ p.dist = s.dist /\ p.esp = s.esp
        /\ StaysRight(s, p) /\ p.mem = CallOut(s, W).mem
    BY <1>1, CallOutIs
  <1>3. GenCall(s, W, ret, n) = Pop(IF ret = Imm THEN p ELSE Define(Remap(p, "eax", ret), ret, "eax"), n)
    BY DEF GenCall
  <1> HIDE DEF p
  <1>4. n <= p.esp /\ p.esp - n = s.dist
    BY <1>1, <1>2
  <1>5. t \in Machine /\ t.rec = s.rec /\ t.slot = s.slot /\ t.dist = s.dist
        /\ t.cpu = p.cpu /\ t.mem = p.mem /\ t.esp = s.dist /\ StaysRight(p, t)
    BY <1>1, <1>2, <1>4, PopIs
  <1>6. t = Pop(p, n)
    OBVIOUS
  <1> HIDE DEF t
  <1>7. Sound(t, L, K, V) /\ AllFree(t)
    <2> DEFINE s1 == Unpushed(s)
    <2>1. s1.rec = s.rec /\ s1.slot = s.slot /\ s1.dist = s.dist /\ s1.mem = s.mem /\ s1.esp = s.dist
      BY <1>1, UnpushedIs
    <2>2. Sound(s1, L, K, V)
      BY <1>1
    <2> HIDE DEF s1
    <2>3. AllFree(s1) /\ s.esp >= s1.dist
      BY <1>1, <2>1 DEF AllFree
    <2>4. Sound(t, L, K, V)
      BY <1>1, <1>2, <1>5, <2>1, <2>2, <2>3, CalledSound
    <2> QED BY <1>5, <2>4 DEF AllFree
  <1>8. CASE ret = Imm
    <2>1. GenCall(s, W, ret, n) = t /\ {ret} \ {Imm} = {}
      BY <1>3, <1>6, <1>8
    <2>2. L \cup {} = L /\ K \cup {} = K
      OBVIOUS
    <2>3. Moves(s, t, {}) /\ StaysRight(s, t)
      BY <1>2, <1>5, StaysRightTrans DEF Moves
    <2> QED BY <1>7, <2>1, <2>2, <2>3
  <1>9. CASE ret # Imm
    <2> DEFINE p1 == Remap(p, "eax", ret)
               p2 == Define(p1, ret, "eax")
               t1 == Remap(t, "eax", ret)
               t2 == Define(t1, ret, "eax")
               u == Pop(p2, n)
    <2>1. GenCall(s, W, ret, n) = u /\ {ret} \ {Imm} = {ret}
      BY <1>3, <1>9
    <2>2. "eax" \in Reg /\ ret \in Name /\ ret \in Temp /\ ret # Free
      BY <1>9, NameFacts DEF Reg, Name
    <2>3. Spill(p, "eax") = p /\ Spill(t, "eax") = t
      BY <1>2, <1>7, <2>2 DEF AllFree, Spill
    <2>4. Given(p, p1, "eax", ret) /\ StaysRight(p, p1) /\ p1.cpu = p.cpu
      BY <1>2, <2>2, <2>3, RemapIs
    <2>5. Given(t, t1, "eax", ret) /\ t1.cpu = t.cpu
      BY <1>5, <2>2, <2>3, RemapIs
    <2>6. ~Cached(t, ret) /\ Loadable(t, L, ret)
      BY <1>5, <1>7, <1>9, <2>2, FreeIs DEF Loadable
    <2>7. Sound(t2, L \cup {ret}, K \cup {ret}, V) /\ t2.rec = [t.rec EXCEPT !["eax"] = ret]
      BY <1>7, <2>2, <2>6, ClaimSound
    <2> HIDE DEF p1, t1
    <2>8. /\ p2 \in Machine /\ p2.rec = p1.rec /\ p2.slot = p1.slot /\ p2.dist = p1.dist /\ p2.esp = p1.esp
          /\ p2.cpu = [Fade(p1.cpu, {Tok(ret)}) EXCEPT !["eax"] = Tok(ret)]
          /\ p2.mem = Fade(p1.mem, {Tok(ret)}) /\ StaysRight(p1, p2)
      BY <2>2, <2>4, DefineIs DEF Given
    <2>9. /\ t2 \in Machine /\ t2.rec = t1.rec /\ t2.slot = t1.slot /\ t2.dist = t1.dist /\ t2.esp = t1.esp
          /\ t2.cpu = [Fade(t1.cpu, {Tok(ret)}) EXCEPT !["eax"] = Tok(ret)]
          /\ t2.mem = Fade(t1.mem, {Tok(ret)}) /\ StaysRight(t1, t2)
      BY <2>2, <2>5, DefineIs DEF Given
    <2> HIDE DEF p2, t2
    <2>10. p2.esp = s.esp /\ n <= p2.esp /\ p2.esp - n = s.dist
      BY <1>2, <1>4, <2>4, <2>8 DEF Given
    <2>11. u \in Machine /\ u.rec = p2.rec /\ u.slot = p2.slot /\ u.dist = p2.dist
           /\ u.cpu = p2.cpu /\ u.mem = p2.mem /\ u.esp = p2.esp - n /\ StaysRight(p2, u)
      BY <1>1, <2>8, <2>10, PopIs
    <2> HIDE DEF u
    <2>12. Alike(t2, u)
      <3>1. u.rec = t2.rec /\ u.slot = t2.slot /\ u.dist = t2.dist
        BY <1>2, <1>5, <2>4, <2>5, <2>8, <2>9, <2>11 DEF Given
      <3>2. u.cpu = t2.cpu /\ u.mem = t2.mem
        BY <1>2, <1>5, <2>4, <2>5, <2>8, <2>9, <2>11 DEF Given
      <3>3. u.esp = t2.esp
        BY <1>5, <2>5, <2>9, <2>10, <2>11 DEF Given
      <3> QED BY <2>11, <3>1, <3>2, <3>3 DEF Alike
    <2>13. Sound(u, L \cup {ret}, K \cup {ret}, V)
      BY <2>7, <2>12, AlikeSound
    <2>14. StaysRight(s, u)
      BY <1>2, <2>4, <2>8, <2>11, StaysRightTrans
    <2>15. Moves(s, u, {ret})
      <3>1. s.rec \in [Reg -> Name \cup {Free}] /\ u.rec = [s.rec EXCEPT !["eax"] = ret]
        BY <1>1, <1>2, <1>5, <2>7, <2>12 DEF Alike, Machine
      <3> QED BY <3>1 DEF Moves
    <2> QED BY <2>1, <2>13, <2>14, <2>15
  <1> QED BY <1>8, <1>9

-------------------------------------------------------------------------------
(* The ends of blocks.                                                     *)

\* goto
LEMMA GenGotoSound ==
  ASSUME NEW s, NEW L, NEW K, NEW V, Sound(s, L, K, V)
  PROVE  /\ Sound(GenGoto(s), {}, K \cap Var, K \cap Var) /\ AllFree(GenGoto(s))
         /\ StaysRight(s, GenGoto(s))
  <1> DEFINE s1 == SpillAll(s)
             u == Rewind(s1)
  <1>1. GenGoto(s) = u
    BY DEF GenGoto
  <1>2. Sound(s1, L, K, K \cap Var) /\ AllFree(s1) /\ StaysRight(s, s1)
    BY SpillAllSound
  <1> HIDE DEF s1
  <1>3. Sound(u, {}, K \cap Var, K \cap Var) /\ AllFree(u) /\ StaysRight(s1, u)
    BY <1>2, RewindSound
  <1> HIDE DEF u
  <1> QED BY <1>1, <1>2, <1>3, StaysRightTrans

\* A goto with nothing to spill leaves every value where it is.
LEMMA FreeGoto ==
  ASSUME NEW s \in Machine, s.esp = s.dist, AllFree(s), NEW K, Values(s, K)
  PROVE  Values(GenGoto(s), K)
  <1> DEFINE u == Rewind(s)
  <1>1. SpillAll(s) = s
    <2>1. \A r \in Reg : Spill(s, r) = s
      BY DEF AllFree, Spill
    <2> QED BY <2>1 DEF SpillAll, Reg
  <1>2. GenGoto(s) = u
    BY <1>1 DEF GenGoto
  <1>3. u.rec = s.rec /\ u.slot = s.slot /\ u.cpu = s.cpu /\ u.mem = s.mem
    BY RewindIs
  <1> HIDE DEF u
  <1> QED BY <1>2, <1>3 DEF Values, Cached

\* cmp a b
LEMMA GenCmpSound ==
  ASSUME NEW s, NEW L, NEW K, NEW V, Sound(s, L, K, V),
         NEW a \in Var \cup L \cup {Imm}, NEW b \in Var \cup L \cup {Imm}
  PROVE  LET u == GenCmp(s, a, b)
         IN /\ Sound(u, {}, K \cap Var, K \cap Var) /\ AllFree(u)
            /\ NoAliases /\ {a, b} \subseteq K \cup {Imm} => StaysRight(s, u)
            /\ NoAliases => Values(u, K)
  <1> DEFINE s0 == SpillAll(s)
             s1 == IF a = Imm THEN ToReg(s0, a, "esi") ELSE Release(ToReg(s0, a, "esi"), "esi")
             s2 == IF b = Imm THEN ToReg(s1, b, "edi") ELSE Release(ToReg(s1, b, "edi"), "edi")
             s3 == SeeIn(s2, a, "esi")
             s4 == SeeIn(s3, b, "edi")
             u == Rewind(s4)
  <1>1. GenCmp(s, a, b) = u
    BY DEF GenCmp
  <1>2. "esi" \in Reg /\ "edi" \in Reg /\ "esi" # "edi"
    BY DEF Reg
  <1>3. Sound(s0, L, K, K \cap Var) /\ AllFree(s0) /\ StaysRight(s, s0)
    BY SpillAllSound
  <1> HIDE DEF s0
  <1>4. /\ s0 \in Machine /\ L \subseteq Temp /\ (NoAliases => Values(s0, K))
        /\ \A o \in Var \cup L : s0.slot[o] = 0 \/ s0.slot[o] \in DOMAIN s0.mem
    BY <1>3, NameFacts DEF Sound, Good, Cells, Active
  <1>5. a \in Operand /\ b \in Operand
    BY <1>4 DEF Operand, Name
  <1>6. /\ s1 \in Machine /\ s1.rec = s0.rec /\ s1.slot = s0.slot /\ s1.mem = s0.mem
        /\ s1.dist = s0.dist /\ s1.esp = s0.esp /\ StaysRight(s0, s1)
        /\ a # Imm /\ s0.slot[a] # 0 => s1.cpu["esi"] = s0.mem[s0.slot[a]]
    BY <1>2, <1>3, <1>4, <1>5, LoadReleaseIs
  <1> HIDE DEF s1
  <1>7. AllFree(s1)
    BY <1>3, <1>6 DEF AllFree
  <1>8. /\ s2 \in Machine /\ s2.rec = s1.rec /\ s2.slot = s1.slot /\ s2.mem = s1.mem
        /\ s2.dist = s1.dist /\ s2.esp = s1.esp /\ StaysRight(s1, s2)
        /\ \A q \in Reg : q # "edi" => s2.cpu[q] = s1.cpu[q]
        /\ b # Imm /\ s1.slot[b] # 0 => s2.cpu["edi"] = s1.mem[s1.slot[b]]
    <2>1. b # Imm => s1.slot[b] = 0 \/ s1.slot[b] \in DOMAIN s1.mem
      BY <1>4, <1>6
    <2> QED BY <1>2, <1>5, <1>6, <1>7, <2>1, LoadReleaseIs
  <1> HIDE DEF s2
  <1>9. Sound(s2, L, K, K \cap Var) /\ AllFree(s2)
    <2>1. s2.rec = s0.rec /\ s2.slot = s0.slot /\ s2.mem = s0.mem /\ s2.dist = s0.dist /\ s2.esp = s0.esp
      BY <1>6, <1>8
    <2> QED BY <1>3, <1>8, <2>1, FreeCpuSound
  <1>10. ASSUME NoAliases, {a, b} \subseteq K \cup {Imm}
         PROVE  /\ a = Imm \/ s2.cpu["esi"] = Tok(a)
                /\ b = Imm \/ s2.cpu["edi"] = Tok(b)
    <2>1. \A o \in K : ~Cached(s0, o)
      BY <1>3, FreeIs, NameFacts DEF Sound
    <2>2. \A o \in K : s0.slot[o] # 0 /\ s0.mem[s0.slot[o]] = Tok(o)
      BY <1>4, <1>10, <2>1 DEF Values
    <2> QED BY <1>2, <1>6, <1>8, <1>10, <2>2
  <1>11. /\ Sound(s3, L, K, K \cap Var) /\ s3.rec = s2.rec /\ s3.cpu = s2.cpu
         /\ (a = Imm \/ s2.cpu["esi"] = Tok(a)) => StaysRight(s2, s3)
    BY <1>2, <1>9, SeeInSound DEF Alike
  <1> HIDE DEF s3
  <1>12. /\ Sound(s4, L, K, K \cap Var) /\ s4.rec = s3.rec
         /\ (b = Imm \/ s3.cpu["edi"] = Tok(b)) => StaysRight(s3, s4)
    BY <1>2, <1>11, SeeInSound DEF Alike
  <1> HIDE DEF s4
  <1>13. AllFree(s4)
    BY <1>9, <1>11, <1>12 DEF AllFree
  <1>14. /\ Sound(u, {}, K \cap Var, K \cap Var) /\ AllFree(u) /\ StaysRight(s4, u)
         /\ NoAliases => Values(u, K)
    BY <1>12, <1>13, RewindSound
  <1> HIDE DEF u
  <1>15. ASSUME NoAliases, {a, b} \subseteq K \cup {Imm} PROVE StaysRight(s, u)
    <2>1. StaysRight(s2, s3) /\ StaysRight(s3, s4)
      BY <1>10, <1>11, <1>12, <1>15
    <2>2. StaysRight(s, s2)
      BY <1>3, <1>6, <1>8, StaysRightTrans
    <2> QED BY <1>14, <2>1, <2>2, StaysRightTrans
  <1> QED BY <1>1, <1>14, <1>15

\* loadret
LEMMA GenLoadRetRight ==
  ASSUME NEW s, NEW L, NEW K, NEW V, Sound(s, L, K, V), NEW v \in K \cap Var
  PROVE  LET u == GenLoadRet(s, v)
         IN u.right \in BOOLEAN /\ (NoAliases => StaysRight(s, u))
  <1> DEFINE s1 == SpillAll(s)
             p == s1.right /\ s1.mem[s1.slot[v]] = Tok(v)
             u == [s1 EXCEPT !.right = p]
  <1>1. GenLoadRet(s, v) = u
    BY DEF GenLoadRet
  <1>2. Sound(s1, L, K, K \cap Var) /\ StaysRight(s, s1)
    BY SpillAllSound
  <1> HIDE DEF s1
  <1>3. s1 \in Machine /\ s1.slot[v] = Place[v] /\ Tok(v) = Place[v]
        /\ (NoAliases => s1.mem[Place[v]] = Place[v])
    BY <1>2, NameFacts DEF Sound, Good, VarMem
  <1>4. p \in BOOLEAN /\ (NoAliases /\ s1.right => p)
    BY <1>3
  <1> HIDE DEF p
  <1>5. u.right = p
    BY <1>3 DEF Machine
  <1> HIDE DEF u
  <1> QED BY <1>1, <1>2, <1>4, <1>5 DEF StaysRight

-------------------------------------------------------------------------------
(* The temporaries still to be read.                                       *)

Distinct(stack) == \A i, j \in 1..Len(stack) : stack[i] = stack[j] => i = j

LEMMA LiveTyped ==
  ASSUME NEW stack \in Seq(Temp)
  PROVE  Live(stack) \subseteq Temp
  BY DEF Live

LEMMA EmptyLive ==
  <<>> \in Seq(Temp) /\ Live(<<>>) = {} /\ Distinct(<<>>)
  BY DEF Live, Distinct

LEMMA TakeFacts ==
  ASSUME NEW stack \in Seq(Temp), Distinct(stack), NEW o \in Top(stack)
  PROVE  /\ o \in Var \cup Live(stack) \cup {Imm}
         /\ Take(stack, o) \in Seq(Temp) /\ Distinct(Take(stack, o))
         /\ Live(Take(stack, o)) \subseteq Live(stack)
         /\ o \notin Live(Take(stack, o))
  <1> DEFINE n == Len(stack)
             rest == SubSeq(stack, 1, n - 1)
  <1>1. n \in Nat /\ \A i \in 1..n : stack[i] \in Temp
    OBVIOUS
  <1>2. CASE o \notin Temp
    <2>1. Take(stack, o) = stack
      BY <1>2 DEF Take
    <2>2. o \notin Live(stack)
      BY <1>2, LiveTyped
    <2>3. stack # <<>> => stack[n] \in Temp
      BY <1>1
    <2> QED BY <1>2, <2>1, <2>2, <2>3 DEF Top
  <1>3. CASE o \in Temp
    <2>1. stack # <<>> /\ o = stack[n] /\ n \in 1..n
      <3>1. o \notin Var /\ o # Imm
        BY <1>3, NameFacts
      <3>2. stack # <<>> /\ o = stack[n]
        BY <3>1 DEF Top
      <3> QED BY <1>1, <3>2
    <2>2. Take(stack, o) = rest
      BY <1>3 DEF Take
    <2>3. rest \in Seq(Temp) /\ Len(rest) = n - 1 /\ \A i \in 1..n - 1 : rest[i] = stack[i]
      <3>1. 1 \in Int /\ n - 1 \in Int /\ \A i \in 1..n - 1 : stack[i] \in Temp
        BY <1>1
      <3>2. /\ rest \in Seq(Temp) /\ Len(rest) = IF 1 <= n - 1 THEN n - 1 - 1 + 1 ELSE 0
            /\ \A i \in 1..n - 1 - 1 + 1 : rest[i] = stack[1 + i - 1]
        BY <3>1, SubSeqProperties
      <3> HIDE DEF rest, n
      <3>3. n \in Nat /\ n >= 1
        BY <1>1, <2>1
      <3>4. ASSUME NEW i \in 1..n - 1 PROVE rest[i] = stack[i]
        <4>1. i \in 1..n - 1 - 1 + 1 /\ 1 + i - 1 = i
          BY <3>3
        <4> QED BY <3>2, <4>1
      <3> QED BY <3>2, <3>3, <3>4
    <2> HIDE DEF rest
    <2>4. Distinct(rest)
      BY <1>1, <2>3 DEF Distinct
    <2>5. Live(rest) \subseteq Live(stack)
      BY <1>1, <2>3 DEF Live
    <2>6. o \notin Live(rest)
      BY <1>1, <2>1, <2>3 DEF Live, Distinct
    <2>7. o \in Live(stack)
      BY <2>1 DEF Live
    <2> QED BY <2>2, <2>3, <2>4, <2>5, <2>6, <2>7
  <1> QED BY <1>2, <1>3

LEMMA AppendFacts ==
  ASSUME NEW stack \in Seq(Temp), Distinct(stack), NEW d \in Temp, d \notin Live(stack)
  PROVE  /\ Append(stack, d) \in Seq(Temp) /\ Distinct(Append(stack, d))
         /\ Live(Append(stack, d)) = Live(stack) \cup {d}
  <1> DEFINE n == Len(stack)
             u == Append(stack, d)
  <1>1. /\ u \in Seq(Temp) /\ Len(u) = n + 1 /\ n \in Nat
        /\ \A i \in 1..n : u[i] = stack[i]
        /\ u[n + 1] = d
    BY AppendProperties
  <1>2. \A i \in 1..n : stack[i] # d
    BY DEF Live
  <1> HIDE DEF u
  <1>3. \A i \in 1..n + 1 : i \in 1..n \/ i = n + 1
    BY <1>1
  <1>4. Distinct(u)
    BY <1>1, <1>2, <1>3 DEF Distinct
  <1>5. Live(u) = Live(stack) \cup {d}
    <2>1. Live(u) \subseteq Live(stack) \cup {d}
      BY <1>1, <1>3 DEF Live
    <2>2. ASSUME NEW i \in 1..n PROVE stack[i] \in Live(u)
      <3>1. i \in 1..n + 1 /\ u[i] = stack[i]
        BY <1>1
      <3> QED BY <1>1, <3>1 DEF Live
    <2>3. d \in Live(u)
      <3>1. n + 1 \in 1..n + 1
        BY <1>1
      <3> QED BY <1>1, <3>1 DEF Live
    <2> QED BY <2>1, <2>2, <2>3 DEF Live
  <1> QED BY <1>1, <1>4, <1>5 DEF u

-------------------------------------------------------------------------------
(* The inductive invariant.                                                *)

\* No copy of a bound is lost and no value is read where there is none.
Straight == NoAliases /\ ~SelfAssign /\ ~ComputedBounds

Waiting == IF args = NoCall THEN 0 ELSE args

\* A temporary products accumulate in is in no register but theirs.
InProducts(s, products) == \A t \in products, r \in Reg : s.rec[r] = t => r \in {"eax", "edx"}

IInv ==
    /\ Pushed(m, Waiting, Live(avail), Var \cup Live(avail), Var)
    /\ args \in {NoCall} \cup 0..MaxArgs
    /\ args # NoCall => AllFree(m)
    /\ avail \in Seq(Temp) /\ Distinct(avail)
    /\ mul \subseteq Live(avail)
    /\ bounds \subseteq Temp \ Live(avail)
    /\ ~ComputedBounds => bounds = {}
    /\ NoneOwned(m, Live(avail) \cup bounds)
    /\ InProducts(m, mul)
    /\ Straight => m.right

LEMMA SettlePushed ==
  ASSUME NEW s, NEW n, NEW L, NEW K, NEW V, Pushed(s, n, L, K, V),
         NEW live, NEW L2, L2 \subseteq L, L2 \subseteq live,
         NEW K2, K2 \subseteq K, K2 \subseteq Var \cup L2, NEW V2, V2 \subseteq V \cap K2
  PROVE  LET u == Settle(s, live)
         IN Pushed(u, n, L2, K2, V2) /\ StaysRight(s, u) /\ u.rec = s.rec /\ NoneOwned(u, live)
  <1> DEFINE s1 == Unpushed(s)
             u1 == Settle(s1, live)
             u == Settle(s, live)
             v == Unpushed(u)
  <1>1. s \in Machine /\ n \in Nat /\ s.esp = s.dist + n /\ Sound(s1, L, K, V)
    BY DEF Pushed
  <1>2. s1 \in Machine /\ s1.rec = s.rec /\ s1.slot = s.slot /\ s1.dist = s.dist
        /\ s1.cpu = s.cpu /\ s1.mem = s.mem /\ s1.esp = s.dist
    BY <1>1, UnpushedIs
  <1> HIDE DEF s1
  <1>3. Sound(u1, L2, K2, V2) /\ NoneOwned(u1, live)
    BY <1>1, SettleSound
  <1>4. Forgotten(s, live) = Forgotten(s1, live)
    BY <1>2 DEF Forgotten, Cached
  <1>5. /\ u \in Machine /\ u.rec = s.rec /\ u.dist = s.dist /\ u.esp = s.esp /\ StaysRight(s, u)
        /\ u.mem = Fade(s.mem, Forgotten(s, live))
        /\ u.cpu = [r \in Reg |-> IF s.rec[r] = Free THEN Junk ELSE s.cpu[r]]
        /\ u.slot = [k \in Name |-> IF k \in Forgotten(s, live) THEN 0 ELSE s.slot[k]]
    BY <1>1, SettleIs
  <1>6. /\ u1.rec = s1.rec /\ u1.dist = s1.dist /\ u1.esp = s1.esp
        /\ u1.mem = Fade(s1.mem, Forgotten(s1, live))
        /\ u1.cpu = [r \in Reg |-> IF s1.rec[r] = Free THEN Junk ELSE s1.cpu[r]]
        /\ u1.slot = [k \in Name |-> IF k \in Forgotten(s1, live) THEN 0 ELSE s1.slot[k]]
    BY <1>2, SettleIs
  <1> HIDE DEF u, u1
  <1>7. v \in Machine /\ v.rec = u.rec /\ v.slot = u.slot /\ v.dist = u.dist
        /\ v.cpu = u.cpu /\ v.mem = u.mem /\ v.esp = u.dist
    BY <1>5, UnpushedIs
  <1> HIDE DEF v
  <1>8. u.rec = u1.rec /\ u.slot = u1.slot /\ u.cpu = u1.cpu /\ u.mem = u1.mem /\ u.dist = u1.dist
    BY <1>2, <1>4, <1>5, <1>6
  <1>9. Alike(u1, v)
    BY <1>2, <1>6, <1>7, <1>8 DEF Alike
  <1>10. Sound(v, L2, K2, V2)
    BY <1>3, <1>9, AlikeSound
  <1>11. Pushed(u, n, L2, K2, V2)
    BY <1>1, <1>5, <1>10 DEF Pushed, v
  <1>12. NoneOwned(u, live)
    BY <1>3, <1>8 DEF NoneOwned, Cached
  <1> QED BY <1>5, <1>11, <1>12 DEF u

\* A quadruple that leaves what it should: the invariant holds after it.
LEMMA QuadKeeps ==
  ASSUME IInv, NEW s, NEW stack, NEW products, Quad(s, stack, products),
         NEW L, NEW K, NEW V, NEW n, Pushed(s, n, L, K, V),
         Live(stack) \subseteq L, Var \cup Live(stack) \subseteq K, Var \subseteq V,
         stack \in Seq(Temp), Distinct(stack), Live(stack) \cap bounds = {},
         args' \in {NoCall} \cup 0..MaxArgs, n = Waiting', args' # NoCall => AllFree(s),
         InProducts(s, products \cap Live(stack)),
         Straight => StaysRight(m, s)
  PROVE  IInv'
  <1> DEFINE live == Live(stack) \cup bounds
             u == Settle(s, live)
  <1>1. m' = u /\ avail' = stack /\ mul' = products \cap Live(stack) /\ bounds' = bounds
    BY DEF Quad
  <1>2. bounds \subseteq Temp \ Live(avail) /\ (~ComputedBounds => bounds = {}) /\ (Straight => m.right)
    BY DEF IInv
  <1>3. /\ Pushed(u, n, Live(stack), Var \cup Live(stack), Var) /\ StaysRight(s, u)
        /\ u.rec = s.rec /\ NoneOwned(u, live)
    <2> DEFINE L2 == Live(stack)
               K2 == Var \cup L2
    <2>1. /\ L2 \subseteq L /\ L2 \subseteq live
          /\ K2 \subseteq K /\ K2 \subseteq Var \cup L2 /\ Var \subseteq V \cap K2
      OBVIOUS
    <2>2. Pushed(s, n, L, K, V)
      OBVIOUS
    <2> HIDE DEF live, L2, K2
    <2>3. /\ Pushed(u, n, L2, K2, Var) /\ StaysRight(s, u)
          /\ u.rec = s.rec /\ NoneOwned(u, live)
      <3>1. Pushed(u, n, L2, K2, Var)
        BY ONLY <2>1, <2>2, SettlePushed
      <3> QED BY ONLY <2>1, <2>2, <3>1, SettlePushed
    <2> QED BY <2>3 DEF L2, K2
  <1> HIDE DEF u
  <1>4. /\ args' # NoCall => AllFree(u)
        /\ InProducts(u, products \cap Live(stack))
    BY <1>3 DEF AllFree, InProducts
  <1>5. Straight => u.right
    BY <1>2, <1>3 DEF StaysRight
  <1>6. bounds \subseteq Temp \ Live(stack)
    BY <1>2
  <1> QED BY <1>1, <1>2, <1>3, <1>4, <1>5, <1>6 DEF IInv

\* The end of a block that leaves what it should.
LEMMA BlockKeeps ==
  ASSUME IInv, NEW s, NEW ends, NewBlock(s, ends), args' = args, args = NoCall,
         NEW L, NEW K, NEW V, Sound(s, L, K, V), Var \subseteq V, AllFree(s),
         ends \subseteq Temp, ~ComputedBounds => ends = {},
         Straight => StaysRight(m, s)
  PROVE  IInv'
  <1> DEFINE u == Settle(s, ends)
  <1>1. m' = u /\ avail' = <<>> /\ mul' = {} /\ bounds' = ends
    BY DEF NewBlock
  <1>2. args \in {NoCall} \cup 0..MaxArgs /\ (Straight => m.right) /\ Waiting' = 0
    BY DEF IInv, Waiting
  <1>3. Pushed(u, 0, {}, Var, Var) /\ StaysRight(s, u) /\ NoneOwned(u, ends)
    <2>1. Pushed(s, 0, L, K, V)
      BY NothingPushed
    <2>2. Var \subseteq K /\ Var \subseteq V \cap Var /\ Var \subseteq Var \cup {} /\ {} \subseteq L /\ {} \subseteq ends
      BY DEF Sound
    <2> QED BY <2>1, <2>2, SettlePushed
  <1> HIDE DEF u
  <1>4. Straight => u.right
    BY <1>2, <1>3 DEF StaysRight
  <1>5. /\ {} \cup ends = ends /\ Var \cup {} = Var
        /\ InProducts(u, {})
    BY DEF InProducts
  <1> QED BY <1>1, <1>2, <1>3, <1>4, <1>5, EmptyLive DEF IInv

\* Between two quadruples that are not those of a call.
LEMMA IdleSound ==
  ASSUME IInv, Idle
  PROVE  /\ Sound(m, Live(avail), Var \cup Live(avail), Var)
         /\ m \in Machine /\ args = NoCall /\ args' = NoCall /\ Waiting' = 0
         /\ args' \in {NoCall} \cup 0..MaxArgs
         /\ avail \in Seq(Temp) /\ Distinct(avail) /\ Live(avail) \subseteq Temp
         /\ mul \subseteq Live(avail) /\ Live(avail) \cap bounds = {} /\ bounds \subseteq Temp
         /\ InProducts(m, mul)
  <1>1. args = NoCall /\ args' = NoCall /\ Waiting = 0 /\ Waiting' = 0
    BY DEF Idle, Waiting
  <1>2. Pushed(m, Waiting, Live(avail), Var \cup Live(avail), Var) /\ avail \in Seq(Temp)
    BY DEF IInv
  <1>3. Sound(m, Live(avail), Var \cup Live(avail), Var) /\ m \in Machine
    BY <1>1, <1>2, NothingPushed DEF Pushed
  <1> QED BY <1>1, <1>2, <1>3, LiveTyped DEF IInv

\* A new temporary: nothing stands for it.
LEMMA FreshIs ==
  ASSUME IInv, Unused # {}
  PROVE  /\ Fresh \in Temp /\ Fresh \notin Live(avail) /\ Fresh \notin bounds
         /\ ~Cached(m, Fresh) /\ m.slot[Fresh] = 0
  <1>1. Fresh \in Unused
    BY DEF Fresh
  <1>2. Fresh \in Temp \ (Live(avail) \cup bounds) /\ ~Cached(m, Fresh)
    BY <1>1 DEF Unused
  <1> QED BY <1>2 DEF IInv, NoneOwned

LEMMA VictimsAreRegisters ==
  Victims \subseteq Reg
  BY DEF Victims, Reg

\* What registers had a product have it still.
LEMMA MovedProducts ==
  ASSUME NEW s, NEW u, NEW N, Moves(s, u, N), NEW P, InProducts(s, P),
         NEW Q, Q \subseteq P \ N, Free \notin Q
  PROVE  InProducts(u, Q)
  BY DEF Moves, InProducts

-------------------------------------------------------------------------------
(* One lemma for each action.                                              *)

LEMMA LoadElemKeeps ==
  ASSUME IInv, NEW byRef \in BOOLEAN, LoadElem(byRef)
  PROVE  IInv'
  <1> DEFINE L == Live(avail)
             d == Fresh
  <1>1. Idle /\ Unused # {}
    BY DEF LoadElem
  <1>2. PICK i \in Top(avail) :
          Quad(GenLoadElem(m, d, i),
               IF byRef THEN avail ELSE Append(Take(avail, i), d), mul \ {i})
    BY DEF LoadElem
  <1>3. /\ Sound(m, L, Var \cup L, Var) /\ args' = NoCall /\ Waiting' = 0
        /\ args' \in {NoCall} \cup 0..MaxArgs
        /\ avail \in Seq(Temp) /\ Distinct(avail) /\ L \subseteq Temp
        /\ mul \subseteq L /\ L \cap bounds = {} /\ InProducts(m, mul)
    BY <1>1, IdleSound
  <1>4. d \in Temp /\ d \notin L /\ d \notin bounds /\ ~Cached(m, d) /\ m.slot[d] = 0
    BY <1>1, FreshIs
  <1> DEFINE u == GenLoadElem(m, d, i)
             stack == IF byRef THEN avail ELSE Append(Take(avail, i), d)
             products == mul \ {i}
  <1>5. Quad(u, stack, products)
    BY <1>2
  <1> HIDE DEF d
  <1>6. /\ i \in Var \cup L \cup {Imm} /\ Take(avail, i) \in Seq(Temp) /\ Distinct(Take(avail, i))
        /\ Live(Take(avail, i)) \subseteq L
    BY <1>3, TakeFacts
  <1>7. stack \in Seq(Temp) /\ Distinct(stack) /\ Live(stack) \subseteq L \cup {d}
    BY <1>3, <1>4, <1>6, AppendFacts
  <1> HIDE DEF stack
  <1>8. /\ Sound(u, L \cup {d}, (Var \cup L) \cup {d}, Var)
        /\ NoAliases /\ i \in (Var \cup L) \cup {Imm} => StaysRight(m, u)
        /\ Moves(m, u, {d, i})
    BY <1>3, <1>4, <1>6, GenLoadElemSound
  <1> HIDE DEF u
  <1>9. InProducts(u, products \cap Live(stack))
    <2>1. products \cap Live(stack) \subseteq mul \ {d, i} /\ Free \notin products \cap Live(stack)
      BY <1>3, <1>4, NameFacts
    <2> QED BY <1>3, <1>8, <2>1, MovedProducts
  <1>10. Pushed(u, 0, L \cup {d}, (Var \cup L) \cup {d}, Var)
    BY <1>8, NothingPushed
  <1>11. Var \cup Live(stack) \subseteq (Var \cup L) \cup {d} /\ Live(stack) \cap bounds = {} /\ Var \subseteq Var
    BY <1>3, <1>4, <1>7
  <1>12. Straight => StaysRight(m, u)
    BY <1>6, <1>8 DEF Straight
  <1> HIDE DEF products, L
  <1> QED BY <1>3, <1>5, <1>7, <1>9, <1>10, <1>11, <1>12, QuadKeeps

LEMMA OperandsOf ==
  ASSUME avail \in Seq(Temp), Distinct(avail), NEW b \in Top(avail), NEW a \in Top(Take(avail, b))
  PROVE  LET rest == Take(Take(avail, b), a)
         IN /\ a \in Var \cup Live(avail) \cup {Imm} /\ b \in Var \cup Live(avail) \cup {Imm}
            /\ rest \in Seq(Temp) /\ Distinct(rest) /\ Live(rest) \subseteq Live(avail)
            /\ a \notin Live(rest) /\ b \notin Live(rest)
            /\ a \in Temp => a # b
  <1>1. /\ b \in Var \cup Live(avail) \cup {Imm} /\ Take(avail, b) \in Seq(Temp)
        /\ Distinct(Take(avail, b)) /\ Live(Take(avail, b)) \subseteq Live(avail)
        /\ b \notin Live(Take(avail, b))
    BY TakeFacts
  <1>2. /\ a \in Var \cup Live(Take(avail, b)) \cup {Imm} /\ Take(Take(avail, b), a) \in Seq(Temp)
        /\ Distinct(Take(Take(avail, b), a))
        /\ Live(Take(Take(avail, b), a)) \subseteq Live(Take(avail, b))
        /\ a \notin Live(Take(Take(avail, b), a))
    BY <1>1, TakeFacts
  <1>3. a \in Temp => a # b
    BY <1>1, <1>2, NameFacts
  <1> QED BY <1>1, <1>2, <1>3

\* A destination: a new temporary, or the first operand.
LEMMA DestinationIs ==
  ASSUME IInv, NEW a, NEW acc, NEW d \in Destinations(a, acc)
  PROVE  \/ /\ d \in Temp /\ d \notin Live(avail) /\ d \notin bounds
            /\ ~Cached(m, d) /\ m.slot[d] = 0
         \/ d = a /\ a \in acc
  BY FreshIs DEF Destinations

LEMMA AddSubKeeps ==
  ASSUME IInv, NEW op, AddSub(op)
  PROVE  IInv'
  <1> DEFINE L == Live(avail)
  <1>1. Idle
    BY DEF AddSub
  <1>0. PICK b \in Top(avail) : \E a \in Top(Take(avail, b)) :
          \E d \in Destinations(a, Temp), victim \in Victims :
            Quad(GenAddSub(m, op, d, a, b, victim), Append(Take(Take(avail, b), a), d), mul \ {d})
    BY DEF AddSub
  <1>a. PICK a \in Top(Take(avail, b)) :
          \E d \in Destinations(a, Temp), victim \in Victims :
            Quad(GenAddSub(m, op, d, a, b, victim), Append(Take(Take(avail, b), a), d), mul \ {d})
    BY <1>0
  <1>2. PICK d \in Destinations(a, Temp), victim \in Victims :
          Quad(GenAddSub(m, op, d, a, b, victim), Append(Take(Take(avail, b), a), d), mul \ {d})
    BY <1>a
  <1>3. /\ Sound(m, L, Var \cup L, Var) /\ args' = NoCall /\ Waiting' = 0
        /\ args' \in {NoCall} \cup 0..MaxArgs
        /\ avail \in Seq(Temp) /\ Distinct(avail) /\ L \subseteq Temp
        /\ mul \subseteq L /\ L \cap bounds = {} /\ InProducts(m, mul)
    BY <1>1, IdleSound
  <1> DEFINE rest == Take(Take(avail, b), a)
             u == GenAddSub(m, op, d, a, b, victim)
             stack == Append(rest, d)
             products == mul \ {d}
  <1>4. /\ a \in Var \cup L \cup {Imm} /\ b \in Var \cup L \cup {Imm}
        /\ rest \in Seq(Temp) /\ Distinct(rest) /\ Live(rest) \subseteq L
        /\ a \notin Live(rest) /\ b \notin Live(rest)
    BY <1>3, OperandsOf
  <1>5. /\ d \in Temp /\ d \notin Live(rest) /\ d \notin bounds
        /\ d \in L \/ (~Cached(m, d) /\ m.slot[d] = 0)
    <2>1. CASE d = a /\ a \in Temp
      BY <1>3, <1>4, <2>1, NameFacts
    <2>2. CASE ~(d = a /\ a \in Temp)
      BY <1>4, <2>2, DestinationIs
    <2> QED BY <2>1, <2>2
  <1>6. Quad(u, stack, products)
    BY <1>2
  <1> HIDE DEF rest
  <1>7. stack \in Seq(Temp) /\ Distinct(stack) /\ Live(stack) = Live(rest) \cup {d}
    BY <1>4, <1>5, AppendFacts
  <1> HIDE DEF stack
  <1>8. /\ Sound(u, L \cup {d}, (Var \cup L) \cup {d}, Var)
        /\ NoAliases => StaysRight(m, u)
        /\ Moves(m, u, {d})
    <2>1. d \in Name /\ Loadable(m, L, d) /\ victim \in Reg /\ {d} \cap Temp = {d} /\ Var \ {d} = Var
      BY <1>5, VictimsAreRegisters, NameFacts DEF Name, Loadable
    <2>2. /\ Sound(u, L \cup ({d} \cap Temp), (Var \cup L) \cup {d}, Var \ {d})
          /\ NoAliases /\ {a, b} \subseteq (Var \cup L) \cup {Imm} => StaysRight(m, u)
          /\ Moves(m, u, {d})
      BY <1>3, <2>1, GenAddSubSound
    <2> HIDE DEF u
    <2> QED BY <1>4, <2>1, <2>2
  <1> HIDE DEF u
  <1>9. InProducts(u, products \cap Live(stack))
    <2>1. products \cap Live(stack) \subseteq mul \ {d} /\ Free \notin products \cap Live(stack)
      BY <1>3, NameFacts
    <2> QED BY <1>3, <1>8, <2>1, MovedProducts
  <1>10. Pushed(u, 0, L \cup {d}, (Var \cup L) \cup {d}, Var)
    BY <1>8, NothingPushed
  <1>11. Live(stack) \subseteq L \cup {d} /\ Var \cup Live(stack) \subseteq (Var \cup L) \cup {d}
         /\ Live(stack) \cap bounds = {} /\ Var \subseteq Var
    BY <1>3, <1>4, <1>5, <1>7
  <1>12. Straight => StaysRight(m, u)
    BY <1>8 DEF Straight
  <1> HIDE DEF products, L
  <1> QED BY <1>3, <1>6, <1>7, <1>9, <1>10, <1>11, <1>12, QuadKeeps

LEMMA MulDivModKeeps ==
  ASSUME IInv, NEW op \in {"*", "/", "%"}, MulDivMod(op)
  PROVE  IInv'
  <1> DEFINE L == Live(avail)
             G(d, a, b) == CASE op = "*" -> GenMul(m, d, a, b)
                             [] op = "/" -> GenDivMod(m, d, a, b, "eax")
                             [] op = "%" -> GenDivMod(m, d, a, b, "edx")
  <1>1. Idle
    BY DEF MulDivMod
  <1>0. PICK b \in Top(avail) : \E a \in Top(Take(avail, b)) : \E d \in Destinations(a, mul) :
          Quad(G(d, a, b), Append(Take(Take(avail, b), a), d), mul \cup {d})
    BY DEF MulDivMod
  <1>a. PICK a \in Top(Take(avail, b)) : \E d \in Destinations(a, mul) :
          Quad(G(d, a, b), Append(Take(Take(avail, b), a), d), mul \cup {d})
    BY <1>0
  <1>2. PICK d \in Destinations(a, mul) :
          Quad(G(d, a, b), Append(Take(Take(avail, b), a), d), mul \cup {d})
    BY <1>a
  <1>3. /\ Sound(m, L, Var \cup L, Var) /\ args' = NoCall /\ Waiting' = 0
        /\ args' \in {NoCall} \cup 0..MaxArgs
        /\ avail \in Seq(Temp) /\ Distinct(avail) /\ L \subseteq Temp
        /\ mul \subseteq L /\ L \cap bounds = {} /\ InProducts(m, mul)
    BY <1>1, IdleSound
  <1> DEFINE rest == Take(Take(avail, b), a)
             u == G(d, a, b)
             stack == Append(rest, d)
             products == mul \cup {d}
  <1>4. /\ a \in Var \cup L \cup {Imm} /\ b \in Var \cup L \cup {Imm}
        /\ rest \in Seq(Temp) /\ Distinct(rest) /\ Live(rest) \subseteq L
        /\ a \notin Live(rest) /\ b \notin Live(rest)
        /\ (a \in Temp => a # b)
    BY <1>3, OperandsOf
  <1>5. /\ d \in Temp /\ d \notin Live(rest) /\ d \notin bounds /\ Product(m, L, d) /\ b # d
    <2>1. CASE d = a /\ a \in mul
      BY <1>3, <1>4, <2>1, NameFacts DEF Product, InProducts
    <2>2. CASE ~(d = a /\ a \in mul)
      <3>1. d \in Temp /\ d \notin L /\ d \notin bounds /\ ~Cached(m, d) /\ m.slot[d] = 0
        BY <2>2, DestinationIs
      <3>2. Product(m, L, d)
        BY <3>1 DEF Product, Cached
      <3> QED BY <1>4, <3>1, <3>2, NameFacts
    <2> QED BY <2>1, <2>2
  <1>6. Quad(u, stack, products)
    BY <1>2
  <1> HIDE DEF rest
  <1>7. stack \in Seq(Temp) /\ Distinct(stack) /\ Live(stack) = Live(rest) \cup {d}
    BY <1>4, <1>5, AppendFacts
  <1> HIDE DEF stack
  <1>8. /\ Sound(u, L \cup {d}, (Var \cup L) \cup {d}, Var)
        /\ NoAliases => StaysRight(m, u)
        /\ Moves(m, u, {d, b})
        /\ u.rec["eax"] = d \/ u.rec["edx"] = d
    <2>1. {a, b} \subseteq (Var \cup L) \cup {Imm}
      BY <1>4
    <2>2. CASE op = "*"
      <3> DEFINE w == GenMul(m, d, a, b)
      <3>1. u = w
        BY <2>2
      <3> HIDE DEF u
      <3>2. /\ Sound(w, L \cup {d}, (Var \cup L) \cup {d}, Var)
            /\ NoAliases /\ {a, b} \subseteq (Var \cup L) \cup {Imm} => StaysRight(m, w)
            /\ w.rec["eax"] = d /\ Moves(m, w, {d})
        BY <1>3, <1>5, GenMulSound
      <3> HIDE DEF w
      <3>3. Moves(m, w, {d, b})
        BY <3>2 DEF Moves
      <3> QED BY <2>1, <3>1, <3>2, <3>3
    <2>3. ASSUME NEW result \in {"eax", "edx"}, u = GenDivMod(m, d, a, b, result)
          PROVE  /\ Sound(u, L \cup {d}, (Var \cup L) \cup {d}, Var)
                 /\ NoAliases => StaysRight(m, u)
                 /\ Moves(m, u, {d, b})
                 /\ u.rec["eax"] = d \/ u.rec["edx"] = d
      <3> DEFINE w == GenDivMod(m, d, a, b, result)
      <3>1. u = w
        BY <2>3
      <3> HIDE DEF u
      <3>2. /\ Sound(w, L \cup {d}, (Var \cup L) \cup {d}, Var)
            /\ NoAliases /\ {a, b} \subseteq (Var \cup L) \cup {Imm} => StaysRight(m, w)
            /\ HeldIn(w, result, d) /\ Moves(m, w, {d, b})
        <4>1. Sound(m, L, Var \cup L, Var) /\ d \in Temp /\ Product(m, L, d) /\ b # d
              /\ b \in Var \cup L \cup {Imm}
          BY <1>3, <1>4, <1>5
        <4> HIDE DEF L
        <4>2. Sound(w, L \cup {d}, (Var \cup L) \cup {d}, Var)
          BY <4>1, GenDivModSound
        <4>3. Moves(m, w, {d, b})
          BY <4>1, <4>2, GenDivModSound
        <4>4. HeldIn(w, result, d)
          BY <4>1, <4>2, <4>3, GenDivModSound
        <4>5. NoAliases /\ {a, b} \subseteq (Var \cup L) \cup {Imm} => StaysRight(m, w)
          BY <4>1, <4>2, GenDivModSound
        <4> QED BY <4>2, <4>3, <4>4, <4>5
      <3> HIDE DEF w
      <3> QED BY <2>1, <3>1, <3>2 DEF HeldIn
    <2>4. CASE op = "/"
      BY <2>3, <2>4
    <2>5. CASE op = "%"
      BY <2>3, <2>5
    <2> QED BY <2>2, <2>4, <2>5
  <1> HIDE DEF u
  <1>9. InProducts(u, products \cap Live(stack))
    <2>1. Free \notin mul /\ d # Free
      BY <1>3, <1>5, NameFacts
    <2>2. InProducts(u, {d})
      <3>1. OneRegister(u) /\ "eax" \in Reg /\ "edx" \in Reg
        BY <1>8 DEF Sound, Good, Reg
      <3> QED BY <1>8, <2>1, <3>1 DEF InProducts, OneRegister
    <2>4. InProducts(u, mul \ {d, b})
      BY <1>3, <1>8, <2>1, MovedProducts
    <2>5. products \cap Live(stack) \subseteq (mul \ {d, b}) \cup {d}
      BY <1>4, <1>7
    <2> QED BY <2>2, <2>4, <2>5 DEF InProducts
  <1>10. Pushed(u, 0, L \cup {d}, (Var \cup L) \cup {d}, Var)
    BY <1>8, NothingPushed
  <1>11. Live(stack) \subseteq L \cup {d} /\ Var \cup Live(stack) \subseteq (Var \cup L) \cup {d}
         /\ Live(stack) \cap bounds = {} /\ Var \subseteq Var
    BY <1>3, <1>4, <1>5, <1>7
  <1>12. Straight => StaysRight(m, u)
    BY <1>8 DEF Straight
  <1> HIDE DEF products, L
  <1> QED BY <1>3, <1>6, <1>7, <1>9, <1>10, <1>11, <1>12, QuadKeeps

\* Before a call nothing is pushed; during one every register is free.
LEMMA NoCallSound ==
  ASSUME IInv, args = NoCall
  PROVE  Sound(m, Live(avail), Var \cup Live(avail), Var)
  BY NothingPushed DEF IInv, Waiting

LEMMA FreeProducts ==
  ASSUME NEW s, AllFree(s), NEW P \in SUBSET Temp
  PROVE  InProducts(s, P)
  BY NameFacts DEF AllFree, InProducts

LEMMA StackFacts ==
  ASSUME IInv
  PROVE  /\ avail \in Seq(Temp) /\ Distinct(avail) /\ Live(avail) \subseteq Temp
         /\ mul \subseteq Live(avail) /\ mul \subseteq Temp
         /\ Live(avail) \cap bounds = {} /\ bounds \subseteq Temp
         /\ InProducts(m, mul)
  BY LiveTyped DEF IInv

LEMMA BeginCallKeeps ==
  ASSUME IInv, BeginCall
  PROVE  IInv'
  <1> DEFINE L == Live(avail)
             u == SpillAll(m)
  <1>1. args = NoCall /\ args' = 0 /\ Quad(u, avail, mul)
    BY DEF BeginCall
  <1>2. /\ avail \in Seq(Temp) /\ Distinct(avail) /\ L \subseteq Temp
        /\ mul \subseteq Temp /\ L \cap bounds = {}
    BY StackFacts
  <1>3. Sound(m, L, Var \cup L, Var)
    BY <1>1, NoCallSound
  <1> HIDE DEF L
  <1>4. /\ Sound(u, L, Var \cup L, (Var \cup L) \cap Var) /\ AllFree(u) /\ StaysRight(m, u)
    BY <1>3, SpillAllSound
  <1> HIDE DEF u
  <1>5. Pushed(u, 0, L, Var \cup L, (Var \cup L) \cap Var)
    BY <1>4, NothingPushed
  <1>6. InProducts(u, mul \cap L)
    BY <1>2, <1>4, FreeProducts
  <1>7. Waiting' = 0 /\ args' \in {NoCall} \cup 0..MaxArgs
    BY <1>1, ProgramsAssumption DEF Waiting, NoCall
  <1>8. L \subseteq L /\ Var \cup L \subseteq Var \cup L /\ Var \subseteq (Var \cup L) \cap Var
    OBVIOUS
  <1>9. L = Live(avail)
    BY DEF L
  <1> QED BY <1>1, <1>2, <1>4, <1>5, <1>6, <1>7, <1>8, <1>9, QuadKeeps

LEMMA PassArgKeeps ==
  ASSUME IInv, NEW kind \in {"value", "ref", "elem"}, PassArg(kind)
  PROVE  IInv'
  <1> DEFINE L == Live(avail)
             G(a) == CASE kind = "value" -> GenByValue(m, a)
                       [] kind = "ref"   -> GenByRef(m, a)
                       [] kind = "elem"  -> GenElemByRef(m, a)
  <1>1. args \in 0..MaxArgs-1 /\ args' = args + 1
    BY DEF PassArg
  <1>0. PICK a \in IF kind = "ref" THEN Var ELSE Top(avail) : Quad(G(a), Take(avail, a), mul)
    BY DEF PassArg
  <1> DEFINE u == G(a)
             stack == Take(avail, a)
  <1>2. Quad(u, stack, mul)
    BY <1>0
  <1>3. a \in Top(avail) /\ (kind = "ref" => a \in Var)
    BY DEF Top
  <1>4. /\ avail \in Seq(Temp) /\ Distinct(avail) /\ L \subseteq Temp
        /\ mul \subseteq Temp /\ L \cap bounds = {}
    BY StackFacts
  <1>5. /\ a \in Var \cup L \cup {Imm} /\ stack \in Seq(Temp) /\ Distinct(stack)
        /\ Live(stack) \subseteq L
    BY <1>3, <1>4, TakeFacts
  <1> HIDE DEF stack
  <1>6. /\ args # NoCall /\ args \in Nat /\ Waiting = args /\ Waiting' = args + 1
        /\ args' \in {NoCall} \cup 0..MaxArgs
    BY <1>1, ProgramsAssumption DEF Waiting, NoCall
  <1>7. Pushed(m, args, L, Var \cup L, Var) /\ AllFree(m)
    BY <1>6 DEF IInv
  <1> HIDE DEF L
  <1>8. Pushed(u, args + 1, L, Var \cup L, Var) /\ AllFree(u) /\ (NoAliases => StaysRight(m, u))
    <2>1. CASE kind = "value"
      <3>1. u = GenByValue(m, a)
        BY <2>1
      <3> HIDE DEF u
      <3> QED BY <1>5, <1>7, <3>1, GenByValueSound
    <2>2. CASE kind = "ref"
      <3>1. u = GenByRef(m, a)
        BY <2>2
      <3> HIDE DEF u
      <3> QED BY <1>3, <1>7, <2>2, <3>1, GenByRefSound
    <2>3. CASE kind = "elem"
      <3>1. u = GenElemByRef(m, a)
        BY <2>3
      <3> HIDE DEF u
      <3> QED BY <1>5, <1>7, <3>1, GenElemByRefSound
    <2> QED BY <2>1, <2>2, <2>3
  <1> HIDE DEF u
  <1>9. InProducts(u, mul \cap Live(stack))
    BY <1>4, <1>8, FreeProducts
  <1>10. Var \cup Live(stack) \subseteq Var \cup L /\ Live(stack) \cap bounds = {} /\ Var \subseteq Var
    BY <1>4, <1>5
  <1>11. Straight => StaysRight(m, u)
    BY <1>8 DEF Straight
  <1> QED BY <1>2, <1>5, <1>6, <1>8, <1>9, <1>10, <1>11, QuadKeeps

LEMMA CallFunctionKeeps ==
  ASSUME IInv, NEW W \in SUBSET Var, CallFunction(W)
  PROVE  IInv'
  <1> DEFINE L == Live(avail)
             d == Fresh
             u == GenCall(m, W, d, args)
             stack == Append(avail, d)
  <1>1. args # NoCall /\ args' = NoCall /\ Unused # {} /\ Quad(u, stack, mul)
    BY DEF CallFunction
  <1>2. /\ avail \in Seq(Temp) /\ Distinct(avail) /\ L \subseteq Temp
        /\ mul \subseteq L /\ mul \subseteq Temp /\ L \cap bounds = {} /\ InProducts(m, mul)
    BY StackFacts
  <1>3. d \in Temp /\ d \notin L /\ d \notin bounds /\ m.slot[d] = 0
    BY <1>1, FreshIs
  <1>4. Pushed(m, args, L, Var \cup L, Var) /\ AllFree(m)
    BY <1>1 DEF IInv, Waiting
  <1> HIDE DEF d
  <1>5. stack \in Seq(Temp) /\ Distinct(stack) /\ Live(stack) = L \cup {d}
    BY <1>2, <1>3, AppendFacts
  <1> HIDE DEF stack, L
  <1>6. /\ Sound(u, L \cup {d}, (Var \cup L) \cup {d}, Var) /\ StaysRight(m, u)
        /\ Moves(m, u, {d})
    <2>1. {d} \ {Imm} = {d}
      BY <1>3, NameFacts
    <2>2. LET R == {d} \ {Imm}
          IN Sound(u, L \cup R, (Var \cup L) \cup R, Var) /\ StaysRight(m, u) /\ Moves(m, u, R)
      BY <1>3, <1>4, GenCallSound
    <2> HIDE DEF u
    <2> QED BY <2>1, <2>2
  <1> HIDE DEF u
  <1>7. Pushed(u, 0, L \cup {d}, (Var \cup L) \cup {d}, Var)
    BY <1>6, NothingPushed
  <1>8. InProducts(u, mul \cap Live(stack))
    <2>1. mul \cap Live(stack) \subseteq mul \ {d} /\ Free \notin mul \cap Live(stack)
      BY <1>2, <1>3, NameFacts
    <2> QED BY <1>2, <1>6, <2>1, MovedProducts
  <1>9. Waiting' = 0 /\ args' \in {NoCall} \cup 0..MaxArgs
    BY <1>1 DEF Waiting
  <1>10. /\ Live(stack) \subseteq L \cup {d} /\ Var \cup Live(stack) \subseteq (Var \cup L) \cup {d}
         /\ Live(stack) \cap bounds = {} /\ Var \subseteq Var
    BY <1>2, <1>3, <1>5
  <1> QED BY <1>1, <1>5, <1>6, <1>7, <1>8, <1>9, <1>10, QuadKeeps

LEMMA CallProcedureKeeps ==
  ASSUME IInv, NEW W \in SUBSET Var, CallProcedure(W)
  PROVE  IInv'
  <1> DEFINE L == Live(avail)
             u == GenCall(m, W, Imm, args)
  <1>1. args # NoCall /\ args' = NoCall /\ avail = <<>> /\ Quad(u, <<>>, mul)
    BY DEF CallProcedure
  <1>2. Pushed(m, args, L, Var \cup L, Var) /\ AllFree(m)
    BY <1>1 DEF IInv, Waiting
  <1>3. <<>> \in Seq(Temp) /\ Distinct(<<>>) /\ Live(<<>>) = {}
    BY EmptyLive
  <1> HIDE DEF L
  <1>4. Sound(u, L, Var \cup L, Var) /\ StaysRight(m, u)
    <2>1. L \cup ({Imm} \ {Imm}) = L /\ (Var \cup L) \cup ({Imm} \ {Imm}) = Var \cup L
      OBVIOUS
    <2>2. LET R == {Imm} \ {Imm}
          IN Sound(u, L \cup R, (Var \cup L) \cup R, Var) /\ StaysRight(m, u) /\ Moves(m, u, R)
      BY <1>2, GenCallSound
    <2> HIDE DEF u
    <2> QED BY <2>1, <2>2
  <1> HIDE DEF u
  <1>5. Pushed(u, 0, L, Var \cup L, Var)
    BY <1>4, NothingPushed
  <1>6. InProducts(u, mul \cap Live(<<>>))
    BY <1>3 DEF InProducts
  <1>7. Waiting' = 0 /\ args' \in {NoCall} \cup 0..MaxArgs
    BY <1>1 DEF Waiting
  <1>8. /\ Live(<<>>) \subseteq L /\ Var \cup Live(<<>>) \subseteq Var \cup L
        /\ Live(<<>>) \cap bounds = {} /\ Var \subseteq Var
    BY <1>3
  <1> QED BY <1>1, <1>3, <1>4, <1>5, <1>6, <1>7, <1>8, QuadKeeps

-------------------------------------------------------------------------------
(* The quadruples that end a statement.                                    *)

LEMMA OneFacts ==
  ASSUME IInv, NEW a \in One(avail)
  PROVE  a \in Var \cup Live(avail) \cup {Imm}
  BY StackFacts, TakeFacts DEF One

LEMMA TwoFacts ==
  ASSUME IInv, NEW ab \in Two
  PROVE  /\ ab[1] \in Var \cup Live(avail) \cup {Imm}
         /\ ab[2] \in Var \cup Live(avail) \cup {Imm}
  <1>1. ab[1] \in Var \cup {Imm} \cup Live(avail) /\ ab[2] \in Top(avail)
    BY DEF Two
  <1>2. avail \in Seq(Temp) /\ Distinct(avail)
    BY StackFacts
  <1> QED BY <1>1, <1>2, TakeFacts

LEMMA StatementKeeps ==
  ASSUME IInv, Idle, NEW s, Quad(s, <<>>, {}),
         NEW L, NEW K, NEW V, Sound(s, L, K, V), Var \subseteq V,
         Straight => StaysRight(m, s)
  PROVE  IInv'
  <1>1. Pushed(s, 0, L, K, V)
    BY NothingPushed
  <1>2. Waiting' = 0 /\ args' = NoCall /\ args' \in {NoCall} \cup 0..MaxArgs
    BY IdleSound
  <1>3. <<>> \in Seq(Temp) /\ Distinct(<<>>) /\ Live(<<>>) = {}
    BY EmptyLive
  <1>4. Var \subseteq K
    BY DEF Sound
  <1>5. /\ Live(<<>>) \subseteq L /\ Var \cup Live(<<>>) \subseteq K
        /\ Live(<<>>) \cap bounds = {} /\ InProducts(s, {} \cap Live(<<>>))
    BY <1>3, <1>4 DEF InProducts
  <1> QED BY <1>1, <1>2, <1>3, <1>5, QuadKeeps

LEMMA MoveKeeps ==
  ASSUME IInv, NEW d \in Var, Move(d)
  PROVE  IInv'
  <1> DEFINE L == Live(avail)
  <1>1. Idle
    BY DEF Move
  <1>2. PICK a \in One(avail), victim \in Victims :
          (a = d => SelfAssign) /\ Quad(GenMove(m, d, a, victim), <<>>, {})
    BY DEF Move
  <1> DEFINE u == GenMove(m, d, a, victim)
  <1>3. Sound(m, L, Var \cup L, Var) /\ a \in Var \cup L \cup {Imm} /\ victim \in Reg
    BY <1>1, IdleSound, OneFacts, VictimsAreRegisters
  <1> HIDE DEF L
  <1>4. /\ Sound(u, L, (Var \cup L) \cup {d}, Var \cup {d})
        /\ Read(Alloc(m, d, victim), a) = Tok(a) => StaysRight(m, u)
    BY <1>3, GenMoveSound
  <1>5. Straight => Read(Alloc(m, d, victim), a) = Tok(a)
    BY <1>2, <1>3, MoveReads DEF Straight
  <1>6. Quad(u, <<>>, {})
    BY <1>2
  <1> HIDE DEF u
  <1> QED BY <1>1, <1>4, <1>5, <1>6, StatementKeeps

LEMMA StoreElemKeeps ==
  ASSUME IInv, StoreElem
  PROVE  IInv'
  <1> DEFINE L == Live(avail)
  <1>1. Idle
    BY DEF StoreElem
  <1>2. PICK ai \in Two : Quad(GenStoreElem(m, ai[2], ai[1]), <<>>, {})
    BY DEF StoreElem
  <1> DEFINE a == ai[1]
             i == ai[2]
             u == GenStoreElem(m, i, a)
  <1>3. /\ Sound(m, L, Var \cup L, Var)
        /\ a \in Var \cup L \cup {Imm} /\ i \in Var \cup L \cup {Imm}
    BY <1>1, IdleSound, TwoFacts
  <1>5. Quad(u, <<>>, {})
    BY <1>2
  <1> HIDE DEF L, a, i
  <1>4. /\ Sound(u, L, Var \cup L, Var)
        /\ NoAliases /\ {i, a} \subseteq (Var \cup L) \cup {Imm} => StaysRight(m, u)
    BY <1>3, GenStoreElemSound
  <1> HIDE DEF u
  <1>6. Straight => StaysRight(m, u)
    BY <1>3, <1>4 DEF Straight
  <1> QED BY <1>1, <1>4, <1>5, <1>6, StatementKeeps

LEMMA ReadVarKeeps ==
  ASSUME IInv, NEW v \in Var, ReadVar(v)
  PROVE  IInv'
  <1> DEFINE L == Live(avail)
             u == GenRead(m, v)
  <1>1. Idle /\ Quad(u, <<>>, {})
    BY DEF ReadVar
  <1>2. Sound(m, L, Var \cup L, Var)
    BY <1>1, IdleSound
  <1> HIDE DEF L
  <1>3. Sound(u, L, Var \cup L, (Var \cup L) \cap Var) /\ StaysRight(m, u)
    BY <1>2, GenReadSound
  <1>4. Var \subseteq (Var \cup L) \cap Var
    OBVIOUS
  <1> HIDE DEF u
  <1> QED BY <1>1, <1>3, <1>4, StatementKeeps

LEMMA WriteKeeps ==
  ASSUME IInv, Write
  PROVE  IInv'
  <1> DEFINE L == Live(avail)
  <1>1. Idle
    BY DEF Write
  <1>2. PICK a \in One(avail) : Quad(GenWrite(m, a), <<>>, {})
    BY DEF Write
  <1> DEFINE u == GenWrite(m, a)
  <1>3. Sound(m, L, Var \cup L, Var) /\ a \in Var \cup L \cup {Imm}
    BY <1>1, IdleSound, OneFacts
  <1> HIDE DEF L
  <1>4. /\ Sound(u, L, Var \cup L, (Var \cup L) \cap Var)
        /\ NoAliases /\ a \in (Var \cup L) \cup {Imm} => StaysRight(m, u)
    BY <1>3, GenWriteSound
  <1>5. Quad(u, <<>>, {}) /\ Var \subseteq (Var \cup L) \cap Var
    BY <1>2
  <1> HIDE DEF u
  <1>6. Straight => StaysRight(m, u)
    BY <1>3, <1>4 DEF Straight
  <1> QED BY <1>1, <1>4, <1>5, <1>6, StatementKeeps

-------------------------------------------------------------------------------
(* The quadruples that end a block.                                        *)

LEMMA GotoKeeps ==
  ASSUME IInv, Idle, NEW s, NEW L, NEW K, NEW V, Sound(s, L, K, V), Var \subseteq K,
         NEW ends, NewBlock(GenGoto(s), ends),
         ends \subseteq Temp, ~ComputedBounds => ends = {},
         Straight => StaysRight(m, s)
  PROVE  IInv'
  <1> DEFINE u == GenGoto(s)
  <1>1. Sound(u, {}, K \cap Var, K \cap Var) /\ AllFree(u) /\ StaysRight(s, u)
    BY GenGotoSound
  <1>2. args' = args /\ args = NoCall /\ Var \subseteq K \cap Var /\ NewBlock(u, ends)
    BY DEF Idle
  <1> HIDE DEF u
  <1>3. Straight => StaysRight(m, u)
    BY <1>1 DEF StaysRight
  <1> QED BY <1>1, <1>2, <1>3, BlockKeeps

LEMMA BoundsFacts ==
  ASSUME IInv
  PROVE  bounds \subseteq Temp /\ (~ComputedBounds => bounds = {})
  BY DEF IInv

LEMMA BranchKeeps ==
  ASSUME IInv, Branch
  PROVE  IInv'
  <1> DEFINE L == Live(avail)
  <1>1. Idle
    BY DEF Branch
  <1>2. PICK ab \in Two : NewBlock(GenGoto(GenCmp(m, ab[1], ab[2])), bounds)
    BY DEF Branch
  <1> DEFINE a == ab[1]
             b == ab[2]
             u == GenCmp(m, a, b)
  <1>3. /\ Sound(m, L, Var \cup L, Var)
        /\ a \in Var \cup L \cup {Imm} /\ b \in Var \cup L \cup {Imm}
    BY <1>1, IdleSound, TwoFacts
  <1>5. NewBlock(GenGoto(u), bounds) /\ Var \subseteq (Var \cup L) \cap Var
    BY <1>2
  <1> HIDE DEF L, a, b
  <1>4. /\ Sound(u, {}, (Var \cup L) \cap Var, (Var \cup L) \cap Var) /\ AllFree(u)
        /\ NoAliases /\ {a, b} \subseteq (Var \cup L) \cup {Imm} => StaysRight(m, u)
        /\ NoAliases => Values(u, Var \cup L)
    BY <1>3, GenCmpSound
  <1> HIDE DEF u
  <1>6. Straight => StaysRight(m, u)
    BY <1>3, <1>4 DEF Straight
  <1> QED BY <1>1, <1>4, <1>5, <1>6, BoundsFacts, GotoKeeps

LEMMA JumpKeeps ==
  ASSUME IInv, Jump
  PROVE  IInv'
  <1>1. Idle /\ NewBlock(GenGoto(m), bounds)
    BY DEF Jump
  <1>2. Sound(m, Live(avail), Var \cup Live(avail), Var)
    BY <1>1, IdleSound
  <1>3. StaysRight(m, m) /\ Var \subseteq Var \cup Live(avail)
    BY DEF StaysRight
  <1> QED BY <1>1, <1>2, <1>3, BoundsFacts, GotoKeeps

LEMMA ForStepKeeps ==
  ASSUME IInv, NEW v \in Var, ForStep(v)
  PROVE  IInv'
  <1> DEFINE L == Live(avail)
  <1>1. Idle
    BY DEF ForStep
  <1>2. PICK victim \in Victims : NewBlock(GenGoto(GenAddSub(m, "+", v, v, Imm, victim)), bounds)
    BY DEF ForStep
  <1> DEFINE u == GenAddSub(m, "+", v, v, Imm, victim)
  <1>3. Sound(m, L, Var \cup L, Var) /\ victim \in Reg /\ v \in Name /\ Loadable(m, L, v)
    BY <1>1, IdleSound, VictimsAreRegisters DEF Name, Loadable
  <1> HIDE DEF L
  <1>4. /\ Sound(u, L \cup ({v} \cap Temp), (Var \cup L) \cup {v}, Var \ {v})
        /\ NoAliases /\ {v, Imm} \subseteq (Var \cup L) \cup {Imm} => StaysRight(m, u)
    <2>1. LET w == GenAddSub(m, "+", v, v, Imm, victim)
          IN /\ Sound(w, L \cup ({v} \cap Temp), (Var \cup L) \cup {v}, Var \ {v})
             /\ NoAliases /\ {v, Imm} \subseteq (Var \cup L) \cup {Imm} => StaysRight(m, w)
             /\ Moves(m, w, {v})
      BY <1>3, GenAddSubSound
    <2> QED BY <2>1
  <1>5. NewBlock(GenGoto(u), bounds) /\ Var \subseteq (Var \cup L) \cup {v}
    BY <1>2
  <1> HIDE DEF u
  <1>6. Straight => StaysRight(m, u)
    BY <1>4 DEF Straight
  <1> QED BY <1>1, <1>4, <1>5, <1>6, BoundsFacts, GotoKeeps

LEMMA ForExitKeeps ==
  ASSUME IInv, NEW v \in Var, ForExit(v)
  PROVE  IInv'
  <1> DEFINE L == Live(avail)
  <1>1. Idle
    BY DEF ForExit
  <1>2. PICK b \in bounds \cup (Var \ {v}) \cup {Imm} :
          NewBlock(GenGoto(GenMove(m, v, b, "eax")), bounds \ {b})
    BY DEF ForExit
  <1> DEFINE u == GenMove(m, v, b, "eax")
  <1>3. Sound(m, L, Var \cup L, Var) /\ "eax" \in Reg
    BY <1>1, IdleSound DEF Reg
  <1> HIDE DEF L
  <1>4. /\ Sound(u, L, (Var \cup L) \cup {v}, Var \cup {v})
        /\ Read(Alloc(m, v, "eax"), b) = Tok(b) => StaysRight(m, u)
    BY <1>3, GenMoveSound
  <1>5. Straight => Read(Alloc(m, v, "eax"), b) = Tok(b)
    <2> SUFFICES ASSUME Straight PROVE Read(Alloc(m, v, "eax"), b) = Tok(b)
      OBVIOUS
    <2>1. b \in (Var \cup L) \cup {Imm} /\ b # v /\ NoAliases
      BY <1>2, BoundsFacts, NameFacts DEF Straight
    <2> QED BY <1>3, <2>1, MoveReads
  <1>6. NewBlock(GenGoto(u), bounds \ {b}) /\ Var \subseteq (Var \cup L) \cup {v}
    BY <1>2
  <1> HIDE DEF u
  <1>7. bounds \ {b} \subseteq Temp /\ (~ComputedBounds => bounds \ {b} = {})
    BY BoundsFacts
  <1> QED BY <1>1, <1>4, <1>5, <1>6, <1>7, GotoKeeps

LEMMA ForEnterKeeps ==
  ASSUME IInv, NEW v \in Var, NEW copy \in Var, ForEnter(v, copy)
  PROVE  IInv'
  <1> DEFINE L == Live(avail)
             s0(a, b) == GenCmp(m, a, b)
             s1(a, b) == GenGoto(s0(a, b))
             s2(a, b) == IF b \in Temp THEN GenMove(s1(a, b), copy, b, "eax") ELSE s1(a, b)
  <1>1. Idle
    BY DEF ForEnter
  <1>2. PICK ab \in Two :
          /\ ab[1] # v
          /\ ab[2] \in Temp => ComputedBounds
          /\ NewBlock(GenGoto(GenMove(s2(ab[1], ab[2]), v, ab[1], "eax")), bounds \cup ({ab[2]} \cap Temp))
    BY DEF ForEnter
  <1> DEFINE a == ab[1]
             b == ab[2]
             t0 == s0(a, b)
             t1 == GenGoto(t0)
             t2 == IF b \in Temp THEN GenMove(t1, copy, b, "eax") ELSE t1
             u == GenMove(t2, v, a, "eax")
             ends == bounds \cup ({b} \cap Temp)
  <1>3. /\ Sound(m, L, Var \cup L, Var) /\ "eax" \in Reg
        /\ a \in Var \cup L \cup {Imm} /\ b \in Var \cup L \cup {Imm} /\ L \subseteq Temp
    BY <1>1, IdleSound, TwoFacts DEF Reg
  <1>4. a # v /\ (b \in Temp => ComputedBounds) /\ NewBlock(GenGoto(u), ends)
    BY <1>2
  <1> HIDE DEF a, b, L
  <1>5. /\ Sound(t0, {}, (Var \cup L) \cap Var, (Var \cup L) \cap Var) /\ AllFree(t0)
        /\ NoAliases /\ {a, b} \subseteq (Var \cup L) \cup {Imm} => StaysRight(m, t0)
        /\ NoAliases => Values(t0, Var \cup L)
    BY <1>3, GenCmpSound
  <1> HIDE DEF t0
  <1>6. (Var \cup L) \cap Var = Var
    OBVIOUS
  <1>7. /\ Sound(t1, {}, Var \cap Var, Var \cap Var) /\ AllFree(t1) /\ StaysRight(t0, t1)
    BY <1>5, <1>6, GenGotoSound
  <1>8. NoAliases => Values(t1, Var \cup L)
    <2>1. t0 \in Machine /\ t0.esp = t0.dist
      BY <1>5 DEF Sound, Good
    <2> QED BY <1>5, <2>1, FreeGoto
  <1> HIDE DEF t1
  <1>9. Sound(t2, {}, Var, Var)
    <2>1. CASE b \in Temp
      <3>1. Sound(t1, {}, Var, Var)
        BY <1>7, <1>6
      <3>2. Sound(GenMove(t1, copy, b, "eax"), {}, Var \cup {copy}, Var \cup {copy})
        BY <1>3, <3>1, GenMoveSound
      <3>3. Var \cup {copy} = Var
        OBVIOUS
      <3> QED BY <2>1, <3>2, <3>3
    <2>2. CASE b \notin Temp
      BY <1>7, <2>2
    <2> QED BY <2>1, <2>2
  <1>10. b \notin Temp => t2 = t1
    OBVIOUS
  <1> HIDE DEF t2
  <1>11. /\ Sound(u, {}, Var \cup {v}, Var \cup {v})
         /\ Read(Alloc(t2, v, "eax"), a) = Tok(a) => StaysRight(t2, u)
    BY <1>3, <1>9, GenMoveSound
  <1> HIDE DEF u
  <1>12. Straight => StaysRight(m, u)
    <2> SUFFICES ASSUME Straight PROVE StaysRight(m, u)
      OBVIOUS
    <2>1. NoAliases /\ t2 = t1
      BY <1>4, <1>10 DEF Straight
    <2>2. StaysRight(m, t0) /\ StaysRight(t0, t1)
      BY <1>3, <1>5, <1>7, <2>1
    <2>3. t1 \in Machine /\ a \in Operand /\ Values(t1, {a} \ {Imm})
      <3>1. t1 \in Machine
        BY <1>7 DEF Sound, Good
      <3>2. {a} \ {Imm} \subseteq Var \cup L /\ a \in Operand
        BY <1>3 DEF Operand, Name
      <3>3. Values(t1, {a} \ {Imm})
        BY <1>8, <2>1, <3>2 DEF Values
      <3> QED BY <3>1, <3>2, <3>3
    <2>4. Read(Alloc(t1, v, "eax"), a) = Tok(a)
      BY <1>3, <1>4, <1>7, <2>3, FreeMoveReads
    <2>5. StaysRight(t1, u)
      BY <1>11, <2>1, <2>4
    <2> QED BY <2>2, <2>5 DEF StaysRight
  <1>13. ends \subseteq Temp /\ (~ComputedBounds => ends = {})
    BY <1>4, BoundsFacts
  <1>14. Var \subseteq Var \cup {v}
    OBVIOUS
  <1> HIDE DEF ends
  <1> QED BY <1>1, <1>4, <1>11, <1>12, <1>13, <1>14, GotoKeeps

LEMMA ReturnKeeps ==
  ASSUME IInv, NEW v \in Var \cup {Imm}, Return(v)
  PROVE  IInv'
  <1> DEFINE right == IF v = Imm THEN m.right ELSE GenLoadRet(m, v).right
             u == Header(right)
  <1>1. /\ Idle /\ m' = u /\ avail' = <<>> /\ mul' = {} /\ bounds' = {}
    BY DEF Return
  <1>2. /\ Sound(m, Live(avail), Var \cup Live(avail), Var) /\ m \in Machine
        /\ args' = NoCall /\ Waiting' = 0
    BY <1>1, IdleSound
  <1>3. right \in BOOLEAN /\ (NoAliases /\ m.right => right)
    <2>1. CASE v = Imm
      BY <1>2, <2>1 DEF Machine
    <2>2. CASE v # Imm
      <3>1. v \in (Var \cup Live(avail)) \cap Var
        BY <2>2
      <3> DEFINE w == GenLoadRet(m, v)
      <3>2. w.right \in BOOLEAN /\ (NoAliases => StaysRight(m, w))
        BY <1>2, <3>1, GenLoadRetRight
      <3> HIDE DEF w
      <3>3. right = w.right
        BY <2>2 DEF w
      <3> HIDE DEF right
      <3> QED BY <3>2, <3>3 DEF StaysRight
    <2> QED BY <2>1, <2>2
  <1> HIDE DEF right
  <1>4. /\ Sound(u, {}, Var, Var) /\ AllFree(u) /\ (right => u.right)
        /\ \A t \in Temp : u.slot[t] = 0
    BY <1>3, HeaderSound
  <1> HIDE DEF u
  <1>5. Pushed(u, 0, {}, Var, Var) /\ NoneOwned(u, {} \cup {}) /\ InProducts(u, {})
    BY <1>4, NothingPushed DEF NoneOwned, InProducts
  <1>6. Straight => u.right
    BY <1>3, <1>4 DEF Straight, IInv
  <1>7. Var \cup {} = Var
    OBVIOUS
  <1> QED BY <1>1, <1>2, <1>5, <1>6, <1>7, EmptyLive DEF IInv

-------------------------------------------------------------------------------
(* The invariant is one of the specification.                              *)

LEMMA InvInit ==
  Init => IInv
  <1> SUFFICES ASSUME Init PROVE IInv
    OBVIOUS
  <1> DEFINE u == Header(TRUE)
  <1>1. /\ m = u /\ avail = <<>> /\ mul = {} /\ bounds = {} /\ args = NoCall
    BY DEF Init
  <1>2. /\ Sound(u, {}, Var, Var) /\ (TRUE => u.right)
        /\ \A t \in Temp : u.slot[t] = 0
    BY HeaderSound
  <1> HIDE DEF u
  <1>3. Pushed(u, 0, {}, Var, Var) /\ NoneOwned(u, {} \cup {}) /\ InProducts(u, {})
    BY <1>2, NothingPushed DEF NoneOwned, InProducts
  <1>4. Waiting = 0 /\ Var \cup {} = Var
    BY <1>1 DEF Waiting
  <1> QED BY <1>1, <1>2, <1>3, <1>4, EmptyLive DEF IInv

LEMMA InvNext ==
  IInv /\ [Next]_vars => IInv'
  <1> SUFFICES ASSUME IInv, [Next]_vars PROVE IInv'
    OBVIOUS
  <1>1. ASSUME NEW byRef \in BOOLEAN, LoadElem(byRef) PROVE IInv'
    BY <1>1, LoadElemKeeps
  <1>2. ASSUME NEW op \in {"+", "-"}, AddSub(op) PROVE IInv'
    BY <1>2, AddSubKeeps
  <1>3. ASSUME NEW op \in {"*", "/", "%"}, MulDivMod(op) PROVE IInv'
    BY <1>3, MulDivModKeeps
  <1>4. CASE BeginCall
    BY <1>4, BeginCallKeeps
  <1>5. ASSUME NEW kind \in {"value", "ref", "elem"}, PassArg(kind) PROVE IInv'
    BY <1>5, PassArgKeeps
  <1>6. ASSUME NEW W \in SUBSET Var, CallFunction(W) \/ CallProcedure(W) PROVE IInv'
    BY <1>6, CallFunctionKeeps, CallProcedureKeeps
  <1>7. ASSUME NEW d \in Var, Move(d) PROVE IInv'
    BY <1>7, MoveKeeps
  <1>8. CASE StoreElem
    BY <1>8, StoreElemKeeps
  <1>9. ASSUME NEW v \in Var, ReadVar(v) PROVE IInv'
    BY <1>9, ReadVarKeeps
  <1>10. CASE Write
    BY <1>10, WriteKeeps
  <1>11. CASE Branch
    BY <1>11, BranchKeeps
  <1>12. CASE Jump
    BY <1>12, JumpKeeps
  <1>13. ASSUME NEW v \in Var, NEW copy \in Var, ForEnter(v, copy) PROVE IInv'
    BY <1>13, ForEnterKeeps
  <1>14. ASSUME NEW v \in Var, ForStep(v) PROVE IInv'
    BY <1>14, ForStepKeeps
  <1>15. ASSUME NEW v \in Var, ForExit(v) PROVE IInv'
    BY <1>15, ForExitKeeps
  <1>16. ASSUME NEW v \in Var \cup {Imm}, Return(v) PROVE IInv'
    BY <1>16, ReturnKeeps
  <1>17. CASE UNCHANGED vars
    BY <1>17 DEF vars, IInv, Waiting
  <1> QED BY <1>1, <1>2, <1>3, <1>4, <1>5, <1>6, <1>7, <1>8, <1>9, <1>10, <1>11, <1>12,
             <1>13, <1>14, <1>15, <1>16, <1>17 DEF Next

\* Whatever quadruples the generator emits, its records agree with the machine
\* that runs them as IInv says.  Code: SimpleAllocator and pl0_x86_gen_common.
THEOREM Allocation == Spec => []IInv
  BY InvInit, InvNext, PTL DEF Spec

-------------------------------------------------------------------------------
(* What the invariant says between two quadruples.                         *)

LEMMA BetweenQuads ==
  ASSUME IInv
  PROVE  LET s == Unpushed(m)
         IN /\ m \in Machine /\ m.esp = m.dist + Waiting /\ Waiting \in Nat
            /\ s.rec = m.rec /\ s.slot = m.slot /\ s.dist = m.dist /\ s.mem = m.mem
            /\ Sound(s, Live(avail), Var \cup Live(avail), Var)
  <1>1. Pushed(m, Waiting, Live(avail), Var \cup Live(avail), Var)
    BY DEF IInv
  <1> QED BY <1>1, UnpushedIs DEF Pushed

LEMMA InvTyped ==
  IInv => TypeOK
  <1> SUFFICES ASSUME IInv PROVE TypeOK
    OBVIOUS
  <1>1. m \in Machine
    BY BetweenQuads
  <1>2. /\ m.rec \in [Reg -> Name \cup {Free}] /\ m.slot \in [Name -> Nat]
        /\ m.cpu \in [Reg -> Contents] /\ m.mem \in Memory
        /\ m.dist \in Nat /\ m.esp \in Nat /\ m.right \in BOOLEAN
    BY <1>1 DEF Machine
  <1>3. DOMAIN m.mem \subseteq Nat /\ \A c \in DOMAIN m.mem : m.mem[c] \in Contents
    BY <1>2, MemoryFacts
  <1>4. avail \in Seq(Temp) /\ mul \subseteq Live(avail) /\ bounds \subseteq Temp
    BY StackFacts
  <1>5. args \in {NoCall} \cup 0..MaxArgs
    BY DEF IInv
  <1> QED BY <1>2, <1>3, <1>4, <1>5 DEF TypeOK

LEMMA InvApart ==
  IInv => OneRegisterPerName /\ TemporariesApart
  <1> SUFFICES ASSUME IInv PROVE OneRegisterPerName /\ TemporariesApart
    OBVIOUS
  <1> DEFINE s == Unpushed(m)
  <1>1. /\ s.rec = m.rec /\ s.slot = m.slot /\ s.dist = m.dist
        /\ Sound(s, Live(avail), Var \cup Live(avail), Var)
        /\ m \in Machine /\ m.esp = m.dist + Waiting /\ Waiting \in Nat
    BY BetweenQuads
  <1> HIDE DEF s
  <1>2. OneRegister(s) /\ Cells(s, Live(avail)) /\ Live(avail) \subseteq Temp
    BY <1>1 DEF Sound, Good
  <1>3. OneRegisterPerName
    BY <1>1, <1>2 DEF OneRegister, OneRegisterPerName
  <1>4. ASSUME NEW t \in Live(avail), m.slot[t] # 0
        PROVE  /\ m.slot[t] \in Locals+1..m.esp
               /\ \A u \in Live(avail) : m.slot[u] = m.slot[t] => u = t
    <2>1. /\ m.slot[t] \in Locals+1..m.dist
          /\ \A u \in Temp : Active(s, Live(avail), u) /\ m.slot[u] = m.slot[t] => u = t
      BY <1>1, <1>2, <1>4 DEF Cells, Active
    <2>2. m.dist \in Nat /\ Locals \in Nat
      BY <1>1, NameFacts DEF Machine
    <2>3. m.slot[t] \in Locals+1..m.esp
      BY <1>1, <2>1, <2>2
    <2> QED BY <1>2, <2>1, <2>3 DEF Active
  <1> QED BY <1>3, <1>4 DEF TemporariesApart

LEMMA InvBalanced ==
  IInv => EspMatchesDist
  BY BetweenQuads DEF EspMatchesDist, Waiting

LEMMA InvCoherent ==
  ASSUME NoAliases
  PROVE  IInv => Coherent /\ VariablesInMemory
  <1> SUFFICES ASSUME IInv PROVE Coherent /\ VariablesInMemory
    OBVIOUS
  <1>1. Values(m, Var \cup Live(avail))
    BY PushedFacts DEF IInv
  <1>2. Coherent
    BY <1>1, ReadRight DEF Coherent
  <1> DEFINE s == Unpushed(m)
  <1>3. /\ s.slot = m.slot /\ s.mem = m.mem
        /\ Sound(s, Live(avail), Var \cup Live(avail), Var)
    BY BetweenQuads
  <1> HIDE DEF s
  <1>4. VarMem(s, Var) /\ \A v \in Var : s.slot[v] = Place[v]
    BY <1>3 DEF Sound, Good
  <1>5. ASSUME NEW v \in Var PROVE m.mem[m.slot[v]] = Tok(v)
    <2>1. m.slot[v] = Place[v] /\ Tok(v) = Place[v]
      BY <1>3, <1>4, NameFacts
    <2>2. m.mem[Place[v]] = Place[v]
      BY <1>3, <1>4 DEF VarMem
    <2> QED BY <2>1, <2>2
  <1> QED BY <1>2, <1>5 DEF VariablesInMemory

\* Code: the types of SimpleAllocator's fields, for any program.
THEOREM AllocationTyped == Spec => []TypeOK
  BY Allocation, InvTyped, PTL

\* No name is ever in two registers, however loads, moves, evictions and calls
\* follow one another.  Code: SimpleAllocator::alloc, load, remap, release.
THEOREM NamesInOneRegister == Spec => []OneRegisterPerName
  BY Allocation, InvApart, PTL

\* Temporaries still to be read are spilled to cells of their own, beyond the
\* header of the frame and within the stack.  Code: SimpleAllocator::store.
THEOREM SpillsApart == Spec => []TemporariesApart
  BY Allocation, InvApart, PTL

\* The generator always knows how deep the stack is, arguments of a call being
\* generated included.  Code: every sub and add of esp, push and pop it emits.
THEOREM StackBalanced == Spec => []EspMatchesDist
  BY Allocation, InvBalanced, PTL

\* Unless variables alias, locate() finds the current value of every variable
\* and of every temporary still to be read.  Code: SimpleAllocator::locate.
THEOREM LocatedRight == NoAliases => (Spec => []Coherent)
  <1> SUFFICES ASSUME NoAliases PROVE Spec => []Coherent
    OBVIOUS
  <1>1. IInv => Coherent
    BY InvCoherent
  <1> QED BY <1>1, Allocation, PTL

\* Unless variables alias, memory has the current value of every variable
\* between quadruples.  Code: the spill() after every quadruple that writes one.
THEOREM MemoryRight == NoAliases => (Spec => []VariablesInMemory)
  <1> SUFFICES ASSUME NoAliases PROVE Spec => []VariablesInMemory
    OBVIOUS
  <1>1. IInv => VariablesInMemory
    BY InvCoherent
  <1> QED BY <1>1, Allocation, PTL

\* Unless variables alias, a variable is assigned to itself or a loop ends with
\* a computed bound, every operand an instruction reads is the current value of
\* the name its quadruple mentions.  Code: pl0_x86_gen_common.
THEOREM ReadsRight == Straight => (Spec => []OperandsRight)
  <1> SUFFICES ASSUME Straight PROVE Spec => []OperandsRight
    OBVIOUS
  <1>1. IInv => OperandsRight
    BY DEF IInv, OperandsRight
  <1> QED BY <1>1, Allocation, PTL
===============================================================================
