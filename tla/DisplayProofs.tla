---------------------------- MODULE DisplayProofs ----------------------------
(***************************************************************************)
(* Proofs about the display, for every nesting of functions and any number *)
(* of frames: the display is always right, whatever the program does with  *)
(* reference parameters; in programs whose nested functions leave those of *)
(* outer ones alone, references only point to live frames and the emitted  *)
(* code implements static links.                                           *)
(***************************************************************************)
EXTENDS Display, SequenceTheorems, TLAPS

Kind == {"var", "ref"}

HitType == [fn : Fn, kind : Kind, at : Address]

\* What the definition of a frame stack of fs means, one frame at a time.
FrameType == [fn : Fn, disp : Seq(Nat \ {0}), ref : Address]

FrameRight(fs, i) ==
    LET f == fs[i].fn
        disp == fs[i].disp
    IN /\ Len(disp) = Level[f] /\ disp[Level[f]] = i
       /\ \A k \in 1..Level[f] :
            /\ disp[k] \in k..i
            /\ Len(fs[disp[k]].disp) = k
            /\ \A j \in 1..k : fs[disp[k]].disp[j] = disp[j]
       /\ \A h \in Scope[f] : Level[h] <= Level[f] /\ fs[disp[Level[h]]].fn = h

Stack(fs) ==
    /\ fs \in Seq(FrameType) /\ Len(fs) > 0
    /\ fs[1].fn = Main
    /\ \A i \in 1..Len(fs) : FrameRight(fs, i)

RefsBelow(fs) == \A i \in 2..Len(fs) : fs[i].ref \in 1..i-1

\* The display needs nothing of the references; they need the display, and
\* programs that leave outer reference parameters alone.
IInv ==
    /\ Stack(frames) /\ hit \in HitType
    /\ ~OuterRefs => RefsBelow(frames)

LEMMA IInvImplies ==
  IInv => /\ TypeOK /\ DisplayRight
          /\ ~OuterRefs => ReferencesAlive
  BY DEF IInv, Stack, FrameType, HitType, Kind, FrameRight, TypeOK, DisplayRight,
         RefsBelow, ReferencesAlive

LEMMA FnFacts ==
  ASSUME NEW f \in Fn
  PROVE  /\ Level[f] \in Nat \ {0} /\ Scope[f] \subseteq Fn
         /\ \A h \in Scope[f] : h \in Fn /\ Level[h] \in Nat \ {0}
         /\ f # Main => /\ Parent[f] \in Fn /\ Level[f] = Level[Parent[f]] + 1
                        /\ Scope[f] = {f} \cup Scope[Parent[f]]
  <1>1. Level[f] \in Nat \ {0} /\ Scope[f] \subseteq Fn /\ Parent[f] \in Fn
    BY LevelAssumption, NestingAssumption
  <1>2. \A h \in Scope[f] : h \in Fn /\ Level[h] \in Nat \ {0}
    BY <1>1, LevelAssumption
  <1> QED BY <1>1, <1>2, LevelAssumption, NestingAssumption

\* A frame above those of a right stack disturbs none of them.
LEMMA FramesBelow ==
  ASSUME NEW fs \in Seq(FrameType), NEW gs \in Seq(FrameType), NEW n \in Nat,
         n <= Len(fs), \A j \in 1..n : gs[j] = fs[j],
         NEW i \in 1..n, FrameRight(fs, i)
  PROVE  FrameRight(gs, i)
  <1> DEFINE f == fs[i].fn
             disp == fs[i].disp
  <1>1. gs[i] = fs[i] /\ fs[i] \in FrameType
    OBVIOUS
  <1>2. f \in Fn
    BY <1>1 DEF FrameType
  <1>3. /\ Level[f] \in Nat \ {0}
        /\ \A h \in Scope[f] : Level[h] \in Nat \ {0}
    BY <1>2, FnFacts
  <1> HIDE DEF f, disp
  <1>4. /\ Len(disp) = Level[f] /\ disp[Level[f]] = i
        /\ \A k \in 1..Level[f] :
             /\ disp[k] \in k..i
             /\ Len(fs[disp[k]].disp) = k
             /\ \A j \in 1..k : fs[disp[k]].disp[j] = disp[j]
        /\ \A h \in Scope[f] : Level[h] <= Level[f] /\ fs[disp[Level[h]]].fn = h
    BY DEF FrameRight, f, disp
  <1>5. \A k \in 1..Level[f] : disp[k] \in 1..n
    BY <1>3, <1>4
  <1>6. \A k \in 1..Level[f] : gs[disp[k]] = fs[disp[k]]
    BY <1>5
  <1>7. \A h \in Scope[f] : Level[h] \in 1..Level[f]
    BY <1>3, <1>4
  <1>8. ASSUME NEW k \in 1..Level[f]
        PROVE  Len(gs[disp[k]].disp) = k /\ \A j \in 1..k : gs[disp[k]].disp[j] = disp[j]
    BY <1>4, <1>6
  <1>9. ASSUME NEW h \in Scope[f] PROVE gs[disp[Level[h]]].fn = h
    BY <1>4, <1>6, <1>7
  <1> QED BY <1>1, <1>4, <1>8, <1>9 DEF FrameRight, f, disp

-------------------------------------------------------------------------------
(* The inductive invariant.                                                *)

LEMMA InitIInv == Init => IInv
  <1> SUFFICES ASSUME Init PROVE IInv
    OBVIOUS
  <1> DEFINE first == [fn |-> Main, disp |-> <<1>>, ref |-> 0]
  <1>1. Main \in Fn /\ Level[Main] = 1 /\ Scope[Main] = {Main}
    BY NestingAssumption, LevelAssumption
  <1>2. first \in FrameType
    BY <1>1 DEF FrameType, Address
  <1>3. frames \in Seq(FrameType) /\ Len(frames) = 1 /\ frames[1] = first
    BY <1>2 DEF Init
  <1>4. first.fn = Main /\ first.disp = <<1>>
    OBVIOUS
  <1> HIDE DEF first
  <1>5. Len(<<1>>) = 1 /\ <<1>>[1] = 1
    OBVIOUS
  <1>6. FrameRight(frames, 1)
    <2> DEFINE f == frames[1].fn
               disp == frames[1].disp
    <2>1. f = Main /\ disp = <<1>>
      BY <1>3, <1>4
    <2> HIDE DEF f, disp
    <2>2. Level[f] = 1 /\ Len(disp) = 1 /\ disp[1] = 1 /\ Scope[f] = {Main}
      BY <1>1, <1>5, <2>1
    <2>3. \A k \in 1..Level[f] : k = 1
      BY <2>2
    <2>4. \A k \in 1..Level[f] :
            /\ disp[k] \in k..1
            /\ Len(frames[disp[k]].disp) = k
            /\ \A j \in 1..k : frames[disp[k]].disp[j] = disp[j]
      BY <1>3, <1>4, <1>5, <2>1, <2>2, <2>3
    <2>5. \A h \in Scope[f] : Level[h] <= Level[f] /\ frames[disp[Level[h]]].fn = h
      BY <1>1, <1>3, <1>4, <2>1, <2>2
    <2>6. Len(disp) = Level[f] /\ disp[Level[f]] = 1
      BY <2>2
    <2> QED BY <2>4, <2>5, <2>6 DEF FrameRight, f, disp
  <1>7. hit \in HitType
    BY <1>1 DEF Init, HitType, Kind, Address
  <1> QED BY <1>3, <1>4, <1>6, <1>7 DEF IInv, Stack, RefsBelow

LEMMA ReturnIInv == ASSUME IInv, Return PROVE IInv'
  <1> DEFINE n == Len(frames) - 1
  <1>1. frames \in Seq(FrameType) /\ n \in Nat /\ n >= 1 /\ n <= Len(frames)
    BY DEF IInv, Stack, Return, Ebp
  <1>2. /\ frames' \in Seq(FrameType) /\ Len(frames') = n
        /\ \A i \in 1..n : frames'[i] = frames[i]
    BY <1>1 DEF Return, Ebp
  <1>3. \A i \in 1..n : FrameRight(frames, i)
    BY <1>1 DEF IInv, Stack
  <1> HIDE DEF n
  <1>4. \A i \in 1..n : FrameRight(frames', i)
    BY <1>1, <1>2, <1>3, FramesBelow
  <1>5. ASSUME ~OuterRefs, NEW i \in 2..n PROVE frames'[i].ref \in 1..i-1
    <2>1. i \in 1..n /\ i \in 2..Len(frames)
      BY <1>1
    <2> QED BY <1>2, <1>5, <2>1 DEF IInv, RefsBelow
  <1>6. frames'[1].fn = Main /\ hit' \in HitType
    BY <1>1, <1>2 DEF IInv, Stack, Return
  <1> QED BY <1>1, <1>2, <1>4, <1>5, <1>6 DEF IInv, Stack, RefsBelow

\* The display the prologue builds is right for the callee: it is the caller's
\* up to the function the callee is declared in, then the callee itself.
LEMMA PrologueRight ==
  ASSUME NEW fs \in Seq(FrameType), NEW gs \in Seq(FrameType), NEW n \in Nat \ {0},
         Len(fs) = n, Len(gs) = n + 1, \A i \in 1..n : gs[i] = fs[i],
         \A i \in 1..n : FrameRight(fs, i),
         NEW g \in Fn, g # Main, Parent[g] \in Scope[fs[n].fn], gs[n + 1].fn = g,
         gs[n + 1].disp = [k \in 1..Level[g] |-> IF k < Level[g] THEN fs[n].disp[k] ELSE n + 1]
  PROVE  FrameRight(gs, n + 1)
  <1> DEFINE f == fs[n].fn
             old == fs[n].disp
             new == gs[n + 1].disp
             par == Parent[g]
             p == old[Level[par]]
  <1>1. fs[n] \in FrameType /\ f \in Fn
    <2>1. fs[n] \in FrameType
      OBVIOUS
    <2> QED BY <2>1 DEF FrameType
  <1>2. /\ Level[f] \in Nat \ {0} /\ Level[g] \in Nat \ {0}
        /\ par \in Fn /\ Level[par] \in Nat \ {0} /\ Level[g] = Level[par] + 1
        /\ Scope[g] = {g} \cup Scope[par]
        /\ \A h \in Scope[par] : h \in Fn /\ Level[h] \in Nat \ {0}
    <2>1. par \in Fn
      BY FnFacts
    <2> QED BY <1>1, <2>1, FnFacts
  <1>3. /\ Len(new) = Level[g] /\ new[Level[g]] = n + 1
        /\ \A k \in 1..Level[par] : new[k] = old[k]
    BY <1>2
  <1>4. /\ Len(old) = Level[f] /\ old[Level[f]] = n
        /\ \A k \in 1..Level[f] :
             /\ old[k] \in k..n
             /\ Len(fs[old[k]].disp) = k
             /\ \A j \in 1..k : fs[old[k]].disp[j] = old[j]
        /\ \A h \in Scope[f] : Level[h] <= Level[f] /\ fs[old[Level[h]]].fn = h
    BY DEF FrameRight
  <1> HIDE DEF f, old, new
  <1>5. Level[par] <= Level[f] /\ Level[par] \in 1..Level[f] /\ fs[p].fn = par /\ p \in 1..n
    <2>1. par \in Scope[f]
      BY DEF f
    <2>2. Level[par] <= Level[f] /\ fs[p].fn = par
      BY <1>4, <2>1
    <2> QED BY <1>2, <1>4, <2>2
  <1>6. \A k \in 1..Level[par] : old[k] \in k..n /\ gs[old[k]] = fs[old[k]]
    BY <1>2, <1>4, <1>5
  <1>7. ASSUME NEW k \in 1..Level[g]
        PROVE  /\ new[k] \in k..n+1
               /\ Len(gs[new[k]].disp) = k
               /\ \A j \in 1..k : gs[new[k]].disp[j] = new[j]
    <2>1. CASE k \in 1..Level[par]
      <3>1. k \in 1..Level[f]
        BY <1>2, <1>5, <2>1
      <3>2. new[k] = old[k] /\ old[k] \in k..n /\ gs[new[k]] = fs[old[k]]
        BY <1>3, <1>6, <2>1
      <3>3. Len(fs[old[k]].disp) = k /\ \A j \in 1..k : fs[old[k]].disp[j] = old[j]
        BY <1>4, <3>1
      <3>4. \A j \in 1..k : new[j] = old[j]
        BY <1>2, <1>3, <2>1
      <3> QED BY <3>2, <3>3, <3>4
    <2>2. CASE k = Level[g]
      <3>1. new[k] = n + 1 /\ gs[new[k]].disp = new
        BY <1>3, <2>2 DEF new
      <3>2. k <= n + 1
        <4>1. Level[f] <= n
          BY <1>2, <1>4
        <4> QED BY <1>2, <1>5, <2>2, <4>1
      <3> QED BY <1>3, <2>2, <3>1, <3>2
    <2>3. k \in 1..Level[par] \/ k = Level[g]
      BY <1>2
    <2> QED BY <2>1, <2>2, <2>3
  <1>8. ASSUME NEW h \in Scope[g]
        PROVE  Level[h] <= Level[g] /\ gs[new[Level[h]]].fn = h
    <2>1. CASE h = g
      BY <1>2, <1>3, <2>1
    <2>2. CASE h \in Scope[par]
      <3>1. FrameRight(fs, p)
        BY <1>5
      <3>2. Level[h] <= Level[par] /\ fs[fs[p].disp[Level[h]]].fn = h
        BY <1>5, <2>2, <3>1 DEF FrameRight
      <3>3. Level[h] \in 1..Level[par]
        BY <1>2, <2>2, <3>2
      <3>4. fs[p].disp[Level[h]] = old[Level[h]]
        BY <1>4, <1>5, <3>3
      <3>5. gs[new[Level[h]]] = fs[old[Level[h]]]
        BY <1>3, <1>6, <3>3
      <3> QED BY <1>2, <3>2, <3>3, <3>4, <3>5
    <2> QED BY <1>2, <2>1, <2>2
  <1>9. Len(new) = Level[gs[n + 1].fn] /\ new[Level[gs[n + 1].fn]] = n + 1
    BY <1>3
  <1> QED BY <1>7, <1>8, <1>9 DEF FrameRight, new

\* In a program that leaves outer reference parameters alone, addr() answers the
\* number of a frame on the stack, and reads an uninitialised cell for none.
LEMMA AddrOnStack ==
  ASSUME IInv, ~OuterRefs, NEW h \in Fn, NEW kind \in Kind, <<h, kind>> \in Names
  PROVE  Addr(h, kind) \in 1..Ebp
  <1>1. /\ Ebp \in Nat \ {0} /\ Ebp \in 1..Ebp /\ Here = frames[Ebp]
        /\ FrameRight(frames, Ebp) /\ Here \in FrameType
    BY DEF IInv, Stack, Ebp, Here
  <1>2. Here.fn \in Fn /\ Level[Here.fn] \in Nat \ {0} /\ Level[h] \in Nat \ {0}
    <2>1. Here.fn \in Fn
      BY <1>1 DEF FrameType
    <2> QED BY <2>1, FnFacts
  <1>3. h \in Scope[Here.fn] /\ (kind = "ref" => h # Main /\ h = Here.fn)
    BY DEF Names, Kind
  <1>4. CASE h = Here.fn /\ kind = "var"
    BY <1>1, <1>4 DEF Addr
  <1>5. CASE h = Here.fn /\ kind = "ref"
    <2>1. Ebp # 1
      BY <1>3, <1>5 DEF IInv, Stack, Here
    <2>2. Ebp \in 2..Len(frames)
      <3>1. Len(frames) = Ebp
        BY DEF Ebp
      <3> QED BY <1>1, <2>1, <3>1
    <2>3. Here.ref \in 1..Ebp-1
      BY <1>1, <2>2 DEF IInv, RefsBelow
    <2>4. Addr(h, kind) = Here.ref
      BY <1>5 DEF Addr
    <2> QED BY <1>1, <2>3, <2>4
  <1>6. CASE h # Here.fn
    <2>1. Level[h] \in 1..Level[Here.fn]
      BY <1>1, <1>2, <1>3 DEF FrameRight
    <2>2. Here.disp[Level[h]] \in Level[h]..Ebp
      BY <1>1, <2>1 DEF FrameRight
    <2>3. Addr(h, kind) = Here.disp[Level[h]]
      BY <1>3, <1>6 DEF Addr, Kind
    <2> QED BY <1>1, <1>2, <2>2, <2>3
  <1> QED BY <1>4, <1>5, <1>6 DEF Kind

\* In any program addr() answers some address, if only a wild one.
LEMMA AddrTyped ==
  ASSUME IInv, NEW h \in Fn, NEW kind \in Kind, <<h, kind>> \in Names
  PROVE  Addr(h, kind) \in Address
  <1>1. /\ Ebp \in Nat /\ FrameRight(frames, Ebp) /\ Here = frames[Ebp] /\ Here \in FrameType
    BY DEF IInv, Stack, Ebp, Here
  <1>2. /\ Here.fn \in Fn /\ Here.disp \in Seq(Nat \ {0}) /\ Here.ref \in Address
    BY <1>1 DEF FrameType
  <1>3. h \in Scope[Here.fn]
    BY DEF Names
  <1>4. Level[h] \in 1..Level[Here.fn] /\ Len(Here.disp) = Level[Here.fn]
    BY <1>1, <1>2, <1>3, FnFacts DEF FrameRight
  <1>5. Here.disp[Level[h]] \in Nat
    BY <1>2, <1>4
  <1> QED BY <1>1, <1>2, <1>5 DEF Addr, Address

LEMMA CallIInv ==
  ASSUME IInv, NEW g \in Fn, NEW h \in Fn, NEW kind \in Kind, Call(g, h, kind)
  PROVE  IInv'
  <1> DEFINE n == Len(frames)
             new == [fn |-> g, disp |-> Prologue(g), ref |-> Addr(h, kind)]
  <1>1. /\ n \in Nat \ {0} /\ n \in 1..n /\ n = Ebp
        /\ frames \in Seq(FrameType)
        /\ \A i \in 1..n : FrameRight(frames, i)
        /\ frames[n] = Here /\ Here \in FrameType
    BY DEF IInv, Stack, Ebp, Here
  <1>2. /\ g # Main /\ Parent[g] \in Scope[frames[n].fn]
        /\ <<h, kind>> \in Names
        /\ hit' = [fn |-> h, kind |-> kind, at |-> Addr(h, kind)]
        /\ frames' = Append(frames, new)
    BY DEF Call, Ebp, Here
  <1>3. new.ref \in Address /\ (~OuterRefs => new.ref \in 1..n)
    BY <1>1, <1>2, AddrTyped, AddrOnStack
  <1>4. Prologue(g) = [k \in 1..Level[g] |-> IF k < Level[g] THEN frames[n].disp[k] ELSE n + 1]
    BY <1>1 DEF Prologue
  <1>5. Prologue(g) \in Seq(Nat \ {0})
    <2>1. Here.fn \in Fn /\ Len(Here.disp) = Level[Here.fn] /\ Here.disp \in Seq(Nat \ {0})
      BY <1>1 DEF FrameType, FrameRight
    <2>2. Parent[g] \in Fn /\ Level[g] = Level[Parent[g]] + 1
      <3>1. Parent[g] \in Fn
        BY <1>2, FnFacts
      <3> QED BY <1>2, <3>1, FnFacts
    <2>3. /\ Level[Parent[g]] <= Level[Here.fn] /\ Level[Parent[g]] \in Nat
          /\ Level[Here.fn] \in Nat /\ Level[g] \in Nat
      BY <1>1, <1>2, <2>1, <2>2, FnFacts DEF FrameRight
    <2>4. ASSUME NEW k \in 1..Level[g]
          PROVE  (IF k < Level[g] THEN Here.disp[k] ELSE n + 1) \in Nat \ {0}
      <3>1. CASE k < Level[g]
        <4>1. k \in 1..Len(Here.disp)
          BY <2>1, <2>2, <2>3, <3>1
        <4> QED BY <2>1, <3>1, <4>1
      <3>2. CASE ~(k < Level[g])
        BY <1>1, <3>2
      <3> QED BY <3>1, <3>2
    <2> QED BY <1>1, <1>4, <2>3, <2>4
  <1>6. new \in FrameType
    BY <1>1, <1>3, <1>5 DEF FrameType
  <1>7. /\ new.fn = g /\ new.disp = Prologue(g)
        /\ new.ref = Addr(h, kind)
    OBVIOUS
  <1> HIDE DEF new, n
  <1>8. /\ frames' \in Seq(FrameType) /\ Len(frames') = n + 1
        /\ \A i \in 1..n : frames'[i] = frames[i]
        /\ frames'[n + 1] = new
    BY <1>1, <1>2, <1>6, AppendProperties DEF n
  <1>9. \A i \in 1..n : FrameRight(frames', i)
    BY <1>1, <1>8, FramesBelow DEF n
  <1>10. FrameRight(frames', n + 1)
    <2>1. Len(frames) = n
      BY DEF n
    <2> QED BY <1>1, <1>2, <1>4, <1>7, <1>8, <2>1, PrologueRight
  <1>11. ASSUME NEW i \in 1..n+1 PROVE FrameRight(frames', i)
    <2>1. i \in 1..n \/ i = n + 1
      BY <1>1
    <2> QED BY <1>9, <1>10, <2>1
  <1>12. ASSUME ~OuterRefs, NEW i \in 2..n+1 PROVE frames'[i].ref \in 1..i-1
    <2>1. CASE i \in 2..n
      <3>1. i \in 1..n /\ i \in 2..Len(frames)
        BY <1>1, <2>1 DEF n
      <3> QED BY <1>8, <1>12, <3>1 DEF IInv, RefsBelow
    <2>2. CASE i = n + 1
      BY <1>1, <1>3, <1>8, <1>12, <2>2
    <2>3. i \in 2..n \/ i = n + 1
      BY <1>1
    <2> QED BY <2>1, <2>2, <2>3
  <1>13. frames'[1].fn = Main /\ hit' \in HitType
    <2>1. frames'[1].fn = Main
      BY <1>1, <1>8 DEF IInv, Stack
    <2>2. Addr(h, kind) \in Address
      BY <1>3, <1>7
    <2> QED BY <1>2, <2>1, <2>2 DEF HitType
  <1> QED BY <1>1, <1>8, <1>11, <1>12, <1>13 DEF IInv, Stack, RefsBelow

LEMMA AccessIInv ==
  ASSUME IInv, NEW h \in Fn, NEW kind \in Kind, Access(h, kind)
  PROVE  IInv'
  <1>1. Addr(h, kind) \in Address /\ hit' = [fn |-> h, kind |-> kind, at |-> Addr(h, kind)]
    BY AddrTyped DEF Access
  <1>2. frames' = frames
    BY DEF Access
  <1>3. hit' \in HitType
    BY <1>1 DEF HitType
  <1> QED BY <1>2, <1>3 DEF IInv

LEMMA NextIInv == IInv /\ [Next]_vars => IInv'
  <1> SUFFICES ASSUME IInv, [Next]_vars PROVE IInv'
    OBVIOUS
  <1>1. CASE \E g, h \in Fn, kind \in Kind : Call(g, h, kind)
    BY <1>1, CallIInv
  <1>2. CASE Return
    BY <1>2, ReturnIInv
  <1>3. CASE \E h \in Fn, kind \in Kind : Access(h, kind)
    BY <1>3, AccessIInv
  <1>4. CASE UNCHANGED vars
    <2>1. frames' = frames /\ hit' = hit
      BY <1>4 DEF vars
    <2> QED BY <2>1 DEF IInv
  <1> QED BY <1>1, <1>2, <1>3, <1>4 DEF Next, Kind

LEMMA Invariant == Spec => []IInv
  BY InitIInv, NextIInv, PTL DEF Spec

\* Whatever the nesting of the functions and the order of the calls, frames and
\* displays are well formed.  Code: the prologues pl0_x86_gen emits.
THEOREM DisplayTyped == Spec => []TypeOK
  BY Invariant, IInvImplies, PTL

\* Whatever the nesting of the functions, the order of the calls and the
\* arguments, every display holds the frames of the functions around its own.
\* Code: the prologues pl0_x86_gen emits.
THEOREM DisplayInvariant == Spec => []DisplayRight
  BY Invariant, IInvImplies, PTL

\* If nested functions leave outer reference parameters alone, every reference
\* parameter holds the address of a variable of an older frame, so that it never
\* dangles.  Code: addr() and the pushes of call.
THEOREM ReferencesStayAlive == ~OuterRefs => (Spec => []ReferencesAlive)
  <1> SUFFICES ASSUME ~OuterRefs PROVE Spec => []ReferencesAlive
    OBVIOUS
  <1>1. IInv => ReferencesAlive
    BY IInvImplies
  <1> QED BY <1>1, Invariant, PTL

-------------------------------------------------------------------------------
(* Refinement: the display replaces the static links.                      *)

\* One link of the mapping, for a frame f.
Link(f) ==
    [fn  |-> f.fn,
     up  |-> IF Level[f.fn] = 1 THEN 0 ELSE f.disp[Level[f.fn] - 1],
     ref |-> f.ref]

LinkType == [fn : Fn, up : Nat, ref : Address]

LEMMA LinkOk ==
  ASSUME NEW fs \in Seq(FrameType), NEW i \in 1..Len(fs), FrameRight(fs, i)
  PROVE  Link(fs[i]) \in LinkType
  <1>1. fs[i] \in FrameType /\ fs[i].fn \in Fn /\ fs[i].disp \in Seq(Nat \ {0}) /\ fs[i].ref \in Address
    <2>1. fs[i] \in FrameType OBVIOUS
    <2> QED BY <2>1 DEF FrameType
  <1>2. Level[fs[i].fn] \in Nat \ {0} /\ Len(fs[i].disp) = Level[fs[i].fn]
    BY <1>1, FnFacts DEF FrameRight
  <1>3. Level[fs[i].fn] # 1 => fs[i].disp[Level[fs[i].fn] - 1] \in Nat
    <2> SUFFICES ASSUME Level[fs[i].fn] # 1 PROVE fs[i].disp[Level[fs[i].fn] - 1] \in Nat
      OBVIOUS
    <2>1. Level[fs[i].fn] - 1 \in 1..Len(fs[i].disp)
      BY <1>2
    <2> QED BY <1>1, <2>1
  <1> QED BY <1>1, <1>3 DEF Link, LinkType

LinksOf(fs) == [i \in 1..Len(fs) |-> Link(fs[i])]

LEMMA LinksOfOk ==
  ASSUME NEW fs, Stack(fs)
  PROVE  /\ LinksOf(fs) \in Seq(LinkType) /\ Len(LinksOf(fs)) = Len(fs)
         /\ \A i \in 1..Len(fs) : LinksOf(fs)[i] = Link(fs[i])
  <1>1. fs \in Seq(FrameType) /\ Len(fs) \in Nat /\ \A i \in 1..Len(fs) : FrameRight(fs, i)
    BY DEF Stack
  <1>2. \A i \in 1..Len(fs) : Link(fs[i]) \in LinkType
    BY <1>1, LinkOk
  <1> QED BY <1>1, <1>2 DEF LinksOf

LEMMA LinksIs ==
  ASSUME IInv
  PROVE  /\ Links \in Seq(LinkType) /\ Len(Links) = Ebp
         /\ \A i \in 1..Ebp : Links[i] = Link(frames[i])
  <1>1. Links = LinksOf(frames)
    BY DEF Links, LinksOf, Link
  <1> QED BY <1>1, LinksOfOk DEF IInv, Ebp

\* Following the links from the running function reaches the frame its display
\* has for each function around it.
LEMMA ChainIsDisplay ==
  ASSUME IInv, NEW h \in Scope[Here.fn]
  PROVE  /\ Here.disp[Level[h]] \in 1..Ebp
         /\ frames[Here.disp[Level[h]]].fn = h
         /\ Links[Here.disp[Level[h]]].fn = h
         /\ Abstract!OnChain(Here.disp[Level[h]], Ebp)
  <1> DEFINE top == Level[Here.fn]
             d == Level[h]
             disp == Here.disp
  <1>1. /\ Ebp \in Nat \ {0} /\ Ebp = Len(frames) /\ Here = frames[Ebp]
        /\ \A i \in 1..Ebp : FrameRight(frames, i) /\ frames[i] \in FrameType
    BY DEF IInv, Stack, Ebp, Here
  <1>2. top \in Nat \ {0} /\ d \in Nat \ {0}
    <2>1. Here.fn \in Fn
      BY <1>1 DEF FrameType
    <2> QED BY <2>1, FnFacts
  <1>3. FrameRight(frames, Ebp)
    BY <1>1
  <1>4. /\ disp[top] = Ebp /\ d <= top /\ frames[disp[d]].fn = h
        /\ \A k \in 1..top :
             /\ disp[k] \in k..Ebp
             /\ Len(frames[disp[k]].disp) = k
             /\ \A j \in 1..k : frames[disp[k]].disp[j] = disp[j]
    BY <1>1, <1>3 DEF FrameRight
  <1> HIDE DEF top, d, disp
  <1>5. /\ Len(Links) = Ebp
        /\ \A i \in 1..Ebp : Links[i] = Link(frames[i])
    BY LinksIs
  <1>6. d \in 1..top /\ \A k \in 1..top : disp[k] \in 1..Ebp
    BY <1>2, <1>4
  <1>7. ASSUME NEW k \in 2..top PROVE Links[disp[k]].up = disp[k - 1]
    <2> DEFINE f == frames[disp[k]]
    <2>1. k \in 1..top /\ k - 1 \in 1..k /\ k # 1
      BY <1>2
    <2>2. disp[k] \in 1..Ebp /\ Len(f.disp) = k /\ f.disp[k - 1] = disp[k - 1]
      BY <1>4, <1>6, <2>1
    <2>3. Level[f.fn] = k
      BY <1>1, <2>2 DEF FrameRight
    <2>4. Links[disp[k]] = Link(f)
      BY <1>5, <2>2
    <2> HIDE DEF f
    <2> QED BY <2>1, <2>2, <2>3, <2>4 DEF Link
  <1> DEFINE n == top - d + 1
             path == [j \in 1..n |-> disp[top - j + 1]]
  <1>8. n \in 1..Ebp
    <2>1. disp[top] \in top..Ebp
      BY <1>2, <1>4
    <2>2. top <= Ebp /\ d <= top
      BY <1>1, <1>2, <1>4, <2>1
    <2> QED BY <1>1, <1>2, <2>2
  <1>9. \A j \in 1..n : top - j + 1 \in 1..top
    BY <1>2, <1>6
  <1>10. path \in [1..n -> 1..Ebp]
    BY <1>6, <1>9
  <1>11. path[1] = Ebp /\ path[n] = disp[d]
    <2>1. 1 \in 1..n /\ n \in 1..n /\ top - 1 + 1 = top /\ top - n + 1 = d
      BY <1>2, <1>8
    <2> QED BY <1>4, <2>1
  <1>12. ASSUME NEW j \in 1..n-1 PROVE Links[path[j]].up = path[j + 1]
    <2>1. /\ j \in 1..n /\ j + 1 \in 1..n
          /\ top - j + 1 \in 2..top /\ (top - j + 1) - 1 = top - (j + 1) + 1
      BY <1>2, <1>6, <1>8
    <2>2. path[j] = disp[top - j + 1] /\ path[j + 1] = disp[top - (j + 1) + 1]
      BY <2>1
    <2> QED BY <1>7, <2>1, <2>2
  <1> HIDE DEF n, path
  <1>13. Abstract!OnChain(disp[d], Ebp)
    BY <1>5, <1>8, <1>10, <1>11, <1>12 DEF Abstract!OnChain, Abstract!Top
  <1>14. disp[d] \in 1..Ebp /\ Links[disp[d]].fn = h
    BY <1>4, <1>5, <1>6 DEF Link
  <1> QED BY <1>4, <1>13, <1>14 DEF disp, d

\* What addr() answers is the storage the name denotes.
LEMMA AddrDenotes ==
  ASSUME IInv, ~OuterRefs, NEW h \in Fn, NEW kind \in Kind, <<h, kind>> \in Names
  PROVE  Abstract!Denotes(h, kind, Addr(h, kind))
  <1> DEFINE p == Here.disp[Level[h]]
  <1>1. h \in Scope[Here.fn] /\ (kind = "ref" => h = Here.fn)
    BY DEF Names, Kind
  <1>2. p \in 1..Ebp /\ Links[p].fn = h /\ Abstract!OnChain(p, Ebp)
    BY <1>1, ChainIsDisplay
  <1>3. Len(Links) = Ebp /\ Links[p] = Link(frames[p])
    BY <1>2, LinksIs
  <1>4. h = Here.fn => p = Ebp
    <2>1. Ebp \in 1..Len(frames) /\ Here = frames[Ebp]
      BY DEF IInv, Stack, Ebp, Here
    <2> QED BY <2>1 DEF IInv, Stack, FrameRight
  <1>5. Addr(h, kind) = IF kind = "var" THEN p ELSE Links[p].ref
    <2>1. CASE kind = "var"
      BY <1>4, <2>1 DEF Addr
    <2>2. CASE kind = "ref"
      <3>1. h = Here.fn /\ p = Ebp
        BY <1>1, <1>4, <2>2
      <3>2. Addr(h, kind) = Here.ref
        BY <2>2, <3>1 DEF Addr
      <3>3. Links[p].ref = Here.ref
        BY <1>3, <3>1 DEF Link, Here
      <3> QED BY <2>2, <3>2, <3>3
    <2> QED BY <2>1, <2>2 DEF Kind
  <1> HIDE DEF p
  <1> QED BY <1>2, <1>3, <1>5 DEF Abstract!Denotes, Abstract!Top

LEMMA InitRefines == Init => Abstract!Init
  <1> SUFFICES ASSUME Init PROVE Abstract!Init
    OBVIOUS
  <1> DEFINE none == [fn |-> Main, up |-> 0, ref |-> 0]
  <1>1. IInv
    BY InitIInv
  <1>2. Len(frames) = 1 /\ frames[1].fn = Main /\ frames[1].ref = 0 /\ Level[Main] = 1
    BY LevelAssumption DEF Init
  <1>3. Links \in Seq(LinkType) /\ Len(Links) = 1 /\ Links[1] = none
    BY <1>1, <1>2, LinksIs DEF Ebp, Link
  <1>4. Links = <<none>>
    BY <1>3
  <1> QED BY <1>4 DEF Init, Abstract!Init

LEMMA CallRefines ==
  ASSUME IInv, IInv', ~OuterRefs, NEW g \in Fn, NEW h \in Fn, NEW kind \in Kind, Call(g, h, kind)
  PROVE  Abstract!Call(g, h, kind)
  <1> DEFINE n == Ebp
             par == Parent[g]
             p == Here.disp[Level[par]]
             r == Addr(h, kind)
             new == [fn |-> g, up |-> p, ref |-> r]
  <1>1. /\ g # Main /\ n < MaxFrames /\ par \in Scope[Here.fn]
        /\ <<h, kind>> \in Names /\ h \in Scope[Here.fn]
        /\ hit' = [fn |-> h, kind |-> kind, at |-> r]
        /\ frames' = Append(frames, [fn |-> g, disp |-> Prologue(g), ref |-> r])
    BY DEF Call, Names
  <1>2. n \in Nat \ {0} /\ n = Len(frames) /\ frames \in Seq(FrameType) /\ Here \in FrameType
    BY DEF IInv, Stack, Ebp, Here
  <1>3. p \in 1..n /\ Links[p].fn = par /\ Abstract!OnChain(p, n)
    BY <1>1, ChainIsDisplay
  <1>4. r \in 1..n /\ Abstract!Denotes(h, kind, r)
    BY <1>1, AddrOnStack, AddrDenotes
  <1>5. /\ Len(frames') = n + 1
        /\ frames'[n + 1] = [fn |-> g, disp |-> Prologue(g), ref |-> r]
        /\ \A i \in 1..n : frames'[i] = frames[i]
    BY <1>1, <1>2
  <1>6. Links \in Seq(LinkType) /\ Len(Links) = n /\ \A i \in 1..n : Links[i] = Link(frames[i])
    BY LinksIs
  <1>7. Links' = LinksOf(frames') /\ Stack(frames')
    BY DEF Links, LinksOf, Link, IInv
  <1>8. /\ Links' \in Seq(LinkType) /\ Len(Links') = n + 1
        /\ \A i \in 1..n+1 : Links'[i] = Link(frames'[i])
    BY <1>5, <1>7, LinksOfOk
  <1>9. Links'[n + 1] = new
    <2>1. par \in Fn
      BY <1>1, <1>2, FnFacts DEF FrameType
    <2>2. Level[g] = Level[par] + 1 /\ Level[par] \in Nat \ {0}
      BY <1>1, <2>1, FnFacts
    <2>3. Prologue(g)[Level[g] - 1] = p /\ Level[g] # 1
      BY <2>2 DEF Prologue
    <2>4. Links'[n + 1] = Link(frames'[n + 1])
      BY <1>2, <1>8
    <2> QED BY <1>5, <2>3, <2>4 DEF Link
  <1>10. \A i \in 1..n : Links'[i] = Links[i]
    BY <1>5, <1>6, <1>8
  <1>11. new \in LinkType
    <2>1. n + 1 \in 1..Len(Links')
      BY <1>2, <1>8
    <2> QED BY <1>8, <1>9, <2>1
  <1> HIDE DEF n, new, p, r
  <1>12. Links' = Append(Links, new)
    <2>1. /\ Append(Links, new) \in Seq(LinkType) /\ Len(Append(Links, new)) = n + 1
          /\ \A i \in 1..n : Append(Links, new)[i] = Links[i]
          /\ Append(Links, new)[n + 1] = new
      BY <1>6, <1>11, AppendProperties
    <2>2. \A i \in 1..n+1 : Links'[i] = Append(Links, new)[i]
      <3>1. \A i \in 1..n+1 : i \in 1..n \/ i = n + 1
        BY <1>2
      <3> QED BY <1>9, <1>10, <2>1, <3>1
    <2> QED BY <1>8, <2>1, <2>2, SeqEqual
  <1>13. Links[n].fn = Here.fn /\ Len(Links) = n
    <2>1. n \in 1..n /\ Here = frames[n]
      BY <1>2 DEF Here, n
    <2> QED BY <1>6, <2>1 DEF Link
  <1>14. \E q \in 1..Len(Links), v \in 0..Len(Links) :
           /\ Links[q].fn = par /\ Abstract!OnChain(q, Len(Links))
           /\ Abstract!Denotes(h, kind, v)
           /\ Links' = Append(Links, [fn |-> g, up |-> q, ref |-> v])
           /\ hit' = [fn |-> h, kind |-> kind, at |-> v]
    <2>1. p \in 1..Len(Links) /\ r \in 0..Len(Links)
      BY <1>2, <1>3, <1>4, <1>13
    <2>2. Links' = Append(Links, [fn |-> g, up |-> p, ref |-> r])
      BY <1>12 DEF new
    <2> QED BY <1>1, <1>3, <1>4, <1>13, <2>1, <2>2
  <1>15. g # Main /\ Len(Links) < MaxFrames /\ {par, h} \subseteq Scope[Links[Len(Links)].fn]
    BY <1>1, <1>13
  <1> QED BY <1>1, <1>14, <1>15 DEF Abstract!Call, Abstract!Top, par

LEMMA ReturnRefines ==
  ASSUME IInv, IInv', Return
  PROVE  Abstract!Return
  <1> DEFINE n == Ebp - 1
  <1>1. /\ n \in Nat /\ n >= 1 /\ n <= Len(frames) /\ Ebp = Len(frames)
        /\ frames \in Seq(FrameType) /\ hit' = hit
    BY DEF IInv, Stack, Return, Ebp
  <1>2. Len(frames') = n /\ \A i \in 1..n : frames'[i] = frames[i]
    BY <1>1 DEF Return
  <1>3. Links \in Seq(LinkType) /\ Len(Links) = Ebp /\ \A i \in 1..Ebp : Links[i] = Link(frames[i])
    BY LinksIs
  <1>4. Links' = LinksOf(frames') /\ Stack(frames')
    BY DEF Links, LinksOf, Link, IInv
  <1>5. /\ Links' \in Seq(LinkType) /\ Len(Links') = n
        /\ \A i \in 1..n : Links'[i] = Link(frames'[i])
    BY <1>2, <1>4, LinksOfOk
  <1>6. \A i \in 1..n : Links'[i] = Links[i]
    <2>1. \A i \in 1..n : i \in 1..Ebp
      BY <1>1
    <2> QED BY <1>2, <1>3, <1>5, <2>1
  <1> HIDE DEF n
  <1>7. Links' = SubSeq(Links, 1, n)
    <2>1. /\ SubSeq(Links, 1, n) \in Seq(LinkType) /\ Len(SubSeq(Links, 1, n)) = n
          /\ \A i \in 1..n : SubSeq(Links, 1, n)[i] = Links[i]
      BY <1>1, <1>3
    <2> QED BY <1>5, <1>6, <2>1, SeqEqual
  <1> QED BY <1>1, <1>3, <1>7 DEF Abstract!Return, Abstract!Top, Return, n

LEMMA AccessRefines ==
  ASSUME IInv, ~OuterRefs, NEW h \in Fn, NEW kind \in Kind, Access(h, kind)
  PROVE  Abstract!Access(h, kind)
  <1>1. /\ <<h, kind>> \in Names /\ h \in Scope[Here.fn] /\ frames' = frames
        /\ hit' = [fn |-> h, kind |-> kind, at |-> Addr(h, kind)]
    BY DEF Access, Names
  <1>2. Abstract!Denotes(h, kind, Addr(h, kind)) /\ Addr(h, kind) \in 0..Ebp
    <2>1. Addr(h, kind) \in 1..Ebp
      BY <1>1, AddrOnStack
    <2>2. Ebp \in Nat
      BY DEF Ebp, IInv, Stack
    <2> QED BY <1>1, <2>1, <2>2, AddrDenotes
  <1>3. Links[Ebp].fn = Here.fn /\ Len(Links) = Ebp
    <2>1. Ebp \in 1..Ebp
      BY DEF IInv, Stack, Ebp
    <2> QED BY <2>1, LinksIs DEF Link, Here
  <1>4. Links' = Links
    BY <1>1 DEF Links
  <1> QED BY <1>1, <1>2, <1>3, <1>4 DEF Abstract!Access, Abstract!Top

LEMMA NextRefines == ~OuterRefs /\ IInv /\ IInv' /\ [Next]_vars => [Abstract!Next]_(Abstract!avars)
  <1> SUFFICES ASSUME ~OuterRefs, IInv, IInv', [Next]_vars PROVE [Abstract!Next]_(Abstract!avars)
    OBVIOUS
  <1>1. CASE \E g, h \in Fn, kind \in Kind : Call(g, h, kind)
    BY <1>1, CallRefines DEF Abstract!Next, Kind
  <1>2. CASE Return
    BY <1>2, ReturnRefines DEF Abstract!Next
  <1>3. CASE \E h \in Fn, kind \in Kind : Access(h, kind)
    BY <1>3, AccessRefines DEF Abstract!Next, Kind
  <1>4. CASE UNCHANGED vars
    BY <1>4 DEF vars, Abstract!avars, Links
  <1> QED BY <1>1, <1>2, <1>3, <1>4 DEF Next, Kind

\* The prologues and addr() implement the static links: every call is linked to
\* the right enclosing activation, and every access and every argument by
\* reference reaches the storage its name denotes.
THEOREM DisplayRefinesStaticLinks == ~OuterRefs => (Spec => ImplementsStaticLinks)
  <1> SUFFICES ASSUME ~OuterRefs PROVE Spec => Abstract!Spec
    BY DEF ImplementsStaticLinks
  <1>1. Init => IInv BY InitIInv
  <1>2. IInv /\ [Next]_vars => IInv' BY NextIInv
  <1>3. Init => Abstract!Init BY InitRefines
  <1>4. IInv /\ IInv' /\ [Next]_vars => [Abstract!Next]_(Abstract!avars) BY NextRefines
  <1> QED BY <1>1, <1>2, <1>3, <1>4, PTL DEF Spec, Abstract!Spec

==============================================================================
