---------------------------- MODULE TablesProofs ----------------------------
(***************************************************************************)
(* The five tables of Tables are in step, for every set of identifiers and *)
(* every bound.                                                            *)
(*                                                                         *)
(* InStep speaks of the innermost routine.  When that one is left, the     *)
(* lengths must be right for the one around it, so the inductive invariant *)
(* adds that every outer routine waits among its nested routines, and that *)
(* there is one of them for every name in scope.                           *)
(***************************************************************************)
EXTENDS Tables, TLAPS

Walk == [phase : Phases, sort : {"proc", "func"}, params : Nat, left : Nat]

IsSeq(s) == Len(s) \in Nat /\ s = [i \in 1..Len(s) |-> s[i]]

Nested ==
    /\ scope \in Seq(Id) /\ part \in Seq(Walk)
    /\ Len(part) = Len(scope) + 1
    /\ \A k \in 1..Len(scope) : part[k].phase = "exec"

Tagged == IsSeq(valtags) /\ IsSeq(vartags) /\ IsSeq(proctags) /\ IsSeq(functags)
          /\ IsSeq(loctags)

StepInv == Nested /\ Tagged /\ InStep

-------------------------------------------------------------------------------
LEMMA IsSeqSeq ==
    ASSUME NEW s, IsSeq(s)
    PROVE  s \in Seq({s[i] : i \in 1..Len(s)})
BY DEF IsSeq

LEMMA SeqIsSeq ==
    ASSUME NEW S, NEW s \in Seq(S)
    PROVE  IsSeq(s)
BY DEF IsSeq

\* A tag makes the stack of tags one longer.
LEMMA Grows ==
    ASSUME NEW s, IsSeq(s), NEW e
    PROVE  IsSeq(Append(s, e)) /\ Len(Append(s, e)) = Len(s) + 1
<1> DEFINE S == {s[i] : i \in 1..Len(s)} \cup {e}
<1>1. s \in Seq(S)
  BY IsSeqSeq DEF IsSeq
<1>2. e \in S
  OBVIOUS
<1> HIDE DEF S
<1>3. Append(s, e) \in Seq(S) /\ Len(Append(s, e)) = Len(s) + 1
  BY <1>1, <1>2
<1>4. QED
  BY <1>3, SeqIsSeq

\* A detag makes it one shorter.
LEMMA Shrinks ==
    ASSUME NEW s, IsSeq(s), Len(s) > 1
    PROVE  IsSeq(SubSeq(s, 1, Len(s) - 1)) /\ Len(SubSeq(s, 1, Len(s) - 1)) = Len(s) - 1
<1> DEFINE S == {s[i] : i \in 1..Len(s)}
<1>1. s \in Seq(S)
  BY IsSeqSeq
<1> HIDE DEF S
<1>2. Len(s) \in Nat
  BY DEF IsSeq
<1>3. SubSeq(s, 1, Len(s) - 1) \in Seq(S) /\ Len(SubSeq(s, 1, Len(s) - 1)) = Len(s) - 1
  BY <1>1, <1>2
<1>4. QED
  BY <1>3, SeqIsSeq

\* What the operations of pl0_env do to the tags of the five tables.
LEMMA Tags ==
    ASSUME Tagged
    PROVE  /\ val!Tag => IsSeq(valtags)' /\ Len(valtags)' = Len(valtags) + 1
           /\ var!Tag => IsSeq(vartags)' /\ Len(vartags)' = Len(vartags) + 1
           /\ proc!Tag => IsSeq(proctags)' /\ Len(proctags)' = Len(proctags) + 1
           /\ func!Tag => IsSeq(functags)' /\ Len(functags)' = Len(functags) + 1
           /\ loc!Tag => IsSeq(loctags)' /\ Len(loctags)' = Len(loctags) + 1
<1>1. val!Tag => IsSeq(valtags)' /\ Len(valtags)' = Len(valtags) + 1
  BY Grows DEF Tagged, val!Tag
<1>2. var!Tag => IsSeq(vartags)' /\ Len(vartags)' = Len(vartags) + 1
  BY Grows DEF Tagged, var!Tag
<1>3. proc!Tag => IsSeq(proctags)' /\ Len(proctags)' = Len(proctags) + 1
  BY Grows DEF Tagged, proc!Tag
<1>4. func!Tag => IsSeq(functags)' /\ Len(functags)' = Len(functags) + 1
  BY Grows DEF Tagged, func!Tag
<1>5. loc!Tag => IsSeq(loctags)' /\ Len(loctags)' = Len(loctags) + 1
  BY Grows DEF Tagged, loc!Tag
<1>6. QED
  BY <1>1, <1>2, <1>3, <1>4, <1>5

\* and to the tags only.
LEMMA Detags ==
    ASSUME Tagged
    PROVE  /\ val!Detag => IsSeq(valtags)' /\ Len(valtags)' = Len(valtags) - 1
           /\ var!Detag => IsSeq(vartags)' /\ Len(vartags)' = Len(vartags) - 1
           /\ proc!Detag => IsSeq(proctags)' /\ Len(proctags)' = Len(proctags) - 1
           /\ func!Detag => IsSeq(functags)' /\ Len(functags)' = Len(functags) - 1
           /\ loc!Detag => IsSeq(loctags)' /\ Len(loctags)' = Len(loctags) - 1
<1>1. val!Detag => IsSeq(valtags)' /\ Len(valtags)' = Len(valtags) - 1
  BY Shrinks DEF Tagged, val!Detag
<1>2. var!Detag => IsSeq(vartags)' /\ Len(vartags)' = Len(vartags) - 1
  BY Shrinks DEF Tagged, var!Detag
<1>3. proc!Detag => IsSeq(proctags)' /\ Len(proctags)' = Len(proctags) - 1
  BY Shrinks DEF Tagged, proc!Detag
<1>4. func!Detag => IsSeq(functags)' /\ Len(functags)' = Len(functags) - 1
  BY Shrinks DEF Tagged, func!Detag
<1>5. loc!Detag => IsSeq(loctags)' /\ Len(loctags)' = Len(loctags) - 1
  BY Shrinks DEF Tagged, loc!Detag
<1>6. QED
  BY <1>1, <1>2, <1>3, <1>4, <1>5

\* The walk goes on in the same routine, with the part g of it.
LEMMA Replaced ==
    ASSUME NEW s \in Seq(Walk), Len(s) > 0, NEW g \in Walk
    PROVE  LET t == [s EXCEPT ![Len(s)] = g]
           IN /\ t \in Seq(Walk) /\ Len(t) = Len(s) /\ t[Len(t)] = g
              /\ \A k \in 1..(Len(s) - 1) : t[k] = s[k]
OBVIOUS

\* The walk enters a routine and leaves one.
LEMMA Entered ==
    ASSUME NEW s \in Seq(Walk), Len(s) > 0, NEW g \in Walk, NEW h \in Walk
    PROVE  LET t == Append([s EXCEPT ![Len(s)] = g], h)
           IN /\ t \in Seq(Walk) /\ Len(t) = Len(s) + 1 /\ t[Len(t)] = h
              /\ t[Len(s)] = g
              /\ \A k \in 1..(Len(s) - 1) : t[k] = s[k]
<1> DEFINE r == [s EXCEPT ![Len(s)] = g]
<1>1. /\ r \in Seq(Walk) /\ Len(r) = Len(s) /\ r[Len(s)] = g
      /\ \A k \in 1..(Len(s) - 1) : r[k] = s[k]
  BY Replaced
<1> HIDE DEF r
<1>2. LET t == Append(r, h)
      IN /\ t \in Seq(Walk) /\ Len(t) = Len(s) + 1 /\ t[Len(t)] = h
         /\ t[Len(s)] = g
         /\ \A k \in 1..(Len(s) - 1) : t[k] = s[k]
  BY <1>1
<1>3. QED
  BY <1>2 DEF r

LEMMA Left ==
    ASSUME NEW S, NEW s \in Seq(S), Len(s) > 0
    PROVE  /\ Outer(s) \in Seq(S) /\ Len(Outer(s)) = Len(s) - 1
           /\ \A k \in 1..(Len(s) - 1) : Outer(s)[k] = s[k]
<1> DEFINE n == Len(s) - 1
<1>1. n \in 0..Len(s) /\ Len(s) \in Nat
  OBVIOUS
<1> HIDE DEF n
<1>2. SubSeq(s, 1, n) \in Seq(S)
  BY <1>1
<1>3. Len(SubSeq(s, 1, n)) = n
  BY <1>1
<1>4. \A k \in 1..n : SubSeq(s, 1, n)[k] = s[k]
  BY <1>1
<1>5. QED
  BY <1>2, <1>3, <1>4 DEF Outer, n

-------------------------------------------------------------------------------
\* The frame Here is one of part.
LEMMA HereIn ==
    ASSUME Nested
    PROVE  Here \in Walk /\ Len(part) > 0 /\ Len(scope) \in Nat
BY DEF Nested, Here

LEMMA Moved ==
    ASSUME Nested, NEW phase \in Phases, Move(phase), UNCHANGED scope
    PROVE  Nested' /\ (Here.phase)' = phase
<1> DEFINE g == [Here EXCEPT !.phase = phase]
<1>1. Here \in Walk /\ Len(part) > 0 /\ Len(scope) \in Nat
  BY HereIn
<1>2. g \in Walk /\ g.phase = phase
  BY <1>1 DEF Walk
<1>3. part' = [part EXCEPT ![Len(part)] = g]
  BY DEF Move, Here
<1> HIDE DEF g
<1>4. part \in Seq(Walk)
  BY DEF Nested
<1>5. /\ part' \in Seq(Walk) /\ Len(part') = Len(part) /\ part'[Len(part')] = g
      /\ \A k \in 1..(Len(part) - 1) : part'[k] = part[k]
  BY <1>1, <1>2, <1>3, <1>4, Replaced
<1>6. QED
  BY <1>1, <1>2, <1>5 DEF Nested, Here

AllTags == <<valtags, vartags, proctags, functags, loctags>>

\* Steps that neither tag nor detag, inside the declarations and statements of
\* one routine or among its parameters.
LEMMA Kept ==
    ASSUME StepInv, UNCHANGED <<AllTags, scope>>, NEW phase \in Phases,
           Here.phase \in InProg <=> phase \in InProg,
           Here.phase \in {"params", "header"} <=> phase \in {"params", "header"},
           Nested', (Here.phase)' = phase
    PROVE  StepInv'
<1>1. Here.phase \in Phases
  BY HereIn DEF StepInv, Walk
<1>2. Tagged'
  BY DEF StepInv, Tagged, AllTags, IsSeq
<1>3. InStep'
  BY <1>1 DEF StepInv, InStep, AllTags
<1>4. QED
  BY <1>2, <1>3 DEF StepInv

LEMMA Same ==
    ASSUME StepInv, UNCHANGED <<AllTags, scope, part>>
    PROVE  StepInv'
BY DEF StepInv, Nested, Tagged, InStep, AllTags, IsSeq, Here

\* Moving on in a routine without tagging.
LEMMA Onward ==
    ASSUME StepInv, UNCHANGED <<AllTags, scope>>, NEW phase \in Phases, Move(phase),
           Here.phase \in InProg <=> phase \in InProg,
           Here.phase \in {"params", "header"} <=> phase \in {"params", "header"}
    PROVE  StepInv'
<1>1. Nested' /\ (Here.phase)' = phase
  BY Moved DEF StepInv
<1>2. QED
  BY <1>1, Kept

-------------------------------------------------------------------------------
LEMMA ConstStep ==
    ASSUME StepInv, NEW x \in Id, ConstStmt(x)
    PROVE  StepInv'
<1>1. UNCHANGED <<AllTags, scope, part>>
  BY DEF ConstStmt, AllTags, tables, val!Push
<1>2. QED
  BY <1>1, Same

LEMMA VarStep ==
    ASSUME StepInv, NEW x \in Id, VarStmt(x)
    PROVE  StepInv'
<1>1. UNCHANGED <<AllTags, scope>> /\ Move("var")
  BY DEF VarStmt, AllTags, tables, var!Push, loc!Push
<1>2. Here.phase \in {"const", "var"}
  BY DEF VarStmt
<1>3. QED
  BY <1>1, <1>2, Onward DEF Phases, InProg

LEMMA CompoundStep ==
    ASSUME StepInv, Compound
    PROVE  StepInv'
<1>1. UNCHANGED <<AllTags, scope>> /\ Move("body")
  BY DEF Compound, AllTags, tables
<1>2. Here.phase \in {"const", "var", "exec"}
  BY DEF Compound
<1>3. QED
  BY <1>1, <1>2, Onward DEF Phases, InProg

LEMMA HeaderStep ==
    ASSUME StepInv, Header
    PROVE  StepInv'
<1>1. UNCHANGED <<AllTags, scope>> /\ Move("header")
  BY DEF Header, AllTags, proc!Push, func!Push, loc!Push
<1>2. Here.phase = "params"
  BY DEF Header
<1>3. QED
  BY <1>1, <1>2, Onward DEF Phases, InProg

LEMMA StatementStep ==
    ASSUME StepInv, NEW fails, NEW crashes, Statement(fails, crashes)
    PROVE  StepInv'
<1>1. UNCHANGED <<AllTags, scope, part>>
  BY DEF Statement, AllTags, tables
<1>2. QED
  BY <1>1, Same

\* The walk stays among the parameters.
LEMMA ParamStep ==
    ASSUME StepInv, NEW x \in Id, Param(x)
    PROVE  StepInv'
<1> DEFINE g == [Here EXCEPT !.left = @ - 1]
<1>1. Here \in Walk /\ Len(part) > 0 /\ Len(scope) \in Nat
  BY HereIn DEF StepInv
<1>2. UNCHANGED <<AllTags, scope>>
  BY DEF Param, AllTags, var!Push, loc!Push
<1>3. Here.phase = "params" /\ Here.left > 0
  BY DEF Param
<1>4. g \in Walk /\ g.phase = "params"
  BY <1>1, <1>3 DEF Walk
<1>5. part' = [part EXCEPT ![Len(part)] = g]
  BY DEF Param, Here
<1> HIDE DEF g
<1>6. part \in Seq(Walk)
  BY DEF StepInv, Nested
<1>7. /\ part' \in Seq(Walk) /\ Len(part') = Len(part) /\ part'[Len(part')] = g
      /\ \A k \in 1..(Len(part) - 1) : part'[k] = part[k]
  BY <1>1, <1>4, <1>5, <1>6, Replaced
<1>8. Nested' /\ (Here.phase)' = "params"
  BY <1>1, <1>2, <1>4, <1>7 DEF StepInv, Nested, Here
<1>9. QED
  BY <1>2, <1>3, <1>8, Kept DEF Phases, InProg

\* A routine: one more name in scope, one more frame, one tag more for
\* constants, variables and places.
LEMMA RoutineStep ==
    ASSUME StepInv, NEW sort \in {"proc", "func"}, NEW x \in Id, NEW n \in 0..MaxParams,
           Routine(sort, x, n)
    PROVE  StepInv'
<1>1. Here.phase \in {"const", "var", "exec"}
  BY DEF Routine
<1>2. Nested /\ Tagged /\ InStep
  BY DEF StepInv
<1>3. CASE Overloaded(x)
  <2>1. UNCHANGED <<AllTags, scope>> /\ Move("exec")
    BY <1>3 DEF Routine, AllTags, tables
  <2>2. QED
    BY <1>1, <2>1, Onward DEF Phases, InProg
<1>4. CASE ~Overloaded(x)
  <2> DEFINE g == [Here EXCEPT !.phase = "exec"]
             h == Frame("params", sort, n)
  <2>1. Here \in Walk /\ Len(part) > 0 /\ Len(scope) \in Nat
    BY <1>2, HereIn
  <2>2. g \in Walk /\ g.phase = "exec"
    BY <2>1 DEF Walk, Phases, InProg
  <2>3. h \in Walk /\ h.phase = "params"
    BY TablesAssumption DEF Frame, Walk, Phases
  <2>4. /\ part' = Append([part EXCEPT ![Len(part)] = g], h)
        /\ scope' = Append(scope, x)
        /\ val!Tag /\ var!Tag /\ loc!Tag
        /\ UNCHANGED <<proctags, functags>>
    BY <1>4 DEF Routine, Here
  <2> HIDE DEF g, h
  <2>5. part \in Seq(Walk)
    BY <1>2 DEF Nested
  <2>6. /\ part' \in Seq(Walk) /\ Len(part') = Len(part) + 1 /\ part'[Len(part')] = h
        /\ part'[Len(part)] = g
        /\ \A k \in 1..(Len(part) - 1) : part'[k] = part[k]
    BY <2>1, <2>2, <2>3, <2>4, <2>5, Entered
  <2>7. scope' \in Seq(Id) /\ Len(scope') = Len(scope) + 1
    BY <1>2, <2>4 DEF Nested
  <2>8. \A k \in 1..Len(scope') : part'[k].phase = "exec"
    BY <1>2, <2>1, <2>2, <2>6, <2>7 DEF Nested
  <2>9. Nested'
    BY <1>2, <2>6, <2>7, <2>8 DEF Nested
  <2>10. (Here.phase)' = "params"
    BY <2>3, <2>6 DEF Here
  <2>11. Tagged' /\ Len(valtags)' = Len(valtags) + 1 /\ Len(vartags)' = Len(vartags) + 1
         /\ Len(loctags)' = Len(loctags) + 1
         /\ Len(proctags)' = Len(proctags) /\ Len(functags)' = Len(functags)
    BY <1>2, <2>4, Tags DEF Tagged, IsSeq
  <2>12. /\ Len(valtags) = 2 * Len(scope) + 2 /\ Len(vartags) = 2 * Len(scope) + 2
         /\ Len(proctags) = 2 * Len(scope) + 2 /\ Len(functags) = 2 * Len(scope) + 2
         /\ Len(loctags) = Len(scope) + 2
    BY <1>1, <1>2 DEF InStep, InProg
  <2>13. InStep'
    BY <2>1, <2>7, <2>10, <2>11, <2>12 DEF InStep, InProg
  <2>14. QED
    BY <1>2, <2>9, <2>11, <2>13 DEF StepInv
<1>5. QED
  BY <1>3, <1>4

LEMMA OpenStep ==
    ASSUME StepInv, Open
    PROVE  StepInv'
<1>1. /\ Here.phase = "header" /\ Move("prog") /\ proc!Tag /\ func!Tag
      /\ UNCHANGED <<valtags, vartags, loctags, scope>>
  BY DEF Open, loc!Push
<1>2. Nested /\ Tagged /\ InStep
  BY DEF StepInv
<1>3. Nested' /\ (Here.phase)' = "prog"
  BY <1>1, <1>2, Moved DEF Phases
<1>4. Tagged' /\ Len(proctags)' = Len(proctags) + 1 /\ Len(functags)' = Len(functags) + 1
  BY <1>1, <1>2, Tags DEF Tagged, IsSeq
<1>5. /\ Len(valtags) = 2 * Len(scope) + 1 /\ Len(vartags) = 2 * Len(scope) + 1
      /\ Len(proctags) = 2 * Len(scope) /\ Len(functags) = 2 * Len(scope)
      /\ Len(loctags) = Len(scope) + 2
  BY <1>1, <1>2, HereIn DEF InStep, InProg
<1>6. InStep'
  BY <1>1, <1>2, <1>3, <1>4, <1>5, HereIn DEF InStep, InProg
<1>7. QED
  BY <1>3, <1>4, <1>6 DEF StepInv

LEMMA ProgStep ==
    ASSUME StepInv, Prog
    PROVE  StepInv'
<1>1. /\ Here.phase = "prog" /\ Move("const") /\ val!Tag /\ var!Tag /\ proc!Tag /\ func!Tag
      /\ UNCHANGED <<loctags, scope>>
  BY DEF Prog
<1>2. Nested /\ Tagged /\ InStep
  BY DEF StepInv
<1>3. Nested' /\ (Here.phase)' = "const"
  BY <1>1, <1>2, Moved DEF Phases, InProg
<1>4. Tagged' /\ Len(valtags)' = Len(valtags) + 1 /\ Len(vartags)' = Len(vartags) + 1
      /\ Len(proctags)' = Len(proctags) + 1 /\ Len(functags)' = Len(functags) + 1
  BY <1>1, <1>2, Tags DEF Tagged, IsSeq
<1>5. /\ Len(valtags) = 2 * Len(scope) + 1 /\ Len(vartags) = 2 * Len(scope) + 1
      /\ Len(proctags) = 2 * Len(scope) + 1 /\ Len(functags) = 2 * Len(scope) + 1
      /\ Len(loctags) = Len(scope) + 2
  BY <1>1, <1>2 DEF InStep, InProg
<1>6. InStep'
  BY <1>1, <1>2, <1>3, <1>4, <1>5, HereIn DEF InStep, InProg
<1>7. QED
  BY <1>3, <1>4, <1>6 DEF StepInv

LEMMA EndProgStep ==
    ASSUME StepInv, EndProg
    PROVE  StepInv'
<1>1. /\ Here.phase = "body" /\ Move("end")
      /\ val!Detag /\ var!Detag /\ proc!Detag /\ func!Detag
      /\ UNCHANGED <<loctags, scope>>
  BY DEF EndProg
<1>2. Nested /\ Tagged /\ InStep
  BY DEF StepInv
<1>3. Nested' /\ (Here.phase)' = "end"
  BY <1>1, <1>2, Moved DEF Phases
<1>4. Tagged' /\ Len(valtags)' = Len(valtags) - 1 /\ Len(vartags)' = Len(vartags) - 1
      /\ Len(proctags)' = Len(proctags) - 1 /\ Len(functags)' = Len(functags) - 1
  BY <1>1, <1>2, Detags DEF Tagged, IsSeq
<1>5. /\ Len(valtags) = 2 * Len(scope) + 2 /\ Len(vartags) = 2 * Len(scope) + 2
      /\ Len(proctags) = 2 * Len(scope) + 2 /\ Len(functags) = 2 * Len(scope) + 2
      /\ Len(loctags) = Len(scope) + 2
  BY <1>1, <1>2 DEF InStep, InProg
<1>6. InStep'
  BY <1>1, <1>2, <1>3, <1>4, <1>5, HereIn DEF InStep, InProg
<1>7. QED
  BY <1>3, <1>4, <1>6 DEF StepInv

\* Back to the routine around, which waits among its nested routines.
LEMMA EndRoutineStep ==
    ASSUME StepInv, EndRoutine
    PROVE  StepInv'
<1>1. /\ Here.phase = "end" /\ scope # <<>>
      /\ val!Detag /\ var!Detag /\ proc!Detag /\ func!Detag /\ loc!Detag
      /\ part' = Outer(part) /\ scope' = Outer(scope)
  BY DEF EndRoutine
<1>2. Nested /\ Tagged /\ InStep
  BY DEF StepInv
<1>3. scope \in Seq(Id) /\ part \in Seq(Walk) /\ Len(part) = Len(scope) + 1 /\ Len(scope) \in Nat
  BY <1>2 DEF Nested
<1>4. Len(scope) > 0
  BY <1>1, <1>3
<1>5. scope' \in Seq(Id) /\ Len(scope') = Len(scope) - 1
  BY <1>1, <1>3, <1>4, Left
<1>6. /\ part' \in Seq(Walk) /\ Len(part') = Len(part) - 1
      /\ \A k \in 1..(Len(part) - 1) : part'[k] = part[k]
  <2>1. part \in Seq(Walk) /\ Len(part) > 0
    BY <1>3, <1>4
  <2>2. part' = Outer(part)
    BY <1>1
  <2>3. /\ Outer(part) \in Seq(Walk) /\ Len(Outer(part)) = Len(part) - 1
        /\ \A k \in 1..(Len(part) - 1) : Outer(part)[k] = part[k]
    BY <2>1, Left
  <2>4. QED
    BY <2>2, <2>3
<1>7. \A k \in 1..Len(scope) : part[k].phase = "exec"
  BY <1>2 DEF Nested
<1>8. Nested' /\ (Here.phase)' = "exec"
  <2>1. /\ Len(part') = Len(scope') + 1 /\ Len(part') = Len(scope) /\ Len(scope') \in Nat
        /\ Len(scope) \in 1..Len(scope)
    BY <1>3, <1>4, <1>5, <1>6
  <2>2. \A k \in 1..Len(scope) : part'[k] = part[k]
    BY <1>3, <1>6
  <2>3. \A k \in 1..Len(scope) : part'[k].phase = "exec"
    BY <1>7, <2>2
  <2>4. (Here.phase)' = "exec"
    BY <2>1, <2>3 DEF Here
  <2>5. \A k \in 1..Len(scope') : part'[k].phase = "exec"
    BY <1>3, <1>5, <2>3
  <2>6. QED
    BY <1>5, <1>6, <2>1, <2>4, <2>5 DEF Nested
<1>9. Tagged' /\ Len(valtags)' = Len(valtags) - 1 /\ Len(vartags)' = Len(vartags) - 1
      /\ Len(proctags)' = Len(proctags) - 1 /\ Len(functags)' = Len(functags) - 1
      /\ Len(loctags)' = Len(loctags) - 1
  BY <1>1, <1>2, Detags DEF Tagged
<1>10. /\ Len(valtags) = 2 * Len(scope) + 1 /\ Len(vartags) = 2 * Len(scope) + 1
       /\ Len(proctags) = 2 * Len(scope) + 1 /\ Len(functags) = 2 * Len(scope) + 1
       /\ Len(loctags) = Len(scope) + 2
  BY <1>1, <1>2 DEF InStep, InProg
<1>11. InStep'
  BY <1>3, <1>4, <1>5, <1>8, <1>9, <1>10 DEF InStep, InProg
<1>12. QED
  BY <1>8, <1>9, <1>11 DEF StepInv

-------------------------------------------------------------------------------
LEMMA StepInvInit == Init => StepInv
<1> SUFFICES ASSUME Init PROVE StepInv
  OBVIOUS
<1>1. /\ scope = <<>> /\ part = << Frame("const", "proc", 0) >>
      /\ valtags = <<0, 0>> /\ vartags = <<0, 0>> /\ proctags = <<0, 0>>
      /\ functags = <<0, 0>> /\ loctags = <<0, 0>>
  BY DEF Init
<1>2. Frame("const", "proc", 0) \in Walk /\ Frame("const", "proc", 0).phase = "const"
  BY DEF Frame, Walk, Phases, InProg
<1>3. Nested /\ Here.phase = "const" /\ Len(scope) = 0
  BY <1>1, <1>2 DEF Nested, Here
<1>4. Tagged
  <2>1. <<0, 0>> \in Seq(Nat)
    OBVIOUS
  <2>2. IsSeq(<<0, 0>>)
    BY <2>1, SeqIsSeq
  <2>3. QED
    BY <1>1, <2>2 DEF Tagged
<1>5. InStep
  BY <1>1, <1>3 DEF InStep, InProg
<1>6. QED
  BY <1>3, <1>4, <1>5 DEF StepInv

LEMMA StepInvNext == StepInv /\ [Next]_vars => StepInv'
<1> SUFFICES ASSUME StepInv, [Next]_vars PROVE StepInv'
  OBVIOUS
<1>1. ASSUME NEW x \in Id,
             \/ ConstStmt(x) \/ VarStmt(x) \/ Param(x)
             \/ Assign(x) \/ Identifier(x) \/ UseVariable(x)
      PROVE  StepInv'
  BY <1>1, ConstStep, VarStep, ParamStep, StatementStep DEF Assign, Identifier, UseVariable
<1>2. ASSUME NEW x \in Id, NEW sort \in {"proc", "func"}, NEW n \in 0..MaxParams,
             Routine(sort, x, n)
      PROVE  StepInv'
  BY <1>2, RoutineStep
<1>3. ASSUME NEW x \in Id, NEW n \in 0..MaxParams, CallProc(x, n) \/ CallFunc(x, n)
      PROVE  StepInv'
  BY <1>3, StatementStep DEF CallProc, CallFunc, Call
<1>4. CASE Header
  BY <1>4, HeaderStep
<1>5. CASE Open
  BY <1>5, OpenStep
<1>6. CASE Prog
  BY <1>6, ProgStep
<1>7. CASE Compound
  BY <1>7, CompoundStep
<1>8. CASE EndProg
  BY <1>8, EndProgStep
<1>9. CASE EndRoutine
  BY <1>9, EndRoutineStep
<1>10. CASE Stopped \/ UNCHANGED vars
  <2>1. UNCHANGED <<AllTags, scope, part>>
    BY <1>10 DEF Stopped, vars, tables, AllTags
  <2>2. QED
    BY <2>1, Same
<1>11. QED
  BY <1>1, <1>2, <1>3, <1>4, <1>5, <1>6, <1>7, <1>8, <1>9, <1>10 DEF Next

\* Whatever the program, the tables are tagged alike wherever their depths are
\* compared, no detag() reaches the base tag, and the code generator is as deep
\* as the routines are nested.  Code: every tag() and detag() of pl0_tac_gen.cpp
\* and pl0_x86.cpp.
THEOREM TablesInStep == Spec => []InStep
<1>1. StepInv => InStep
  BY DEF StepInv
<1>2. QED
  BY <1>1, StepInvInit, StepInvNext, PTL DEF Spec
===============================================================================
